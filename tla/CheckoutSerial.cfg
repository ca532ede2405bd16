SPECIFICATION Spec
CONSTANTS
    Order = {o1,o2}
    Item = {}
    Offer = {}
    Request = {r1}
    Kind = "service"
    Provider <- StripeAndPaypal
    Op = {"create","pay","settled","return","capture","approved","confirm","failed","cancel","pspCancel","checkout","expire","complete"}
    Price = 3
    OtherPrice = 2
    OfferPrice = 1
    Share = 1
    ItemPrice = 2
    MaxIntent = 2
    NoItem = NoItem
    NoOffer = NoOffer
    None = None
SYMMETRY Symmetry
CHECK_DEADLOCK FALSE
PROPERTIES DecidedStays TurnedDownOnlyWhenSold
