SPECIFICATION Spec
CONSTANTS
    Order = {o1,o2,o3}
    Item = {}
    Offer = {f1,f2}
    Request = {r1,r2}
    Kind = "product"
    Provider <- OneStripe
    Op = {"create","expire","offer","cancel"}
    Price = 3
    OtherPrice = 2
    OfferPrice = 1
    Share = 1
    ItemPrice = 2
    MaxIntent = 1
    NoItem = NoItem
    NoOffer = NoOffer
    None = None
SYMMETRY Symmetry
CHECK_DEADLOCK FALSE
INVARIANTS OneReservation OfferMakesOneOrder
