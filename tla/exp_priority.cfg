\* One PE, pri_bits 5: three registered priorities, one invalid one and two
\* handlers, so three-deep nesting and re-registration both happen.
CONSTANTS
    h1 = h1
    h2 = h2
    PriBits = 5
    Pris <- Pris5
    AllPris <- AllPris5
    Handlers <- TwoHandlers
SPECIFICATION Spec
INVARIANT TypeOK
CHECK_DEADLOCK FALSE
