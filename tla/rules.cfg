\* Every price, discount, weight and hour of a small range.
SPECIFICATION Spec
CONSTANTS
    Subtotals = {0, 1, 4, 5, 7, 10, 13}
    Amounts = {0, 3, 30}
    Percentages = {0, 15, 50, 120}
    Fees = {0, 3}
    WeightRange = {1, 2, 3, 4, 5}
    Hours = {0, 1, 2, 3, 4}
INVARIANTS HoldIsFourFifths SpentIsDeducted WeighingIsFair 
CHECK_DEADLOCK FALSE
