SPECIFICATION Spec
CONSTANTS
    o1 = o1
    o2 = o2
    q1 = q1
    q2 = q2
    c = c
    i = i
    j = j
    Orders = {o1, o2}
    Quotes = {q1, q2}
    Codes = {c}
    Items = {i, j}
    Prices = {1, 2}
    Lines = {1, 2, 3}
    OrderOf <- MCOrderOf
    LineCode <- MCLineCode
    CodeOf <- MCCodeOf
    ItemOf <- MCItemOf
    PriceOf <- MCPriceOf
    TreeOf <- MCTreeOf
    NoLine = NoLine
    NoQuote = NoQuote
    NoPrice = NoPrice
    NoRequest = NoRequest
INVARIANTS
    StatusesAgree
    PricedAsQuoted
    ActivePrices
CHECK_DEADLOCK FALSE
