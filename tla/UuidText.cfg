\* Two threads; ids that differ in the bytes after the first dash and after
\* the middle, by nibbles on both sides of 9 and a; byte 9 holds the variant.
CONSTANTS
    t1 = t1
    t2 = t2
    Callers = {t1, t2}
    Bytes = {9, 154, 240}
    Varying = {5, 9}
SPECIFICATION TextSpec
INVARIANTS
    TextTypeOK
    FormatterOfCpu
    TextOrder
    RoundTrip
    ParserExact
    ReaderSeesParts
\* The threads format one id each.
CHECK_DEADLOCK FALSE
