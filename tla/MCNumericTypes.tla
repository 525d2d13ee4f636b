--------------------------- MODULE MCNumericTypes ---------------------------
EXTENDS NumericTypes

\* 2^bits of the immediates.
SmallModulus == [k \in Kinds |-> IF k = "s64" THEN 2^LongBits ELSE 2^WordBits]
=============================================================================
