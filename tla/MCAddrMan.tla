------------------------------- MODULE MCAddrMan -------------------------------
EXTENDS AddrMan

\* two sources put an address into two buckets; b and c are in each other's way in both
ThreeAddr == {"a", "b", "c"}
TwoSource == {"s", "t"}
NewBuckets == [x \in ThreeAddr \X TwoSource |-> IF x[2] = "s" THEN 0 ELSE 1]
Positions  == [x \in ThreeAddr \X {0, 1} |-> IF x = <<"a", 1>> THEN 2 ELSE 1]
TriedSlots == "a" :> 0 @@ "b" :> 0 @@ "c" :> 1
===============================================================================
