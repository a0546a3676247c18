--------------------------- MODULE MCWireProtocol ---------------------------
(* Messages of every item type, an empty one among them.                   *)
EXTENDS WireProtocol

CONSTANTS c1, c2

Rotate == [seq |-> 7, data |-> <<[t |-> TInt, v |-> <<0>>], [t |-> TLong, v |-> <<1, 2>>],
                                 [t |-> TString, v |-> <<2, 1>>]>>]
Regist == [seq |-> 8, data |-> <<[t |-> TInt, v |-> <<4>>], [t |-> TString, v |-> <<>>],
                                 [t |-> TString, v |-> <<0>>]>>]
Beat   == [seq |-> 2, data |-> <<[t |-> TInt, v |-> <<5>>]>>]
Empty  == [seq |-> 0, data |-> <<>>]
Wider  == [seq |-> 3, data |-> <<[t |-> TInt, v |-> <<4>>], [t |-> TString, v |-> <<9>>]>>]

MCChan == {c1, c2}
MCMessages == {<<Rotate, Empty, Beat>>, <<Empty, Regist, Beat>>, <<Beat, Wider>>}
MCWide == {9}

=============================================================================
