--------------------------- MODULE MCChatSession ---------------------------
(***************************************************************************)
(* Model values and reply lists with which TLC checks ChatSession.         *)
(***************************************************************************)
EXTENDS ChatSession, TLC

CONSTANT a1, a2

Text == <<>>
Read == <<Call("read", None)>>
Quote == <<Call("quote_sale", None)>>
Sale(a) == <<Call("record_sale", a)>>
Transaction == <<Call("record_transaction", None)>>
OtherWrite == <<Call("other_write", None)>>

\* The shortest turns: a text, one write, or an atomic batch of writes.
ShortReplies == {Text, Transaction, Transaction \o Transaction}

\* Two rounds of reads, quotes, sales, other writes and a batch of writes.
LongReplies == {Text, Read \o Quote, Quote \o Quote, Sale(a1), Sale(a2),
                OtherWrite, Transaction \o Transaction}

Symmetry == Permutations(Proposals) \cup Permutations(Requests)
=============================================================================
