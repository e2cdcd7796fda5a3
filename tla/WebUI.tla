------------------------------- MODULE WebUI --------------------------------
(***************************************************************************)
(* The web UI server: it forwards what its users post to the deposit       *)
(* services, and reads the chain itself for its state page, call by call,  *)
(* while blocks are added. Explorer models what it makes of transactions.  *)
(***************************************************************************)
EXTENDS Interbank

CONSTANT WebRequest     \* bound: what the users of the console post

VARIABLES
    page,           \* the values of the state page read so far
    since           \* the length of the chain when the first was read

webVars == <<page, since>>

WebInit == page = <<>> /\ since = 0

-----------------------------------------------------------------------------
(* The proxy.                                                               *)

\* The body goes on as it is; 502 is answered if the service cannot be reached.
ProxyPost(r) ==
    /\ Post(r) \/ (holder[r.url] = {} /\ PostFails(r))
    /\ UNCHANGED webVars

\* After 30 seconds, or when the browser goes away.
ProxyTimeout(r) == GiveUpOn(r) /\ UNCHANGED webVars

-----------------------------------------------------------------------------
(* The state page.                                                          *)

HeadFirst == <<"head", "supply", "reserve", "bankB", "merchant">>
ReadOrder == <<"supply", "reserve", "bankB", "merchant", "head">>

\* What a call would return after the given block.
ValueAt(what, block) ==
    CASE what \in {"supply", "reserve"} -> blocks[block][what]
      [] what = "bankB" -> blocks[block].balance[BankB.address]
      [] what = "merchant" -> blocks[block].balance[Merchant]
      [] what = "head" -> block - 1

\* One call to the node; an error is dropped, and zero shown for it. Bound: at most
\* one call of a page fails.
ReadNext ==
    /\ Len(page) < Len(ReadOrder)
    /\ since' = IF page = <<>> THEN Len(blocks) ELSE since
    /\ \/ page' = Append(page, ValueAt(ReadOrder[Len(page) + 1], Len(blocks)))
       \/ 0 \notin {page[k] : k \in DOMAIN page} /\ page' = Append(page, 0)
    /\ UNCHANGED interbankVars

Answered == Len(page) = Len(ReadOrder)

AnswerState ==
    /\ Answered
    /\ page' = <<>> /\ since' = 0
    /\ UNCHANGED interbankVars

-----------------------------------------------------------------------------
(* Properties.                                                              *)

Field(what) == page[CHOOSE k \in DOMAIN ReadOrder : ReadOrder[k] = what]

\* The state page is read while blocks are added, and is of no one block. Still, every
\* number on it but a zero, which may stand for a failed call, was true at some block
\* from the one the reads began at to the head it shows; and it shows no shortfall:
\* the supply is read before the reserve, which a mint raises with it.
StatePageConsistent ==
    Answered =>
        /\ Field("head") # 0 =>
               \A what \in {"supply", "reserve", "bankB", "merchant"} :
                   \E b \in since .. Field("head") + 1 : Field(what) \in {0, ValueAt(what, b)}
        /\ Field("reserve") # 0 => Field("supply") <= Field("reserve")
=============================================================================
