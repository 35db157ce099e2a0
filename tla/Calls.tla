--------------------------------- MODULE Calls ---------------------------------
(***************************************************************************)
(* Calls to the Workers of the corpus, as ContentSigners and Citations     *)
(* have them: a call occupies a slot, is served by some isolate, works off *)
(* its steps (pc) and ends with what it said.  What else a call carries is *)
(* its component's.                                                        *)
(***************************************************************************)
EXTENDS Naturals

CONSTANTS
  Isolate,    \* isolates of the corpus MCP
  Slot,       \* calls that can be in flight at once
  MaxBegins   \* bound: calls ever started

ASSUME CallsConstants == MaxBegins \in Nat

VARIABLES
  req,        \* slot -> its call
  begun       \* calls started

Active(t) == req[t].pc # "done"
Set(t, r) == req' = [req EXCEPT ![t] = r]
Ended(r, said) == [r EXCEPT !.pc = "done", !.said = said]
Fails(t) == Set(t, Ended(req[t], "failed"))
=============================================================================
