--------------------------- MODULE SignalHandler ---------------------------
(***************************************************************************)
(* The signal handler of source/signal_handler.c: a list of handlers, one  *)
(* per signal, each with a list of callbacks, and signal_handler_proc,     *)
(* which the system runs on a signal in the middle of any call.  A signal  *)
(* that interrupts the holder of a list's mutex waits for it for ever, so  *)
(* here signals come between the locked sections of a call; a callback     *)
(* does not call the library.                                              *)
(***************************************************************************)
EXTENDS CountedWalk, Functions, FiniteSetsExt

CONSTANTS
  Sig,        \* signals
  StartCap,   \* the capacity newArrayList starts with
  Most,       \* bound: callbacks of a signal at a time
  Careful     \* TRUE: a deregistration matches one callback at most

Any == "null"   \* an argument that matches every value

(* Three registrations, of two callbacks and two values of user_data.      *)
cb_of == [fu |-> "f", gu |-> "g", fv |-> "f"]
user_data_of == [fu |-> "u", gu |-> "u", fv |-> "v"]
Registration == DOMAIN cb_of
Idle == [at |-> "idle"]

VARIABLES
  handlers,    \* SIGNAL_HANDLER_LIST: the signal, and sd_list unless it is NULL
  installed,   \* the signals sigaction was called for
  call,        \* the call in progress
  registered,  \* how often each callback is registered for each signal
  heard        \* how often the last step, a signal, called each callback

vars == <<handlers, installed, call, registered, heard>>

None == [r \in Registration |-> 0]
NewList == [i \in 1..StartCap |-> Empty]

(* ArrayList_find_item_by_value_tsafe: the first handler of the signal.    *)
Places(sig) == {i \in DOMAIN handlers : handlers[i].sig = sig}
Handler(sig) == Min(Places(sig))

-----------------------------------------------------------------------------
(* The system delivers a signal.                                           *)
signal_handler_proc(sig) ==
  /\ sig \in installed
  /\ heard' = IF Places(sig) = {} THEN None
              ELSE LET s == handlers[Handler(sig)].sd_list
                   IN [r \in Registration |-> Cardinality({i \in Met(s, {}) : s[i] = r})]
  /\ UNCHANGED <<handlers, installed, call, registered>>

-----------------------------------------------------------------------------
(* signal_handler_register, in steps that a signal may come between.       *)

(* A step of the program itself.                                          *)
Program == heard' = None

Goto(at) == call' = [call EXCEPT !.at = at]
Fail == call' = Idle /\ UNCHANGED <<handlers, installed>>

signal_handler_register ==
  /\ call = Idle
  /\ \E s \in Sig, r \in Registration :
       /\ FoldFunction(+, 0, registered[s]) < Most
       /\ call' = [at |-> IF Places(s) = {} THEN "install" ELSE "ensure", sig |-> s, reg |-> r]
  /\ Program /\ UNCHANGED <<handlers, installed, registered>>

(* A new handler, whose list may be missing, is made known to the system,  *)
InstallHandler ==
  /\ call.at = "install"
  /\ \/ Fail
     \/ /\ \E l \in BOOLEAN : call' = [at |-> "list", sig |-> call.sig, reg |-> call.reg, live |-> l]
        /\ installed' = installed \cup {call.sig}
        /\ UNCHANGED handlers
  /\ Program /\ UNCHANGED registered

(* and then added to the list.                                             *)
ListHandler ==
  /\ call.at = "list"
  /\ handlers' = Append(handlers, [sig |-> call.sig, live |-> call.live,
                                   sd_list |-> IF call.live THEN NewList ELSE <<>>])
  /\ Goto("ensure")
  /\ Program /\ UNCHANGED <<installed, registered>>

(* Mutant: the handler always gets a new list.                             *)
EnsureList_always ==
  /\ call.at = "ensure"
  /\ handlers' = [handlers EXCEPT ![Handler(call.sig)].live = TRUE,
                                  ![Handler(call.sig)].sd_list = NewList]
  /\ Goto("add") /\ Program /\ UNCHANGED <<installed, registered>>

EnsureList ==
  /\ call.at = "ensure"
  /\ LET h == Handler(call.sig)
     IN \/ ~handlers[h].live /\ Fail
        \/ /\ handlers' = IF handlers[h].live THEN handlers
                          ELSE [handlers EXCEPT ![h].live = TRUE, ![h].sd_list = NewList]
           /\ Goto("add") /\ UNCHANGED installed
  /\ Program /\ UNCHANGED registered

(* ArrayList_add doubles a full list, or fails.                            *)
AddData ==
  /\ call.at = "add"
  /\ LET h == Handler(call.sig)
         s == handlers[h].sd_list
         full == Occupied(s) = DOMAIN s
         room == IF s = <<>> THEN 1 ELSE Len(s)
     IN \/ full /\ Fail /\ UNCHANGED registered
        \/ /\ handlers' = [handlers EXCEPT
                ![h].sd_list = Added(IF full THEN s \o [i \in 1..room |-> Empty] ELSE s, call.reg)]
           /\ registered' = [registered EXCEPT ![call.sig][call.reg] = @ + 1]
           /\ call' = Idle /\ UNCHANGED installed
  /\ Program

-----------------------------------------------------------------------------
(* The registrations the arguments of a deregistration match.              *)
Matched(cb, user) == {r \in Registration : cb \in {cb_of[r], Any} /\ user \in {user_data_of[r], Any}}

(* The walk of signal_handler_deregister removes what matches,             *)
signal_handler_deregister ==
  /\ call = Idle
  /\ \E s \in Sig, cb \in {"f", "g", Any}, user \in {"u", "v", Any} :
       /\ Places(s) # {} /\ handlers[Handler(s)].live
       /\ LET list == handlers[Handler(s)].sd_list
              gone == {i \in Occupied(list) : list[i] \in Matched(cb, user)}
          IN /\ Careful => Cardinality(gone) <= 1
             /\ handlers' = [handlers EXCEPT ![Handler(s)].sd_list = Left(list, gone)]
             /\ call' = IF list = <<>> THEN Idle ELSE [at |-> "shrink", sig |-> s]
       /\ registered' = [registered EXCEPT ![s] =
                           [r \in Registration |-> IF r \in Matched(cb, user) THEN 0 ELSE @[r]]]
  /\ Program /\ UNCHANGED installed

(* The list of handlers, which starts with StartCap slots and doubles when *)
(* there is none left, is full.                                            *)
HandlersFull == \E k \in 0..Len(handlers) : Len(handlers) = StartCap * 2^k

(* and the list is shrunk, unless the list of handlers is full.            *)
ShrinkList ==
  /\ call.at = "shrink"
  /\ handlers' = IF HandlersFull THEN handlers
                 ELSE [handlers EXCEPT ![Handler(call.sig)].sd_list = Shrunk(@)]
  /\ call' = Idle
  /\ Program /\ UNCHANGED <<installed, registered>>

(* signal_handler_deregister_all deletes the list of one handler after the *)
(* other.                                                                  *)
signal_handler_deregister_all ==
  /\ \/ call = Idle /\ handlers # <<>> /\ call' = [at |-> "all", next |-> 1]
        /\ UNCHANGED <<handlers, registered>>
     \/ /\ call.at = "all"
        /\ handlers' = [handlers EXCEPT ![call.next].live = FALSE, ![call.next].sd_list = <<>>]
        /\ registered' = [registered EXCEPT ![handlers[call.next].sig] = None]
        /\ call' = IF call.next = Len(handlers) THEN Idle ELSE [call EXCEPT !.next = @ + 1]
  /\ Program /\ UNCHANGED installed

-----------------------------------------------------------------------------
Init ==
  /\ handlers = <<>> /\ installed = {} /\ call = Idle
  /\ registered = [s \in Sig |-> None] /\ heard = None

Next ==
  \/ \E sig \in Sig : signal_handler_proc(sig)
  \/ signal_handler_register \/ InstallHandler \/ ListHandler \/ EnsureList \/ AddData
  \/ signal_handler_deregister \/ ShrinkList \/ signal_handler_deregister_all

Spec == Init /\ [][Next]_vars

(* A signal calls each callback as often as it is registered: at whatever  *)
(* point of a registration or a deregistration it comes, after lists were  *)
(* shrunk, grown and deleted, and after calls that failed half-way.        *)
CallsRegistered ==
  [][\A sig \in Sig : signal_handler_proc(sig) => heard' = registered[sig]]_vars
=============================================================================
