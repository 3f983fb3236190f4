---------------------------- MODULE BoundedFifo ----------------------------
(***************************************************************************)
(* What a rotational buffer (source/RBuff.c) promises its callers: a       *)
(* queue of at most Size bytes.  Bytes leave in the order they came in.    *)
(* A push into a full queue drops the oldest bytes, or, when the object    *)
(* was initialised with rbuffNoOverwrite, stores only what fits.           *)
(***************************************************************************)
EXTENDS Integers, Sequences

CONSTANTS
  Byte,         \* the values a byte of the buffer can have
  Size,         \* capacity in bytes
  MaxCall       \* bound on the 'count' argument of a call

VARIABLES
  queue,        \* the bytes held, oldest first
  noOverwrite,  \* whether the rbuffNoOverwrite flag is raised
  ret           \* the last call: its return value, and the bytes it handed
                \* to its caller or was given by it

vars == <<queue, noOverwrite, ret>>

Lower(a, b) == IF a < b THEN a ELSE b

(* The first n, and the last n, bytes of s.                                *)
FirstOf(s, n) == SubSeq(s, 1, n)
LastOf(s, n)  == SubSeq(s, Len(s) - n + 1, Len(s))

(* A caller's array of 1..MaxCall bytes.                                   *)
Arrays == UNION {[1..n -> Byte] : n \in 1..MaxCall}

Init ==
  /\ queue = <<>>
  /\ noOverwrite = FALSE
  /\ ret = [n |-> 0, bytes |-> <<>>]

(* An array longer than the whole buffer contributes only its last Size    *)
(* bytes, whatever the overwrite mode.                                     *)
Push(data) ==
  LET kept == LastOf(data, Lower(Len(data), Size))
      room == Size - Len(queue)
      all  == queue \o kept
  IN /\ UNCHANGED noOverwrite
     /\ IF noOverwrite
        THEN /\ queue' = FirstOf(all, Lower(Len(all), Size))
             /\ ret' = [n |-> Lower(Len(kept), room), bytes |-> data]
        ELSE /\ queue' = LastOf(all, Lower(Len(all), Size))
             /\ ret' = [n |-> Len(kept), bytes |-> data]

(* Peeking hands out the oldest n bytes and keeps them; popping removes    *)
(* them as well.                                                           *)
Peek(n) ==
  LET k == Lower(n, Len(queue))
  IN /\ ret' = [n |-> k, bytes |-> FirstOf(queue, k)]
     /\ UNCHANGED <<queue, noOverwrite>>

Pop(n) ==
  LET k == Lower(n, Len(queue))
  IN /\ ret' = [n |-> k, bytes |-> FirstOf(queue, k)]
     /\ queue' = LastOf(queue, Len(queue) - k)
     /\ UNCHANGED noOverwrite

(* Popping one byte of an empty queue is an error (ALIB_BAD_ARG, -1).      *)
PopEmpty ==
  /\ queue = <<>>
  /\ ret' = [n |-> -1, bytes |-> <<>>]
  /\ UNCHANGED <<queue, noOverwrite>>

(* The caller filled n bytes of the free room itself and commits them.     *)
Commit(n) ==
  /\ Len(queue) + n <= Size
  /\ \E bytes \in [1..n -> Byte] : queue' = queue \o bytes
  /\ UNCHANGED noOverwrite
  /\ ret' = [n |-> 0, bytes |-> <<>>]

(* Emptied, and possibly given another overwrite mode.                     *)
Reset ==
  /\ queue' = <<>>
  /\ noOverwrite' \in BOOLEAN
  /\ ret' = [n |-> 0, bytes |-> <<>>]

Next ==
  \/ \E data \in Arrays : Push(data)
  \/ \E n \in 0..MaxCall : Peek(n) \/ Pop(n) \/ Commit(n)
  \/ PopEmpty
  \/ Reset

Spec == Init /\ [][Next]_vars
=============================================================================
