------------------------------ MODULE FlatFile ------------------------------
(***************************************************************************)
(* What the File layer promises to the NAND simulator: the chip image is a *)
(* flat array of bytes that survives the death of the process.  One call   *)
(* at a time reads or writes the byte range addr .. addr+size-1.  The      *)
(* bytes of the range travel in pieces, in any order; SUCCESS is returned  *)
(* only when all of them have travelled, FAILURE may be returned early.    *)
(* When the process dies some of the bytes still to be written may have    *)
(* reached the image: a write can be torn.                                 *)
(***************************************************************************)
EXTENDS Integers

CONSTANTS
  Len,      \* bytes of the chip image a call can address
  MaxSize,  \* longest range one call may ask for
  Byte,     \* values of a byte
  Zero      \* the byte of a file that was never written

VARIABLES
  store,   \* the image
  call,    \* the current call, or the last one, with the caller's buffer
  todo,    \* indexes of the caller's buffer that have still to travel
  status   \* "none", "busy", or what the last call returned

vars == <<store, call, todo, status>>

Calls ==
  { c \in [op : {"read", "write"}, addr : 0 .. Len - 1, size : 1 .. MaxSize,
           buf : UNION {[0 .. n - 1 -> Byte] : n \in 1 .. MaxSize}] :
      /\ c.addr + c.size <= Len
      /\ DOMAIN c.buf = 0 .. c.size - 1 }

NoCall == [op |-> "none", addr |-> 0, size |-> 0, buf |-> [i \in {} |-> Zero]]

Init ==
  /\ store \in [0 .. Len - 1 -> Byte]
  /\ call = NoCall
  /\ todo = {}
  /\ status = "none"

Begin(c) ==
  /\ status # "busy"
  /\ call' = c
  /\ todo' = 0 .. c.size - 1
  /\ status' = "busy"
  /\ UNCHANGED store

\* The image after the bytes of the caller's buffer with an index in S landed.
Landed(S) ==
  [a \in 0 .. Len - 1 |->
     IF a - call.addr \in S THEN call.buf[a - call.addr] ELSE store[a]]

\* The caller's buffer after the bytes with an index in S were fetched.
Fetched(S) ==
  [i \in DOMAIN call.buf |->
     IF i \in S THEN store[call.addr + i] ELSE call.buf[i]]

Transfer(S) ==
  /\ status = "busy"
  /\ S \subseteq todo
  /\ todo' = todo \ S
  /\ \/ /\ call.op = "read"
        /\ call' = [call EXCEPT !.buf = Fetched(S)]
        /\ UNCHANGED store
     \/ /\ call.op = "write"
        /\ store' = Landed(S)
        /\ UNCHANGED call
  /\ UNCHANGED status

Return ==
  /\ status = "busy"
  /\ todo = {}
  /\ status' = "SUCCESS"
  /\ UNCHANGED <<store, call, todo>>

Fail ==
  /\ status = "busy"
  /\ status' = "FAILURE"
  /\ todo' = {}
  /\ UNCHANGED <<store, call>>

\* The process ends or the file is opened anew: the last status is forgotten.
Forget(S) ==
  /\ S \subseteq todo
  /\ store' = IF call.op = "write" THEN Landed(S) ELSE store
  /\ call' = NoCall
  /\ todo' = {}
  /\ status' = "none"

Next ==
  \/ \E c \in Calls : Begin(c)
  \/ \E S \in SUBSET todo : Transfer(S) \/ Forget(S)
  \/ Return
  \/ Fail

Spec == Init /\ [][Next]_vars
=============================================================================
