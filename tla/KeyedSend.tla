------------------------------ MODULE KeyedSend ------------------------------
(***************************************************************************)
(* The keyed send of FastRTPSSwift: how the encoded data and the key get   *)
(* from Swift to BridgedParticipant::send, and the instance handle that    *)
(* send makes of the key.                                                  *)
(*                                                                         *)
(* Swift passes bare addresses: that of the local variable "data", and     *)
(* that of the bytes of ddsData.key, a value made for this one access.     *)
(* Both are let out of withUnsafeBytes, which vouches for them only inside *)
(* its block; the C++ side reads them after it.  Freed memory keeps its    *)
(* bytes until it is allocated again.                                      *)
(*                                                                         *)
(* What send does with the history of the writer is in BridgedWriters.     *)
(***************************************************************************)
EXTENDS Integers, Sequences

CONSTANTS
  Senders,         \* application threads that send
  Addresses,       \* buffers of the heap
  BufferSize,      \* bytes in each of them
  Keys, Payloads,  \* the byte strings sent as keys and as data
  HandleSize,      \* bytes of an instance handle, 16 in the code
  Bytes,           \* the values of a byte, 0 .. 255 in the code
  MD5,             \* the digest of each key that is longer than a handle
  MaxSends,        \* bound on the sends of a behaviour
  Nil              \* no address; the owner of a free buffer

LongKeys == UNION {[1 .. n -> Bytes] : n \in HandleSize + 1 .. BufferSize}
Handles  == [1 .. HandleSize -> Bytes]

ASSUME KeyedAssumption ==
  /\ Nil \notin Senders \cup Addresses
  /\ Bytes \subseteq 0 .. 255 /\ 0 \in Bytes
  /\ MD5 \in [LongKeys -> Handles]
  /\ BufferSize \in Nat /\ HandleSize \in Nat \ {0} /\ MaxSends \in Nat
  /\ \A str \in Keys \cup Payloads : str \in Seq(Bytes) /\ Len(str) <= BufferSize

VARIABLES
  memory,          \* memory[a]: the bytes of buffer a
  owner,           \* owner[a]: the thread whose buffer a is, or Nil
  snd,             \* snd[s]: where the send of thread s is
  sent,            \* number of sends so far
  samples          \* what was handed to add_change, with what was meant

vars == <<memory, owner, snd, sent, samples>>
-----------------------------------------------------------------------------
(* The handle of a short key: its bytes, then zeros.                       *)
Padded(key) == [n \in 1 .. HandleSize |-> IF n <= Len(key) THEN key[n] ELSE 0]

(* The handle that new_change takes when it is given none.                 *)
NoInstance == [n \in 1 .. HandleSize |-> 0]

\* Mutant of InstanceOf: a long key is cut to the handle.
InstanceOfCut(key) == IF Len(key) = 0 THEN NoInstance ELSE Padded(key)

(* The instance handle of a key: all of them are bytes, and nothing tells  *)
(* a digest or the handle of no key from that of a short key.              *)
InstanceOf(key) ==
  IF Len(key) = 0 THEN NoInstance
  ELSE IF Len(key) > HandleSize THEN MD5[key]
  ELSE Padded(key)

NoSend == [step |-> "idle", key |-> << >>, data |-> << >>, dataAt |-> Nil,
           keyAt |-> Nil, instance |-> NoInstance, reused |-> FALSE]

(* The buffers that the send of thread s still has to read.                *)
Unread(s) ==
  (IF snd[s].step \in {"key", "count", "handle", "add"} THEN {snd[s].dataAt}
                                                        ELSE {})
    \cup (IF snd[s].step \in {"count", "handle"} THEN {snd[s].keyAt} ELSE {})

FirstBytes(a, n) == [m \in 1 .. n |-> memory[a][m]]

(* Send s goes on as "now" says, after buffer a was allocated for the      *)
(* given bytes.  Whoever still has to read a is noted.                     *)
Allocate(s, now, a, bytes) ==
  /\ owner[a] = Nil
  /\ memory' = [memory EXCEPT ![a] = [n \in 1 .. BufferSize |->
                  IF n <= Len(bytes) THEN bytes[n] ELSE memory[a][n]]]
  /\ snd' = [r \in Senders |->
               [(IF r = s THEN now ELSE snd[r])
                  EXCEPT !.reused = snd[r].reused \/ a \in Unread(r)]]

Init ==
  /\ memory = [a \in Addresses |-> [n \in 1 .. BufferSize |-> 0]]
  /\ owner = [a \in Addresses |-> Nil]
  /\ snd = [s \in Senders |-> NoSend]
  /\ sent = 0
  /\ samples = {}
-----------------------------------------------------------------------------
(* send(topic:ddsData:) in Swift.  The arguments are evaluated in order:   *)
(* address and length of the data, address and length of the key.          *)

Encode(s, key, data, a) ==
  /\ snd[s].step = "idle" /\ sent < MaxSends
  /\ Allocate(s, [NoSend EXCEPT !.step = "key", !.key = key, !.data = data,
                                !.dataAt = a], a, data)
  /\ owner' = [owner EXCEPT ![a] = s]
  /\ sent' = sent + 1
  /\ UNCHANGED samples

\* Mutant of TakeKey: the address of the key is not passed on.
TakeKeyNot(s, a) ==
  /\ snd[s].step = "key"
  /\ Allocate(s, [snd[s] EXCEPT !.step = "count"], a, snd[s].key)
  /\ owner' = [owner EXCEPT ![a] = s]
  /\ UNCHANGED <<sent, samples>>

TakeKey(s, a) ==
  /\ snd[s].step = "key"
  /\ Allocate(s, [snd[s] EXCEPT !.step = "count", !.keyAt = a], a, snd[s].key)
  /\ owner' = [owner EXCEPT ![a] = s]
  /\ UNCHANGED <<sent, samples>>

(* ddsData.key.count: the key is made once more, and let go.               *)
CountKey(s, a) ==
  /\ snd[s].step = "count"
  /\ Allocate(s, [snd[s] EXCEPT !.step = "handle"], a, snd[s].key)
  /\ UNCHANGED <<owner, sent, samples>>

(* No use of data or of the key follows that Swift knows of: it may free   *)
(* their buffers as soon as the address is taken.                          *)
FreeEarly(s, a) ==
  /\ snd[s].step # "idle" /\ owner[a] = s
  /\ owner' = [owner EXCEPT ![a] = Nil]
  /\ UNCHANGED <<memory, snd, sent, samples>>
-----------------------------------------------------------------------------
(* BridgedParticipant::send                                                *)

Return(s) ==
  /\ snd' = [snd EXCEPT ![s] = NoSend]
  /\ owner' = [a \in Addresses |-> IF owner[a] = s THEN Nil ELSE owner[a]]

(* No writer of the topic, or no match: nothing is read.                   *)
Refuse(s) ==
  /\ snd[s].step = "handle"
  /\ Return(s)
  /\ UNCHANGED <<memory, sent, samples>>

MakeHandle(s) ==
  /\ snd[s].step = "handle"
  /\ snd' = [snd EXCEPT ![s].step = "add", ![s].instance =
               InstanceOf(FirstBytes(snd[s].keyAt, Len(snd[s].key)))]
  /\ UNCHANGED <<memory, owner, sent, samples>>

Sample(s) ==
  [key |-> snd[s].key, data |-> snd[s].data,
   instance |-> snd[s].instance,
   payload |-> FirstBytes(snd[s].dataAt, Len(snd[s].data)),
   reused |-> snd[s].reused]

\* Mutant of AddChange: as many bytes of the data are copied as the key has.
AddChangeKeyLength(s) ==
  /\ snd[s].step = "add"
  /\ samples' = samples \cup
       {[Sample(s) EXCEPT !.payload = FirstBytes(snd[s].dataAt, Len(snd[s].key))]}
  /\ Return(s)
  /\ UNCHANGED <<memory, sent>>

(* The data are copied behind the header, and the change is added.         *)
AddChange(s) ==
  /\ snd[s].step = "add"
  /\ samples' = samples \cup {Sample(s)}
  /\ Return(s)
  /\ UNCHANGED <<memory, sent>>
-----------------------------------------------------------------------------
Next == \E s \in Senders :
  \/ \E a \in Addresses :
       \/ \E key \in Keys, data \in Payloads : Encode(s, key, data, a)
       \/ TakeKey(s, a) \/ CountKey(s, a) \/ FreeEarly(s, a)
  \/ Refuse(s) \/ MakeHandle(s) \/ AddChange(s)

Spec == Init /\ [][Next]_vars
-----------------------------------------------------------------------------
Sends == [step : {"idle", "key", "count", "handle", "add"},
          key : Keys \cup {<< >>}, data : Payloads \cup {<< >>},
          dataAt : Addresses \cup {Nil}, keyAt : Addresses \cup {Nil},
          instance : Handles,
          reused : BOOLEAN]

TypeOK ==
  /\ memory \in [Addresses -> [1 .. BufferSize -> Bytes]]
  /\ owner \in [Addresses -> Senders \cup {Nil}]
  /\ snd \in [Senders -> Sends]
  /\ \A s \in Senders : Unread(s) \subseteq Addresses
  /\ sent \in Nat

(* "Send keyed data change for topic" (FastRTPSSwift.swift:306): a sample  *)
(* carries the data it was given, under the instance of its key.           *)
SentAsGiven ==
  \A m \in samples : m.payload = m.data /\ m.instance = InstanceOf(m.key)

(* A sample goes wrong only if one of its buffers was freed by Swift and   *)
(* allocated again, by another send or by this one, before it was read.    *)
WrongOnlyIfReused ==
  \A m \in samples :
    m.payload # m.data \/ m.instance # InstanceOf(m.key) => m.reused

(* A key that is another one with zeros behind it.                         *)
ZeroExtends(long, short) ==
  /\ Len(short) <= Len(long)
  /\ \A n \in 1 .. Len(long) :
       long[n] = IF n <= Len(short) THEN short[n] ELSE 0

(* A long key whose digest is the handle of another key.                   *)
Collides(long, key) ==
  /\ Len(long) > HandleSize /\ long # key
  /\ MD5[long] = IF Len(key) > HandleSize THEN MD5[key] ELSE Padded(key)

(* Which samples are told apart: those of equal keys never, those of       *)
(* different keys always, but for short keys that differ only by zeros at  *)
(* the end, no key being one of them, and for digests that collide, with   *)
(* one another or with a short key.                                        *)
InstancesTold ==
  \A m1, m2 \in {m \in samples : ~m.reused} :
    m1.instance = m2.instance <=>
      \/ m1.key = m2.key
      \/ /\ Len(m1.key) <= HandleSize /\ Len(m2.key) <= HandleSize
         /\ ZeroExtends(m1.key, m2.key) \/ ZeroExtends(m2.key, m1.key)
      \/ Collides(m1.key, m2.key) \/ Collides(m2.key, m1.key)

=============================================================================
