--------------------------- MODULE KeyedSendProofs ---------------------------
(***************************************************************************)
(* The keyed send, for any threads, heap, keys and data: what a sample     *)
(* carries unless a buffer was reused under it, and which keys share an    *)
(* instance.  The inductive invariant says what an address still vouches   *)
(* for: the bytes that were put there, until somebody else allocates it.   *)
(***************************************************************************)
EXTENDS KeyedSend, TLAPS

USE KeyedAssumption

(* A buffer starts with the given bytes.                                   *)
StartsWith(buffer, str) == \A n \in 1 .. Len(str) : buffer[n] = str[n]

Holds(s) ==
  ~snd[s].reused =>
    /\ snd[s].step \in {"key", "count", "handle", "add"} =>
         StartsWith(memory[snd[s].dataAt], snd[s].data)
    /\ snd[s].step \in {"count", "handle"} =>
         StartsWith(memory[snd[s].keyAt], snd[s].key)
    /\ snd[s].step = "add" => snd[s].instance = InstanceOf(snd[s].key)

KInv == /\ TypeOK
        /\ \A s \in Senders : Holds(s)
        /\ \A m \in samples : m.key \in Seq(Bytes)
        /\ WrongOnlyIfReused
-----------------------------------------------------------------------------
(* Two keys have one handle exactly if they are equal, or short and one is *)
(* the other with zeros behind, or if a digest collides.                   *)
SameHandle(k1, k2) ==
  \/ k1 = k2
  \/ /\ Len(k1) <= HandleSize /\ Len(k2) <= HandleSize
     /\ ZeroExtends(k1, k2) \/ ZeroExtends(k2, k1)
  \/ Collides(k1, k2) \/ Collides(k2, k1)

(* Padding takes two short keys to one handle if only zeros tell them      *)
(* apart.                                                                  *)
LEMMA PaddedShort ==
  ASSUME NEW k1 \in Seq(Bytes), NEW k2 \in Seq(Bytes),
         Len(k1) <= HandleSize, Len(k2) <= HandleSize, Len(k2) <= Len(k1)
  PROVE  Padded(k1) = Padded(k2) <=> ZeroExtends(k1, k2)
<1>1. Padded(k1) = Padded(k2) <=>
        \A n \in 1 .. HandleSize : Padded(k1)[n] = Padded(k2)[n]
  BY DEF Padded
<1>2. ASSUME ZeroExtends(k1, k2), NEW n \in 1 .. HandleSize
      PROVE  Padded(k1)[n] = Padded(k2)[n]
  <2>1. CASE n <= Len(k1)
    BY <1>2, <2>1 DEF Padded, ZeroExtends
  <2>2. CASE ~(n <= Len(k1))
    BY <2>2 DEF Padded
  <2> QED
    BY <2>1, <2>2
<1>3. ASSUME \A n \in 1 .. HandleSize : Padded(k1)[n] = Padded(k2)[n],
             NEW n \in 1 .. Len(k1)
      PROVE  k1[n] = IF n <= Len(k2) THEN k2[n] ELSE 0
  <2>1. n \in 1 .. HandleSize
    OBVIOUS
  <2> QED
    BY <1>3, <2>1 DEF Padded
<1> QED
  BY <1>1, <1>2, <1>3 DEF ZeroExtends

(* No key is like a short one: both make a handle of zeros at the end.     *)
LEMMA HandleOf ==
  ASSUME NEW key \in Seq(Bytes)
  PROVE  InstanceOf(key) = IF Len(key) > HandleSize THEN MD5[key] ELSE Padded(key)
<1>1. CASE Len(key) = 0
  <2>1. Padded(key) = NoInstance
    BY <1>1 DEF Padded, NoInstance
  <2> QED
    BY <1>1, <2>1 DEF InstanceOf
<1>2. CASE Len(key) # 0
  BY <1>2 DEF InstanceOf
<1> QED
  BY <1>1, <1>2

(* send tells two samples apart by key, but for short keys that differ by  *)
(* zeros at the end, no key among them, and for digests that collide       *)
(* (BridgedParticipant.cpp:349-366).                                       *)
THEOREM HandlesOfKeys ==
  ASSUME NEW k1 \in Seq(Bytes), NEW k2 \in Seq(Bytes)
  PROVE  InstanceOf(k1) = InstanceOf(k2) <=> SameHandle(k1, k2)
<1> DEFINE h(k) == IF Len(k) > HandleSize THEN MD5[k] ELSE Padded(k)
<1>1. InstanceOf(k1) = h(k1) /\ InstanceOf(k2) = h(k2)
  BY HandleOf
<1>2. Len(k1) \in Nat /\ Len(k2) \in Nat /\ HandleSize \in Nat
  OBVIOUS
<1>3. CASE Len(k1) > HandleSize \/ Len(k2) > HandleSize
  <2>1. ~(Len(k1) <= HandleSize /\ Len(k2) <= HandleSize)
    BY <1>2, <1>3
  <2>2. CASE k1 = k2
    BY <1>1, <2>2 DEF SameHandle
  <2>3. CASE k1 # k2
    <3>1. h(k1) = h(k2) <=> Collides(k1, k2) \/ Collides(k2, k1)
      BY <1>3, <2>3 DEF Collides
    <3> QED
      BY <1>1, <2>1, <2>3, <3>1 DEF SameHandle
  <2> QED
    BY <2>2, <2>3
<1>4. CASE Len(k1) <= HandleSize /\ Len(k2) <= HandleSize
  <2>1. h(k1) = Padded(k1) /\ h(k2) = Padded(k2)
    BY <1>2, <1>4
  <2>2. ~Collides(k1, k2) /\ ~Collides(k2, k1)
    BY <1>2, <1>4 DEF Collides
  <2>3. ZeroExtends(k1, k2) => Len(k2) <= Len(k1)
    BY DEF ZeroExtends
  <2>4. ZeroExtends(k2, k1) => Len(k1) <= Len(k2)
    BY DEF ZeroExtends
  <2>5. CASE Len(k2) <= Len(k1)
    <3>1. ZeroExtends(k2, k1) => Padded(k2) = Padded(k1)
      BY <1>2, <1>4, <2>4, PaddedShort
    <3>2. Padded(k1) = Padded(k2) <=> ZeroExtends(k1, k2)
      BY <1>4, <2>5, PaddedShort
    <3> QED
      BY <1>1, <1>4, <2>1, <2>2, <3>1, <3>2 DEF SameHandle
  <2>6. CASE Len(k1) <= Len(k2)
    <3>1. ZeroExtends(k1, k2) => Padded(k1) = Padded(k2)
      BY <1>2, <1>4, <2>3, PaddedShort
    <3>2. Padded(k2) = Padded(k1) <=> ZeroExtends(k2, k1)
      BY <1>4, <2>6, PaddedShort
    <3> QED
      BY <1>1, <1>4, <2>1, <2>2, <3>1, <3>2 DEF SameHandle
  <2> QED
    BY <1>2, <2>5, <2>6
<1> QED
  BY <1>2, <1>3, <1>4
-----------------------------------------------------------------------------
(* What the first bytes of a buffer are.                                   *)
LEMMA FirstBytesRight ==
  ASSUME NEW a, NEW str \in Seq(Bytes), StartsWith(memory[a], str)
  PROVE  FirstBytes(a, Len(str)) = str
BY DEF FirstBytes, StartsWith

(* A send that is not there is well typed.                                 *)
LEMMA NoSendTyped == NoSend \in Sends
<1>1. NoInstance \in Handles
  BY DEF NoInstance, Handles
<1> QED
  BY <1>1 DEF NoSend, Sends

(* So is the instance of a key.                                            *)
LEMMA InstanceTyped ==
  ASSUME NEW key \in Seq(Bytes), Len(key) <= BufferSize
  PROVE  InstanceOf(key) \in Handles
<1>1. CASE Len(key) > HandleSize
  <2>1. key \in [1 .. Len(key) -> Bytes] /\ Len(key) \in HandleSize + 1 .. BufferSize
    BY <1>1
  <2>2. key \in LongKeys
    BY <2>1 DEF LongKeys
  <2> QED
    BY <1>1, <2>2, HandleOf
<1>2. CASE ~(Len(key) > HandleSize)
  <2>1. \A n \in 1 .. HandleSize : (IF n <= Len(key) THEN key[n] ELSE 0) \in Bytes
    OBVIOUS
  <2>2. Padded(key) \in Handles
    BY <2>1 DEF Padded, Handles
  <2> QED
    BY <1>2, <2>2, HandleOf
<1> QED
  BY <1>1, <1>2

(* A heap and a send that hold nothing.                                    *)
LEMMA InitKInv == Init => KInv
<1> SUFFICES ASSUME Init PROVE KInv
  OBVIOUS
<1>1. /\ NoSend.step = "idle" /\ NoSend.reused = FALSE
  BY DEF NoSend
<1>2. TypeOK
  <2>1. memory \in [Addresses -> [1 .. BufferSize -> Bytes]]
    BY DEF Init
  <2>2. snd \in [Senders -> Sends] /\ \A s \in Senders : Unread(s) = {}
    BY <1>1, NoSendTyped DEF Init, Unread
  <2> QED
    BY <2>1, <2>2 DEF Init, TypeOK
<1> QED
  BY <1>1, <1>2 DEF Init, KInv, Holds, WrongOnlyIfReused

(* Strings of the program are strings of bytes that fit a buffer.          *)
LEMMA Given ==
  \A str \in Keys \cup Payloads \cup {<< >>} :
    str \in Seq(Bytes) /\ Len(str) <= BufferSize
<1>1. << >> \in Seq(Bytes) /\ Len(<< >>) = 0
  OBVIOUS
<1>2. \A str \in Keys \cup Payloads : str \in Seq(Bytes) /\ Len(str) <= BufferSize
  BY KeyedAssumption
<1>3. 0 <= BufferSize
  BY KeyedAssumption
<1>4. ASSUME NEW str \in Keys \cup Payloads \cup {<< >>}
      PROVE  str \in Seq(Bytes) /\ Len(str) <= BufferSize
  <2>1. CASE str \in Keys \cup Payloads
    BY <1>2, <2>1
  <2>2. CASE str = << >>
    BY <1>1, <1>3, <2>2
  <2> QED
    BY <1>4, <2>1, <2>2
<1> QED
  BY <1>4

(* An allocation: the buffer starts with the new bytes, the other buffers  *)
(* stay, and what anybody still reads there is noted.                      *)
LEMMA Allocated ==
  ASSUME TypeOK, NEW s \in Senders, NEW a \in Addresses, NEW str \in Seq(Bytes),
         Len(str) <= BufferSize, NEW now \in Sends, Allocate(s, now, a, str)
  PROVE  /\ memory' \in [Addresses -> [1 .. BufferSize -> Bytes]]
         /\ StartsWith(memory'[a], str)
         /\ \A b \in Addresses \ {a} : memory'[b] = memory[b]
         /\ snd' \in [Senders -> Sends]
         /\ snd'[s] = [now EXCEPT !.reused = snd[s].reused \/ a \in Unread(s)]
         /\ \A r \in Senders \ {s} :
              snd'[r] = [snd[r] EXCEPT !.reused = snd[r].reused \/ a \in Unread(r)]
<1>1. memory' = [memory EXCEPT ![a] = [n \in 1 .. BufferSize |->
                   IF n <= Len(str) THEN str[n] ELSE memory[a][n]]]
  BY DEF Allocate
<1>2. \A n \in 1 .. Len(str) : n \in 1 .. BufferSize /\ str[n] \in Bytes
  OBVIOUS
<1>3. memory' \in [Addresses -> [1 .. BufferSize -> Bytes]]
  BY <1>1, <1>2 DEF TypeOK
<1>4. StartsWith(memory'[a], str)
  BY <1>1, <1>2 DEF TypeOK, StartsWith
<1>5. \A b \in Addresses \ {a} : memory'[b] = memory[b]
  BY <1>1 DEF TypeOK
<1>6. snd' = [r \in Senders |->
               [(IF r = s THEN now ELSE snd[r])
                  EXCEPT !.reused = snd[r].reused \/ a \in Unread(r)]]
  BY DEF Allocate
<1>7. ASSUME NEW r \in Senders, NEW rec \in Sends
      PROVE  [rec EXCEPT !.reused = snd[r].reused \/ a \in Unread(r)] \in Sends
  <2>1. ASSUME NEW b \in BOOLEAN PROVE [rec EXCEPT !.reused = b] \in Sends
    BY DEF Sends
  <2>2. (snd[r].reused \/ a \in Unread(r)) \in BOOLEAN
    OBVIOUS
  <2> QED
    BY <2>1, <2>2
<1> QED
  BY <1>1, <1>3, <1>4, <1>5, <1>6, <1>7 DEF TypeOK

(* What a send of another thread is about to read stays, or is noted.      *)
LEMMA OthersHold ==
  ASSUME KInv, NEW s \in Senders, NEW a \in Addresses, NEW r \in Senders \ {s},
         \A b \in Addresses \ {a} : memory'[b] = memory[b],
         snd'[r] = [snd[r] EXCEPT !.reused = snd[r].reused \/ a \in Unread(r)]
  PROVE  Holds(r)' /\ Unread(r)' = Unread(r)
<1>1. snd[r] \in Sends /\ Unread(r) \subseteq Addresses /\ Holds(r)
  BY DEF KInv, TypeOK
<1>2. /\ snd'[r].step = snd[r].step /\ snd'[r].key = snd[r].key
      /\ snd'[r].data = snd[r].data /\ snd'[r].dataAt = snd[r].dataAt
      /\ snd'[r].keyAt = snd[r].keyAt /\ snd'[r].instance = snd[r].instance
      /\ ~snd'[r].reused => ~snd[r].reused /\ a \notin Unread(r)
  BY <1>1 DEF Sends
<1>3. Unread(r)' = Unread(r)
  BY <1>2 DEF Unread
<1>4. ASSUME a \notin Unread(r)
      PROVE  /\ snd[r].step \in {"key", "count", "handle", "add"} =>
                  memory'[snd[r].dataAt] = memory[snd[r].dataAt]
             /\ snd[r].step \in {"count", "handle"} =>
                  memory'[snd[r].keyAt] = memory[snd[r].keyAt]
  BY <1>1, <1>4 DEF Unread
<1> QED
  BY <1>1, <1>2, <1>3, <1>4 DEF Holds

(* A new buffer for the data: whoever still had to read it is noted.       *)
LEMMA EncodeKeeps ==
  ASSUME KInv, NEW s \in Senders, NEW a \in Addresses, NEW key \in Keys,
         NEW data \in Payloads, Encode(s, key, data, a)
  PROVE  KInv'
<1> DEFINE now == [NoSend EXCEPT !.step = "key", !.key = key, !.data = data,
                                 !.dataAt = a]
<1>1. now \in Sends /\ Allocate(s, now, a, data)
  BY NoSendTyped DEF Sends, Encode
<1>2. snd[s].step = "idle" /\ Unread(s) = {}
  BY DEF Encode, Unread
<1>3. /\ now.step = "key" /\ now.data = data /\ now.dataAt = a
  BY DEF NoSend
<1> HIDE DEF now
<1>4. /\ memory' \in [Addresses -> [1 .. BufferSize -> Bytes]]
      /\ StartsWith(memory'[a], data)
      /\ \A b \in Addresses \ {a} : memory'[b] = memory[b]
      /\ snd' \in [Senders -> Sends]
      /\ snd'[s] = [now EXCEPT !.reused = snd[s].reused \/ a \in Unread(s)]
      /\ \A r \in Senders \ {s} :
           snd'[r] = [snd[r] EXCEPT !.reused = snd[r].reused \/ a \in Unread(r)]
  BY <1>1, Given, Allocated DEF KInv
<1>5. snd'[s].step = "key" /\ snd'[s].data = data /\ snd'[s].dataAt = a
  BY <1>1, <1>3, <1>4 DEF Sends
<1>6. Holds(s)' /\ Unread(s)' = {a}
  BY <1>4, <1>5 DEF Holds, Unread
<1>7. \A r \in Senders \ {s} : Holds(r)' /\ Unread(r)' = Unread(r)
  BY <1>4, OthersHold
<1>8. TypeOK'
  <2>1. \A r \in Senders : Unread(r)' \subseteq Addresses
    BY <1>6, <1>7 DEF KInv, TypeOK
  <2>2. owner' \in [Addresses -> Senders \cup {Nil}] /\ sent' \in Nat
    BY DEF Encode, KInv, TypeOK
  <2> QED
    BY <1>4, <2>1, <2>2 DEF TypeOK
<1> QED
  BY <1>6, <1>7, <1>8 DEF Encode, KInv, WrongOnlyIfReused

(* A buffer for the key.                                                   *)
LEMMA TakeKeyKeeps ==
  ASSUME KInv, NEW s \in Senders, NEW a \in Addresses, TakeKey(s, a)
  PROVE  KInv'
<1> DEFINE now == [snd[s] EXCEPT !.step = "count", !.keyAt = a]
<1>0. /\ snd[s] \in Sends /\ snd[s].key \in Keys \cup {<< >>}
      /\ snd[s].step = "key" /\ Holds(s) /\ Unread(s) \subseteq Addresses
  BY DEF TakeKey, KInv, TypeOK, Sends
<1>1. now \in Sends /\ Allocate(s, now, a, snd[s].key)
  BY <1>0 DEF Sends, TakeKey
<1>2. /\ now.step = "count" /\ now.key = snd[s].key /\ now.data = snd[s].data
      /\ now.dataAt = snd[s].dataAt /\ now.keyAt = a
  BY <1>0 DEF Sends
<1> HIDE DEF now
<1>3. /\ memory' \in [Addresses -> [1 .. BufferSize -> Bytes]]
      /\ StartsWith(memory'[a], snd[s].key)
      /\ \A b \in Addresses \ {a} : memory'[b] = memory[b]
      /\ snd' \in [Senders -> Sends]
      /\ snd'[s] = [now EXCEPT !.reused = snd[s].reused \/ a \in Unread(s)]
      /\ \A r \in Senders \ {s} :
           snd'[r] = [snd[r] EXCEPT !.reused = snd[r].reused \/ a \in Unread(r)]
  BY <1>0, <1>1, Given, Allocated DEF KInv
<1>4. /\ snd'[s].step = "count" /\ snd'[s].key = snd[s].key
      /\ snd'[s].data = snd[s].data /\ snd'[s].dataAt = snd[s].dataAt
      /\ snd'[s].keyAt = a
      /\ ~snd'[s].reused => ~snd[s].reused /\ a \notin Unread(s)
  BY <1>1, <1>2, <1>3 DEF Sends
<1>5. Holds(s)' /\ Unread(s)' \subseteq Addresses
  <2>1. Unread(s)' = {snd[s].dataAt, a}
    BY <1>4 DEF Unread
  <2>2. snd[s].dataAt \in Unread(s)
    BY <1>0 DEF Unread
  <2> QED
    BY <1>0, <1>3, <1>4, <2>1, <2>2 DEF Holds
<1>6. \A r \in Senders \ {s} : Holds(r)' /\ Unread(r)' = Unread(r)
  BY <1>3, OthersHold
<1>7. TypeOK'
  <2>1. \A r \in Senders : Unread(r)' \subseteq Addresses
    BY <1>5, <1>6 DEF KInv, TypeOK
  <2>2. owner' \in [Addresses -> Senders \cup {Nil}] /\ sent' \in Nat
    BY DEF TakeKey, KInv, TypeOK
  <2> QED
    BY <1>3, <2>1, <2>2 DEF TypeOK
<1> QED
  BY <1>5, <1>6, <1>7 DEF TakeKey, KInv, WrongOnlyIfReused

(* A buffer for the second access to the key.                              *)
LEMMA CountKeyKeeps ==
  ASSUME KInv, NEW s \in Senders, NEW a \in Addresses, CountKey(s, a)
  PROVE  KInv'
<1> DEFINE now == [snd[s] EXCEPT !.step = "handle"]
<1>0. /\ snd[s] \in Sends /\ snd[s].key \in Keys \cup {<< >>}
      /\ snd[s].step = "count" /\ Holds(s) /\ Unread(s) \subseteq Addresses
  BY DEF CountKey, KInv, TypeOK, Sends
<1>1. now \in Sends /\ Allocate(s, now, a, snd[s].key)
  BY <1>0 DEF Sends, CountKey
<1>2. /\ now.step = "handle" /\ now.key = snd[s].key /\ now.data = snd[s].data
      /\ now.dataAt = snd[s].dataAt /\ now.keyAt = snd[s].keyAt
  BY <1>0 DEF Sends
<1> HIDE DEF now
<1>3. /\ memory' \in [Addresses -> [1 .. BufferSize -> Bytes]]
      /\ StartsWith(memory'[a], snd[s].key)
      /\ \A b \in Addresses \ {a} : memory'[b] = memory[b]
      /\ snd' \in [Senders -> Sends]
      /\ snd'[s] = [now EXCEPT !.reused = snd[s].reused \/ a \in Unread(s)]
      /\ \A r \in Senders \ {s} :
           snd'[r] = [snd[r] EXCEPT !.reused = snd[r].reused \/ a \in Unread(r)]
  BY <1>0, <1>1, Given, Allocated DEF KInv
<1>4. /\ snd'[s].step = "handle" /\ snd'[s].key = snd[s].key
      /\ snd'[s].data = snd[s].data /\ snd'[s].dataAt = snd[s].dataAt
      /\ snd'[s].keyAt = snd[s].keyAt
      /\ ~snd'[s].reused => ~snd[s].reused /\ a \notin Unread(s)
  BY <1>1, <1>2, <1>3 DEF Sends
<1>5. Holds(s)' /\ Unread(s)' \subseteq Addresses
  <2>1. Unread(s)' = {snd[s].dataAt, snd[s].keyAt}
    BY <1>4 DEF Unread
  <2>2. snd[s].dataAt \in Unread(s) /\ snd[s].keyAt \in Unread(s)
    BY <1>0 DEF Unread
  <2>3. ~snd'[s].reused =>
          /\ memory'[snd[s].dataAt] = memory[snd[s].dataAt]
          /\ memory'[snd[s].keyAt] = memory[snd[s].keyAt]
    BY <1>0, <1>3, <1>4, <2>2
  <2> QED
    BY <1>0, <1>4, <2>1, <2>2, <2>3 DEF Holds
<1>6. \A r \in Senders \ {s} : Holds(r)' /\ Unread(r)' = Unread(r)
  BY <1>3, OthersHold
<1>7. TypeOK'
  <2>1. \A r \in Senders : Unread(r)' \subseteq Addresses
    BY <1>5, <1>6 DEF KInv, TypeOK
  <2>2. owner' \in [Addresses -> Senders \cup {Nil}] /\ sent' \in Nat
    BY DEF CountKey, KInv, TypeOK
  <2> QED
    BY <1>3, <2>1, <2>2 DEF TypeOK
<1> QED
  BY <1>5, <1>6, <1>7 DEF CountKey, KInv, WrongOnlyIfReused

(* The steps of the C++ side only read the heap.                           *)
LEMMA MakeHandleKeeps ==
  ASSUME KInv, NEW s \in Senders, MakeHandle(s)
  PROVE  KInv'
<1> DEFINE read == FirstBytes(snd[s].keyAt, Len(snd[s].key))
<1>0. /\ snd[s] \in Sends /\ snd[s].step = "handle" /\ Holds(s)
      /\ snd[s].key \in Seq(Bytes) /\ Len(snd[s].key) <= BufferSize
      /\ snd[s].keyAt \in Addresses /\ snd[s].dataAt \in Addresses
  BY Given DEF MakeHandle, KInv, TypeOK, Sends, Unread
<1>1. read \in Seq(Bytes) /\ Len(read) <= BufferSize
  <2>1. \A m \in 1 .. Len(snd[s].key) : memory[snd[s].keyAt][m] \in Bytes
    BY <1>0 DEF KInv, TypeOK
  <2> QED
    BY <1>0, <2>1 DEF FirstBytes
<1>2. ~snd[s].reused => read = snd[s].key
  BY <1>0, FirstBytesRight DEF Holds
<1>3. /\ snd' = [snd EXCEPT ![s] = [snd[s] EXCEPT !.step = "add",
                                                  !.instance = InstanceOf(read)]]
      /\ UNCHANGED <<memory, owner, sent, samples>>
  BY <1>0 DEF MakeHandle, KInv, TypeOK, Sends
<1> HIDE DEF read
<1>4. InstanceOf(read) \in Handles
  BY <1>1, InstanceTyped
<1>5. /\ snd' \in [Senders -> Sends]
      /\ \A r \in Senders \ {s} : snd'[r] = snd[r]
      /\ snd'[s].step = "add" /\ snd'[s].instance = InstanceOf(read)
      /\ snd'[s].key = snd[s].key /\ snd'[s].data = snd[s].data
      /\ snd'[s].dataAt = snd[s].dataAt /\ snd'[s].reused = snd[s].reused
  BY <1>0, <1>3, <1>4 DEF KInv, TypeOK, Sends
<1>6. Holds(s)' /\ Unread(s)' \subseteq Addresses
  BY <1>0, <1>2, <1>3, <1>5 DEF Holds, Unread
<1>7. \A r \in Senders \ {s} : Holds(r)' /\ Unread(r)' = Unread(r)
  BY <1>3, <1>5 DEF KInv, Holds, Unread
<1>8. TypeOK'
  <2>1. \A r \in Senders : Unread(r)' \subseteq Addresses
    BY <1>6, <1>7 DEF KInv, TypeOK
  <2> QED
    BY <1>3, <1>5, <2>1 DEF KInv, TypeOK
<1> QED
  BY <1>3, <1>6, <1>7, <1>8 DEF KInv, WrongOnlyIfReused

(* The send returns: the thread holds nothing, the others what they held.  *)
LEMMA ReturnKeeps ==
  ASSUME KInv, NEW s \in Senders, Return(s), UNCHANGED <<memory, sent>>
  PROVE  TypeOK' /\ \A r \in Senders : Holds(r)'
<1>1. /\ snd' \in [Senders -> Sends]
      /\ snd'[s].step = "idle"
      /\ \A r \in Senders \ {s} : snd'[r] = snd[r]
  <2>1. snd' = [snd EXCEPT ![s] = NoSend] /\ NoSend.step = "idle"
    BY DEF Return, NoSend
  <2> QED
    BY <2>1, NoSendTyped DEF KInv, TypeOK
<1>2. Holds(s)' /\ Unread(s)' = {}
  BY <1>1 DEF Holds, Unread
<1>3. \A r \in Senders \ {s} : Holds(r)' /\ Unread(r)' = Unread(r)
  BY <1>1 DEF KInv, Holds, Unread
<1>4. TypeOK'
  <2>1. \A r \in Senders : Unread(r)' \subseteq Addresses
    BY <1>2, <1>3 DEF KInv, TypeOK
  <2>2. owner' \in [Addresses -> Senders \cup {Nil}]
    BY DEF Return, KInv, TypeOK
  <2> QED
    BY <1>1, <2>1, <2>2 DEF KInv, TypeOK
<1> QED
  BY <1>2, <1>3, <1>4

(* The sample carries what its buffer holds.                               *)
LEMMA AddChangeKeeps ==
  ASSUME KInv, NEW s \in Senders, AddChange(s)
  PROVE  KInv'
<1>0. /\ snd[s] \in Sends /\ snd[s].step = "add" /\ Holds(s)
      /\ snd[s].key \in Seq(Bytes) /\ snd[s].data \in Seq(Bytes)
  BY Given DEF AddChange, KInv, TypeOK, Sends
<1>1. ~snd[s].reused => /\ FirstBytes(snd[s].dataAt, Len(snd[s].data)) = snd[s].data
                        /\ snd[s].instance = InstanceOf(snd[s].key)
  BY <1>0, FirstBytesRight DEF Holds
<1>2. /\ Sample(s).key = snd[s].key /\ Sample(s).data = snd[s].data
      /\ Sample(s).instance = snd[s].instance
      /\ Sample(s).payload = FirstBytes(snd[s].dataAt, Len(snd[s].data))
      /\ Sample(s).reused = snd[s].reused
  BY DEF Sample
<1>3. samples' = samples \cup {Sample(s)}
  BY DEF AddChange
<1>4. (\A m \in samples : m.key \in Seq(Bytes))' /\ WrongOnlyIfReused'
  BY <1>0, <1>1, <1>2, <1>3 DEF KInv, WrongOnlyIfReused
<1> QED
  BY <1>4, ReturnKeeps DEF AddChange, KInv

(* The invariant of the keyed send.                                        *)
LEMMA KInvariance == Spec => []KInv
<1>1. ASSUME KInv, UNCHANGED vars PROVE KInv'
  BY <1>1 DEF KInv, TypeOK, Holds, Unread, WrongOnlyIfReused, vars
<1>2. ASSUME KInv, NEW s \in Senders, NEW a \in Addresses, FreeEarly(s, a)
      PROVE  KInv'
  BY <1>2 DEF FreeEarly, KInv, TypeOK, Holds, Unread, WrongOnlyIfReused
<1>3. ASSUME KInv, NEW s \in Senders, Refuse(s) PROVE KInv'
  BY <1>3, ReturnKeeps DEF Refuse, KInv, WrongOnlyIfReused
<1>4. KInv /\ [Next]_vars => KInv'
  BY <1>1, <1>2, <1>3, EncodeKeeps, TakeKeyKeeps, CountKeyKeeps,
     MakeHandleKeeps, AddChangeKeeps DEF Next
<1> QED
  BY <1>4, InitKInv, PTL DEF Spec
-----------------------------------------------------------------------------
(* Type correctness of the keyed send: whatever is still to be read has an *)
(* address.                                                                *)
THEOREM KeyedTyped == Spec => []TypeOK
<1>1. KInv => TypeOK
  BY DEF KInv
<1> QED
  BY <1>1, KInvariance, PTL

(* Only the reuse of a buffer that Swift freed early makes a sample wrong. *)
THEOREM ReuseOnly == Spec => []WrongOnlyIfReused
<1>1. KInv => WrongOnlyIfReused
  BY DEF KInv
<1> QED
  BY <1>1, KInvariance, PTL

(* Readers tell the instances of two keys apart but where the padding of   *)
(* short keys (BridgedParticipant.cpp:357) makes them the same.            *)
THEOREM InstancesKeptApart == Spec => []InstancesTold
<1>1. KInv => InstancesTold
  <2> SUFFICES ASSUME KInv, NEW m1 \in samples, NEW m2 \in samples,
                      ~m1.reused, ~m2.reused
               PROVE  m1.instance = m2.instance <=> SameHandle(m1.key, m2.key)
    BY DEF InstancesTold, SameHandle
  <2>1. /\ m1.key \in Seq(Bytes) /\ m2.key \in Seq(Bytes)
        /\ m1.instance = InstanceOf(m1.key) /\ m2.instance = InstanceOf(m2.key)
    BY DEF KInv, WrongOnlyIfReused
  <2> QED
    BY <2>1, HandlesOfKeys
<1> QED
  BY <1>1, KInvariance, PTL

=============================================================================
