--------------------- MODULE ParticipantDiscoveryProofs ---------------------
(***************************************************************************)
(* One notification of a participant, for any list of properties over any  *)
(* strings: an invariant for each of the three loops, over the part of the *)
(* array that is written, read and freed so far.                           *)
(***************************************************************************)
EXTENDS ParticipantDiscovery, TLAPS

USE DiscoveryAssumption

(* The first n properties are in the array, in their cells.                *)
Copied(n) ==
  \A m \in 0 .. n - 1 : /\ propDict[2 * m] = properties[m + 1][1]
                        /\ propDict[2 * m + 1] = properties[m + 1][2]

(* Dictionary d is what the first n of properties ps say, the last one     *)
(* first.                                                                  *)
Says(ps, d, n) ==
  /\ DOMAIN d \subseteq Keys
  /\ \A key \in Keys : \A value \in Values :
       (key \in DOMAIN d /\ d[key] = value) <=>
         \E l \in 1 .. n : /\ ps[l] = <<key, value>>
                           /\ \A m \in l + 1 .. n : ps[m][1] # key
  /\ \A key \in DOMAIN d : d[key] \in Values

CopyOK ==
  pc = "copy" => \E n \in 0 .. count :
    /\ status = Discovered
    /\ i = 2 * n /\ j = 0 /\ propertiesDict = << >> /\ delivered = Null
    /\ DOMAIN propDict = 0 .. 2 * n - 1 /\ heap = 0 .. 2 * n - 1
    /\ Copied(n)

WholeOK ==
  pc \in {"notify", "read", "free"} /\ status = Discovered =>
    /\ DOMAIN propDict = Cells /\ Copied(count) /\ propDict[2 * count] = Null

ReadOK ==
  pc \in {"notify", "read"} =>
    /\ status = Discovered => i = 2 * count /\ heap = 0 .. 2 * count - 1
    /\ delivered = Null
    /\ pc = "notify" => j = 0 /\ propertiesDict = << >>
    /\ pc = "read" => /\ status = Discovered
                      /\ \E n \in 0 .. count :
                           j = 2 * n /\ Says(properties, propertiesDict, n)

(* The strings h that are left when the free loop is at index k of an      *)
(* array of n properties.                                                  *)
Unfreed(h, k, n) == \A c \in Int : c \in h <=> 0 <= c /\ c < 2 * n /\ c <= k

FreeOK ==
  /\ pc = "free" =>
       /\ status = Discovered
       /\ Unfreed(heap, i, count)
       /\ \/ i \in 0 .. 2 * count /\ (count > 0 => i > 0)
          \/ i = -1 /\ count = 0
  /\ pc = "done" /\ status = Discovered => heap = {0}
  /\ pc = "undefined" => status = Discovered /\ count = 0

DInv == /\ TypeOK /\ CopyOK /\ WholeOK /\ ReadOK /\ FreeOK
        /\ delivered # Null /\ status = Discovered =>
             Says(properties, delivered.properties, count)
-----------------------------------------------------------------------------
(* A property is a pair of strings.                                        *)
LEMMA PropertyTypes ==
  ASSUME TypeOK
  PROVE  /\ count \in Nat
         /\ \A n \in 1 .. count :
              /\ properties[n][1] \in Keys /\ properties[n][2] \in Values
              /\ properties[n] = <<properties[n][1], properties[n][2]>>
<1>1. properties \in Seq(Keys \X Values)
  BY DEF TypeOK
<1>2. \A n \in 1 .. Len(properties) : properties[n] \in Keys \X Values
  BY <1>1
<1>3. \A p \in Keys \X Values : p[1] \in Keys /\ p[2] \in Values /\ p = <<p[1], p[2]>>
  OBVIOUS
<1> QED
  BY <1>1, <1>2, <1>3 DEF count

(* A dictionary that takes in the next property says one property more.    *)
LEMMA SaysNext ==
  ASSUME TypeOK, NEW d, NEW n \in 0 .. count - 1, Says(properties, d, n)
  PROVE  Says(properties, Put(d, properties[n + 1][1], properties[n + 1][2]), n + 1)
<1> DEFINE k == properties[n + 1][1]
           v == properties[n + 1][2]
           e == Put(d, k, v)
<1>1. n \in Nat /\ n + 1 \in 1 .. count /\ count \in Nat
  BY PropertyTypes
<1>2. k \in Keys /\ v \in Values /\ properties[n + 1] = <<k, v>>
  BY <1>1, PropertyTypes
<1>3. DOMAIN e = DOMAIN d \cup {k} /\ e[k] = v
      /\ \A c \in DOMAIN d \ {k} : e[c] = d[c]
  BY DEF Put
<1>a. properties[n + 1][1] = k
  OBVIOUS
<1> HIDE DEF k, v, e
<1>4. ASSUME NEW key \in Keys, NEW value \in Values
      PROVE  (key \in DOMAIN e /\ e[key] = value) <=>
               \E l \in 1 .. n + 1 :
                 /\ properties[l] = <<key, value>>
                 /\ \A m \in l + 1 .. n + 1 : properties[m][1] # key
  <2>1. CASE key = k
    <3>1. \A l \in 1 .. n : n + 1 \in l + 1 .. n + 1
      BY <1>1
    <3>2. (\E l \in 1 .. n + 1 :
             /\ properties[l] = <<key, value>>
             /\ \A m \in l + 1 .. n + 1 : properties[m][1] # key)
          <=> properties[n + 1] = <<key, value>>
      BY <1>1, <1>a, <2>1, <3>1
    <3> QED
      BY <1>2, <1>3, <2>1, <3>2
  <2>2. CASE key # k
    <3>1. (\E l \in 1 .. n + 1 :
             /\ properties[l] = <<key, value>>
             /\ \A m \in l + 1 .. n + 1 : properties[m][1] # key)
          <=> \E l \in 1 .. n :
             /\ properties[l] = <<key, value>>
             /\ \A m \in l + 1 .. n : properties[m][1] # key
      BY <1>1, <1>2, <1>a, <2>2
    <3> QED
      BY <1>3, <2>2, <3>1 DEF Says
  <2> QED
    BY <2>1, <2>2
<1> QED
  BY <1>2, <1>3, <1>4 DEF Says, k, v, e

(* A notification starts with nothing copied.                              *)
LEMMA InitDInv == Init => DInv
<1> SUFFICES ASSUME Init PROVE DInv
  OBVIOUS
<1>1. properties \in Seq(Keys \X Values)
  BY DEF Init
<1>2. count \in Nat
  BY <1>1 DEF count
<1>3. TypeOK
  BY <1>1, <1>2 DEF Init, TypeOK, Cells
<1>4. CopyOK
  BY <1>2 DEF Init, CopyOK, Copied
<1> QED
  BY <1>2, <1>3, <1>4 DEF Init, DInv, WholeOK, ReadOK, FreeOK

(* One property more is copied.                                            *)
LEMMA CopyPropertyKeeps == DInv /\ CopyProperty => DInv'
<1> SUFFICES ASSUME DInv, CopyProperty PROVE DInv'
  OBVIOUS
<1>0. count' = count /\ Cells' = Cells /\ count \in Nat
  BY PropertyTypes DEF DInv, CopyProperty, event, count, Cells
<1>1. PICK n \in 0 .. count :
        /\ status = Discovered
        /\ i = 2 * n /\ j = 0 /\ propertiesDict = << >> /\ delivered = Null
        /\ DOMAIN propDict = 0 .. 2 * n - 1 /\ heap = 0 .. 2 * n - 1
        /\ Copied(n)
  BY DEF DInv, CopyOK, CopyProperty
<1>2. n \in 0 .. count - 1 /\ i \div 2 = n
  BY <1>0, <1>1 DEF CopyProperty
<1> DEFINE k == properties[n + 1][1]
           v == properties[n + 1][2]
<1>3. propDict' = Put(Put(propDict, i, k), i + 1, v)
  BY <1>2 DEF CopyProperty
<1>4. /\ DOMAIN propDict' = DOMAIN propDict \cup {i, i + 1}
      /\ propDict'[i] = k /\ propDict'[i + 1] = v
      /\ \A c \in DOMAIN propDict \ {i, i + 1} : propDict'[c] = propDict[c]
  <2>1. i \in Int /\ i # i + 1
    BY <1>1, <1>2
  <2> QED
    BY <1>3, <2>1 DEF Put
<1>5. DOMAIN propDict' = 0 .. 2 * (n + 1) - 1 /\ heap' = 0 .. 2 * (n + 1) - 1
  <2>1. (0 .. 2 * n - 1) \cup {2 * n, 2 * n + 1} = 0 .. 2 * (n + 1) - 1
    BY <1>2
  <2>2. heap' = heap \cup {i, i + 1}
    BY DEF CopyProperty
  <2> QED
    BY <1>1, <1>4, <2>1, <2>2
<1>6. Copied(n + 1)'
  <2> SUFFICES ASSUME NEW m \in 0 .. n
               PROVE  /\ propDict'[2 * m] = properties[m + 1][1]
                      /\ propDict'[2 * m + 1] = properties[m + 1][2]
    BY <1>2 DEF Copied, CopyProperty, event
  <2>1. CASE m = n
    BY <1>1, <1>4, <2>1
  <2>2. CASE m # n
    <3>1. m \in 0 .. n - 1 /\ 2 * m \in DOMAIN propDict \ {i, i + 1}
          /\ 2 * m + 1 \in DOMAIN propDict \ {i, i + 1}
      BY <1>1, <1>2, <2>2
    <3> QED
      BY <1>1, <1>4, <3>1 DEF Copied
  <2> QED
    BY <2>1, <2>2
<1>7. UNCHANGED <<pc, status, properties, hasDelegate, j, propertiesDict,
                  delivered>> /\ pc = "copy" /\ i' = 2 * (n + 1)
  BY <1>1, <1>2 DEF CopyProperty, event, closure
<1>8. TypeOK'
  BY <1>0, <1>1, <1>2, <1>5, <1>7 DEF DInv, TypeOK, Cells
<1>9. CopyOK'
  BY <1>0, <1>1, <1>2, <1>5, <1>6, <1>7 DEF CopyOK
<1> QED
  BY <1>1, <1>7, <1>8, <1>9 DEF DInv, WholeOK, ReadOK, FreeOK

(* The copies are complete.                                                *)
LEMMA TerminateKeeps == DInv /\ Terminate => DInv'
<1> SUFFICES ASSUME DInv, Terminate PROVE DInv'
  OBVIOUS
<1>0. count' = count /\ Cells' = Cells /\ count \in Nat
  BY PropertyTypes DEF DInv, Terminate, event, count, Cells
<1>1. PICK n \in 0 .. count :
        /\ status = Discovered
        /\ i = 2 * n /\ j = 0 /\ propertiesDict = << >> /\ delivered = Null
        /\ DOMAIN propDict = 0 .. 2 * n - 1 /\ heap = 0 .. 2 * n - 1
        /\ Copied(n)
  BY DEF DInv, CopyOK, Terminate
<1>2. n = count /\ i = 2 * count
  BY <1>0, <1>1 DEF Terminate
<1>3. /\ DOMAIN propDict' = DOMAIN propDict \cup {i} /\ propDict'[i] = Null
      /\ \A c \in DOMAIN propDict \ {i} : propDict'[c] = propDict[c]
  BY DEF Terminate, Put
<1>4. DOMAIN propDict' = Cells
  <2>1. (0 .. 2 * count - 1) \cup {2 * count} = 0 .. 2 * count
    BY <1>0
  <2> QED
    BY <1>1, <1>2, <1>3, <2>1 DEF Cells
<1>5. Copied(count)'
  <2> SUFFICES ASSUME NEW m \in 0 .. count - 1
               PROVE  /\ propDict'[2 * m] = properties[m + 1][1]
                      /\ propDict'[2 * m + 1] = properties[m + 1][2]
    BY <1>0 DEF Copied, Terminate, event
  <2>1. 2 * m \in DOMAIN propDict \ {i} /\ 2 * m + 1 \in DOMAIN propDict \ {i}
    BY <1>0, <1>1, <1>2
  <2> QED
    BY <1>1, <1>2, <1>3, <2>1 DEF Copied
<1>6. /\ UNCHANGED <<status, properties, hasDelegate, heap, i, j,
                     propertiesDict, delivered>>
      /\ pc' = "notify"
  BY DEF Terminate, event, closure
<1>7. TypeOK'
  BY <1>0, <1>4, <1>6 DEF DInv, TypeOK
<1> QED
  BY <1>0, <1>1, <1>2, <1>3, <1>4, <1>5, <1>6, <1>7
     DEF DInv, CopyOK, WholeOK, ReadOK, FreeOK

(* Before the free loop all copies are there.                              *)
LEMMA WholeUnfreed ==
  \A n \in Nat : Unfreed(0 .. 2 * n - 1, 2 * n, n)
BY DEF Unfreed

(* The steps that leave the array alone, or free a cell of it.             *)
LEMMA NotifyKeeps == DInv /\ Notify => DInv'
<1> SUFFICES ASSUME DInv, Notify PROVE DInv'
  OBVIOUS
<1>0. count' = count /\ Cells' = Cells /\ count \in Nat
  BY PropertyTypes DEF DInv, Notify, event, count, Cells
<1>1. /\ UNCHANGED <<status, properties, hasDelegate, propDict, heap, i, j,
                     propertiesDict>>
      /\ pc = "notify" /\ j = 0 /\ propertiesDict = << >>
  BY DEF Notify, event, array, DInv, ReadOK
<1>2. Copied(count)' <=> Copied(count)
  BY <1>0, <1>1 DEF Copied
<1>3. Says(properties, propertiesDict, 0)
  BY <1>1 DEF Says
<1>4. TypeOK'
  BY <1>0, <1>1 DEF DInv, TypeOK, Notify
<1>5. CASE status = Discovered /\ hasDelegate
  <2>1. pc' = "read" /\ delivered' = Null
    BY <1>5 DEF Notify
  <2>2. Says(properties', propertiesDict', 0)
    BY <1>1, <1>3
  <2> QED
    BY <1>0, <1>1, <1>2, <1>4, <1>5, <2>1, <2>2
       DEF DInv, CopyOK, WholeOK, ReadOK, FreeOK
<1>6. CASE status = Discovered /\ ~hasDelegate
  <2>1. pc' = "free" /\ delivered' = Null
    BY <1>6 DEF Notify
  <2>2. i = 2 * count /\ heap = 0 .. 2 * count - 1
    BY <1>1, <1>6 DEF DInv, ReadOK
  <2>3. Unfreed(heap', i', count')
    BY <1>0, <1>1, <2>2, WholeUnfreed
  <2>4. FreeOK'
    BY <1>0, <1>1, <1>6, <2>1, <2>2, <2>3 DEF FreeOK
  <2> QED
    BY <1>0, <1>1, <1>2, <1>4, <1>6, <2>1, <2>2, <2>4
       DEF DInv, CopyOK, WholeOK, ReadOK
<1>7. CASE status # Discovered
  <2>1. pc' = "done"
    BY <1>7 DEF Notify
  <2> QED
    BY <1>0, <1>1, <1>4, <1>7, <2>1 DEF DInv, CopyOK, WholeOK, ReadOK, FreeOK
<1> QED
  BY <1>5, <1>6, <1>7

(* The array as the closure sees it at its n-th key.                       *)
LEMMA Reading ==
  ASSUME DInv, pc = "read", NEW n \in 0 .. count, j = 2 * n
  PROVE  /\ n < count => /\ propDict[j] = properties[n + 1][1]
                         /\ propDict[j + 1] = properties[n + 1][2]
         /\ propDict[j] = Null <=> n = count
         /\ {j, j + 1} \subseteq Cells <=> n < count
<1>1. /\ count \in Nat /\ Copied(count) /\ propDict[2 * count] = Null
  BY PropertyTypes DEF DInv, WholeOK, ReadOK
<1>2. ASSUME n < count
      PROVE  /\ propDict[j] = properties[n + 1][1]
             /\ propDict[j + 1] = properties[n + 1][2]
             /\ propDict[j] # Null
  <2>1. n \in 0 .. count - 1 /\ n + 1 \in 1 .. count
    BY <1>1, <1>2
  <2>2. properties[n + 1][1] \in Keys
    BY <2>1, PropertyTypes DEF DInv
  <2> QED
    BY <1>1, <2>1, <2>2 DEF Copied
<1>3. {j, j + 1} \subseteq Cells <=> n < count
  BY <1>1 DEF Cells
<1> QED
  BY <1>1, <1>2, <1>3

(* One turn of the closure: the dictionary says one property more.         *)
LEMMA ReadPairKeeps == DInv /\ ReadPair => DInv'
<1> SUFFICES ASSUME DInv, ReadPair PROVE DInv'
  OBVIOUS
<1>0. count' = count /\ Cells' = Cells /\ count \in Nat
  BY PropertyTypes DEF DInv, ReadPair, event, count, Cells
<1>1. /\ UNCHANGED <<pc, status, properties, hasDelegate, propDict, heap, i,
                     delivered>>
      /\ pc = "read" /\ status = Discovered
  BY DEF ReadPair, event, array, DInv, ReadOK
<1>2. PICK n \in 0 .. count : j = 2 * n /\ Says(properties, propertiesDict, n)
  BY <1>1 DEF DInv, ReadOK
<1>3. n \in 0 .. count - 1
  BY <1>0, <1>1, <1>2, Reading DEF ReadPair
<1>4. propertiesDict' = Put(propertiesDict, properties[n + 1][1],
                                            properties[n + 1][2])
  BY <1>0, <1>1, <1>2, <1>3, Reading DEF ReadPair
<1>5. Says(properties, propertiesDict', n + 1) /\ j' = 2 * (n + 1) /\ n + 1 \in 0 .. count
  BY <1>0, <1>2, <1>3, <1>4, SaysNext DEF DInv, ReadPair
<1>6. Says(properties', propertiesDict', n + 1)
  BY <1>1, <1>5
<1>7. TypeOK'
  BY <1>0, <1>1, <1>5 DEF DInv, TypeOK, Says, Cells
<1>8. Copied(count)' <=> Copied(count)
  BY <1>0, <1>1 DEF Copied
<1> QED
  BY <1>0, <1>1, <1>5, <1>6, <1>7, <1>8
     DEF DInv, CopyOK, WholeOK, ReadOK, FreeOK

(* At the null key the closure has read every property.                    *)
LEMMA DeliverKeeps == DInv /\ Deliver => DInv'
<1> SUFFICES ASSUME DInv, Deliver PROVE DInv'
  OBVIOUS
<1>0. count' = count /\ Cells' = Cells /\ count \in Nat
  BY PropertyTypes DEF DInv, Deliver, event, count, Cells
<1>1. /\ UNCHANGED <<status, properties, hasDelegate, propDict, heap, i, j,
                     propertiesDict>>
      /\ pc = "read" /\ pc' = "free" /\ status = Discovered
      /\ delivered'.properties = propertiesDict
      /\ i = 2 * count /\ heap = 0 .. 2 * count - 1
  BY DEF Deliver, event, array, DInv, ReadOK
<1>2. PICK n \in 0 .. count : j = 2 * n /\ Says(properties, propertiesDict, n)
  BY <1>1 DEF DInv, ReadOK
<1>3. n = count
  BY <1>0, <1>1, <1>2, Reading DEF Deliver
<1>4. Says(properties', delivered'.properties, count')
  BY <1>0, <1>1, <1>2, <1>3
<1>5. TypeOK'
  BY <1>0, <1>1 DEF DInv, TypeOK
<1>6. Copied(count)' <=> Copied(count)
  BY <1>0, <1>1 DEF Copied
<1>7. Unfreed(heap', i', count')
  BY <1>0, <1>1, WholeUnfreed
<1>8. FreeOK'
  BY <1>0, <1>1, <1>7 DEF FreeOK
<1> QED
  BY <1>0, <1>1, <1>4, <1>5, <1>6, <1>8 DEF DInv, CopyOK, WholeOK, ReadOK

(* One turn of the free loop inside the array.                             *)
LEMMA FreeStringKeeps == DInv /\ FreeString => DInv'
<1> SUFFICES ASSUME DInv, FreeString PROVE DInv'
  OBVIOUS
<1>0. count' = count /\ Cells' = Cells /\ count \in Nat
  BY PropertyTypes DEF DInv, FreeString, event, count, Cells
<1>1. /\ UNCHANGED <<status, properties, hasDelegate, propDict, j,
                     propertiesDict, delivered>>
      /\ pc = "free" /\ status = Discovered /\ i \in 0 .. 2 * count
      /\ Unfreed(heap, i, count) /\ heap \subseteq Int
      /\ count > 0 => i > 0
  BY <1>0 DEF FreeString, event, closure, DInv, TypeOK, FreeOK, Cells
<1>2. i' = i - 1 /\ heap' = heap \ {i} /\ Unfreed(heap', i', count)
  BY <1>0, <1>1 DEF FreeString, Unfreed
<1>3. TypeOK'
  BY <1>0, <1>1, <1>2 DEF DInv, TypeOK, FreeString, Cells
<1>4. CASE i - 1 = 0
  <2>1. pc' = "done" /\ i = 1 /\ count > 0
    BY <1>0, <1>1, <1>4 DEF FreeString
  <2>2. \A c \in Int : c \in heap <=> c = 0 \/ c = 1
    BY <1>0, <1>1, <2>1 DEF Unfreed
  <2>3. heap' = {0}
    <3>1. \A c : c \in heap => c \in Int
      BY <1>1
    <3>2. \A c : c \in heap' <=> c \in heap /\ c # 1
      BY <1>2, <2>1
    <3>3. \A c : c \in heap' <=> c = 0
      BY <2>2, <3>1, <3>2
    <3> QED
      BY <3>3
  <2> QED
    BY <1>0, <1>1, <1>3, <2>1, <2>3 DEF DInv, CopyOK, WholeOK, ReadOK, FreeOK
<1>5. CASE i - 1 # 0
  <2>1. /\ pc' = "free"
        /\ \/ i' \in 0 .. 2 * count /\ (count > 0 => i' > 0)
           \/ i' = -1 /\ count = 0
    <3>1. pc' = "free" /\ i' = i - 1
      BY <1>5 DEF FreeString
    <3>2. CASE count = 0
      BY <1>1, <3>1, <3>2
    <3>3. CASE count > 0
      <4>1. i \in Int /\ i > 1 /\ i <= 2 * count
        BY <1>0, <1>1, <1>5, <3>3
      <4> QED
        BY <1>0, <3>1, <3>3, <4>1
    <3> QED
      BY <1>0, <3>1, <3>2, <3>3
  <2>2. Copied(count)' <=> Copied(count)
    BY <1>0, <1>1 DEF Copied
  <2> QED
    BY <1>0, <1>1, <1>2, <1>3, <2>1, <2>2
       DEF DInv, CopyOK, WholeOK, ReadOK, FreeOK, Says
<1> QED
  BY <1>4, <1>5

(* One that leaves it: there was nothing in the array.                     *)
LEMMA FreeOutsideKeeps == DInv /\ FreeOutside => DInv'
<1> SUFFICES ASSUME DInv, FreeOutside PROVE DInv'
  OBVIOUS
<1>0. count' = count /\ Cells' = Cells /\ count \in Nat
  BY PropertyTypes DEF DInv, FreeOutside, event, count, Cells
<1>1. /\ UNCHANGED <<event, array, closure>> /\ pc' = "undefined"
      /\ status = Discovered /\ count = 0
  BY <1>0 DEF FreeOutside, DInv, FreeOK, Cells
<1> QED
  BY <1>0, <1>1 DEF DInv, TypeOK, CopyOK, WholeOK, ReadOK, FreeOK, Says,
                    event, array, closure

(* The invariant of the notification.                                      *)
LEMMA DInvariance == Spec => []DInv
<1>1. ASSUME DInv, UNCHANGED vars PROVE DInv'
  <2>1. UNCHANGED <<pc, status, properties, hasDelegate, propDict, heap, i, j,
                    propertiesDict, delivered>> /\ count' = count /\ Cells' = Cells
    BY <1>1 DEF vars, event, array, closure, count, Cells
  <2>2. TypeOK'
    BY <1>1, <2>1 DEF DInv, TypeOK
  <2>3. CopyOK' /\ WholeOK'
    BY <1>1, <2>1 DEF DInv, CopyOK, WholeOK, Copied
  <2>4. ReadOK'
    BY <1>1, <2>1 DEF DInv, ReadOK
  <2>5. FreeOK'
    BY <1>1, <2>1 DEF DInv, FreeOK, Unfreed
  <2> QED
    BY <1>1, <2>1, <2>2, <2>3, <2>4, <2>5 DEF DInv, Says
<1>2. DInv /\ [Next]_vars => DInv'
  BY <1>1, CopyPropertyKeeps, TerminateKeeps, NotifyKeeps, ReadPairKeeps,
     DeliverKeeps, FreeStringKeeps, FreeOutsideKeeps DEF Next
<1> QED
  BY <1>2, InitDInv, PTL DEF Spec
-----------------------------------------------------------------------------
(* Type correctness of a notification: no index leaves the array by more   *)
(* than the one step that OutsideOnlyWhenEmpty speaks of.                  *)
THEOREM DiscoveryTyped == Spec => []TypeOK
<1>1. DInv => TypeOK
  BY DEF DInv
<1> QED
  BY <1>1, DInvariance, PTL

(* The closure of FastRTPSSwift.swift reads only what onParticipantDis-    *)
(* covery wrote and has not freed, although it is given no length.         *)
THEOREM ReadsWithinArray == Spec => []ReadsInside
<1>1. DInv => ReadsInside
  <2> SUFFICES ASSUME DInv, pc = "read" PROVE ReadsInside
    BY DEF ReadsInside
  <2>1. PICK n \in 0 .. count : j = 2 * n
    BY DEF DInv, ReadOK
  <2>2. /\ DOMAIN propDict = Cells /\ heap = 0 .. 2 * count - 1 /\ count \in Nat
    BY PropertyTypes DEF DInv, WholeOK, ReadOK
  <2>3. propDict[j] # Null => n < count
    BY <2>1, <2>2, Reading
  <2> QED
    BY <2>1, <2>2, <2>3 DEF ReadsInside, Cells
<1> QED
  BY <1>1, DInvariance, PTL

(* The delegate gets the dictionary of the properties of the remote        *)
(* participant, the last value of each key.                                *)
THEOREM DictionaryDelivered == Spec => []DictionaryFaithful
<1>1. DInv => DictionaryFaithful
  BY DEF DInv, Says, DictionaryFaithful
<1> QED
  BY <1>1, DInvariance, PTL

(* The loop that frees the copies leaves that of the first key.            *)
THEOREM FirstKeyLeaks == Spec => []FirstKeyLeft
<1>1. DInv => FirstKeyLeft
  BY DEF DInv, FreeOK, FirstKeyLeft
<1> QED
  BY <1>1, DInvariance, PTL

(* It leaves the array only for a participant without properties.          *)
THEOREM OutsideForEmpty == Spec => []OutsideOnlyWhenEmpty
<1>1. DInv => OutsideOnlyWhenEmpty
  BY DEF DInv, FreeOK, OutsideOnlyWhenEmpty
<1> QED
  BY <1>1, DInvariance, PTL

(* What the free loop frees, leaves and overruns, for every number of      *)
(* properties.                                                             *)
THEOREM FreeLoopPinned == Spec => []FreeLoopExact
<1>1. FirstKeyLeft /\ OutsideOnlyWhenEmpty => FreeLoopExact
  BY DEF FreeLoopExact
<1> QED
  BY <1>1, FirstKeyLeaks, OutsideForEmpty, PTL

=============================================================================
