------------------------ MODULE ParticipantDiscovery ------------------------
(***************************************************************************)
(* One notification of a remote participant: onParticipantDiscovery copies *)
(* the properties into a C array of strings, discoveryParticipantCallback  *)
(* rebuilds a dictionary from the array for the delegate, and the C++ side *)
(* frees the copies.                                                       *)
(*                                                                         *)
(* The array has 2 * count + 1 cells, cells 0, 2, .. hold keys, cells 1,   *)
(* 3, .. values, the last one the null pointer; a cell is named by its     *)
(* index in C.                                                             *)
(***************************************************************************)
EXTENDS Integers, Sequences

CONSTANTS
  Keys, Values,    \* the strings that occur as keys and as values
  Status,          \* the statuses of a notification
  Discovered,      \* the one that carries locators and properties
  MaxProperties,   \* bound on the number of properties
  Null             \* the null pointer; also "nothing delivered"

ASSUME DiscoveryAssumption ==
  /\ Discovered \in Status
  /\ MaxProperties \in Nat
  /\ Null \notin Keys \cup Values

VARIABLES
  pc,              \* where the callback is
  status,          \* info.status
  properties,      \* info.info.m_properties: sequence of <<key, value>>
  hasDelegate,     \* did the program set a participant delegate?
  propDict,        \* the array: cell -> string, on the cells written so far
  heap,            \* the cells whose copy is allocated
  i,               \* the loop variable of both loops of the C++ side
  j,               \* the loop variable of the closure
  propertiesDict,  \* the dictionary the closure builds
  delivered        \* what the delegate got

event   == <<status, properties, hasDelegate>>
array   == <<propDict, heap, i>>
closure == <<j, propertiesDict, delivered>>
vars    == <<pc, event, array, closure>>

count == Len(properties)
Cells == 0 .. 2 * count

Init ==
  /\ status \in Status
  /\ properties \in UNION {[1 .. n -> Keys \X Values] : n \in 0 .. MaxProperties}
  /\ hasDelegate \in BOOLEAN
  /\ pc = IF status = Discovered THEN "copy" ELSE "notify"
  /\ propDict = << >> /\ heap = {} /\ i = 0
  /\ j = 0 /\ propertiesDict = << >> /\ delivered = Null
-----------------------------------------------------------------------------
(* f with x mapped to y, whether x was in its domain or not.               *)
Put(f, x, y) == [c \in DOMAIN f \cup {x} |-> IF c = x THEN y ELSE f[c]]

(* One turn of the loop over the properties: two copies, i++ twice.        *)
CopyProperty ==
  /\ pc = "copy" /\ i < 2 * count
  /\ LET prop == properties[(i \div 2) + 1]
     IN  propDict' = Put(Put(propDict, i, prop[1]), i + 1, prop[2])
  /\ heap' = heap \cup {i, i + 1}
  /\ i' = i + 2
  /\ UNCHANGED <<pc, event, closure>>

\* Mutant of Terminate: the array gets no terminating null pointer.
TerminateNot ==
  /\ pc = "copy" /\ i = 2 * count
  /\ pc' = "notify"
  /\ UNCHANGED <<event, array, closure>>

\* Mutant of Terminate: the index is moved past the null pointer.
TerminateAndAdvance ==
  /\ pc = "copy" /\ i = 2 * count
  /\ propDict' = Put(propDict, i, Null)
  /\ i' = i + 1
  /\ pc' = "notify"
  /\ UNCHANGED <<event, heap, closure>>

(* propDict[i] = nullptr; i stays on that cell.                            *)
Terminate ==
  /\ pc = "copy" /\ i = 2 * count
  /\ propDict' = Put(propDict, i, Null)
  /\ pc' = "notify"
  /\ UNCHANGED <<event, heap, i, closure>>

(* The closure is entered; without a delegate it returns at once, and      *)
(* without an array it has nothing to read.                                *)
Notify ==
  /\ pc = "notify"
  /\ pc' = IF status = Discovered THEN IF hasDelegate THEN "read" ELSE "free"
                                  ELSE "done"
  /\ delivered' = IF hasDelegate /\ status # Discovered
                  THEN [reason |-> status, properties |-> << >>] ELSE Null
  /\ UNCHANGED <<event, array, j, propertiesDict>>

\* Mutant of ReadPair: a key met again keeps its first value.
ReadPairFirstWins ==
  /\ pc = "read" /\ propDict[j] # Null
  /\ propertiesDict' = IF propDict[j] \in DOMAIN propertiesDict THEN propertiesDict
                       ELSE Put(propertiesDict, propDict[j], propDict[j + 1])
  /\ j' = j + 2
  /\ UNCHANGED <<pc, event, array, delivered>>

(* One turn of the closure's loop: propertiesDict[key] = value.            *)
ReadPair ==
  /\ pc = "read" /\ propDict[j] # Null
  /\ propertiesDict' = Put(propertiesDict, propDict[j], propDict[j + 1])
  /\ j' = j + 2
  /\ UNCHANGED <<pc, event, array, delivered>>

(* A null key ends the loop, the delegate is called, the closure returns.  *)
Deliver ==
  /\ pc = "read" /\ propDict[j] = Null
  /\ delivered' = [reason |-> status, properties |-> propertiesDict]
  /\ pc' = "free"
  /\ UNCHANGED <<event, array, j, propertiesDict>>

\* Mutant of FreeString: the loop steps by whole properties.
FreeStringByTwo ==
  /\ pc = "free" /\ i \in Cells
  /\ heap' = heap \ {i}
  /\ i' = i - 2
  /\ pc' = IF i - 2 # 0 THEN "free" ELSE "done"
  /\ UNCHANGED <<event, propDict, closure>>

(* do free(propDict[i--]) while (i != 0).  Freeing the null cell is no     *)
(* effect, and cell 0 is not reached.                                      *)
FreeString ==
  /\ pc = "free" /\ i \in Cells
  /\ heap' = heap \ {i}
  /\ i' = i - 1
  /\ pc' = IF i - 1 # 0 THEN "free" ELSE "done"
  /\ UNCHANGED <<event, propDict, closure>>

(* The loop ran past the start of the array: what it frees is undefined.   *)
FreeOutside ==
  /\ pc = "free" /\ i \notin Cells
  /\ pc' = "undefined"
  /\ UNCHANGED <<event, array, closure>>

Next == \/ CopyProperty \/ Terminate \/ Notify \/ ReadPair \/ Deliver
        \/ FreeString \/ FreeOutside

Spec == Init /\ [][Next]_vars
-----------------------------------------------------------------------------
TypeOK ==
  /\ pc \in {"copy", "notify", "read", "free", "done", "undefined"}
  /\ status \in Status
  /\ properties \in Seq(Keys \X Values)
  /\ hasDelegate \in BOOLEAN
  /\ DOMAIN propDict \subseteq Cells
  /\ heap \subseteq Cells
  /\ i \in -1 .. 2 * count
  /\ j \in Cells
  /\ DOMAIN propertiesDict \subseteq Keys

(* The closure, which gets no length, reads only cells that were written,  *)
(* and strings that are still allocated.                                   *)
ReadsInside ==
  pc = "read" =>
    /\ j \in DOMAIN propDict
    /\ propDict[j] # Null => {j, j + 1} \subseteq heap \cap DOMAIN propDict

(* The delegate is told the properties of the remote participant: of two   *)
(* with the same key the last one, and none is lost or made up on the way  *)
(* through the array.                                                      *)
DictionaryFaithful ==
  delivered # Null /\ status = Discovered =>
    \A key \in Keys : \A value \in Values :
      (key \in DOMAIN delivered.properties
         /\ delivered.properties[key] = value)
        <=> \E n \in 1 .. count :
              /\ properties[n] = <<key, value>>
              /\ \A m \in n + 1 .. count : properties[m][1] # key

(* What the free loop leaves: with one property or more, all copies are    *)
(* freed but one, that of the first key.                                   *)
FirstKeyLeft ==
  pc = "done" /\ status = Discovered => heap = {0}

(* The loop leaves the array exactly when there is nothing in it: a        *)
(* participant without properties has i = 0 before the first decrement.    *)
OutsideOnlyWhenEmpty ==
  pc = "undefined" => count = 0

(* What the loop over i-- (BridgedParticipantListener.cpp:110-112) does,   *)
(* for every number of properties: all copies freed but the first key, and *)
(* no access outside the array but for none.                               *)
FreeLoopExact == FirstKeyLeft /\ OutsideOnlyWhenEmpty

=============================================================================
