----------------------------- MODULE DmaBuffer -----------------------------
(***************************************************************************)
(* Dumb buffers of the DRM device and dma-bufs imported from elsewhere:    *)
(* how the objects of the program hold the handles, the descriptors and    *)
(* the mappings of the kernel.  The kernel gives out the lowest number     *)
(* that is free.                                                           *)
(***************************************************************************)
EXTENDS Integers, FiniteSets

CONSTANTS
  Objects,          \* places for DmaBuffer objects
  Views,            \* places for MappedView objects
  Memories,         \* bound: pieces of memory, 1..n
  Numbers,          \* bound: the numbers of handles and descriptors, 1..n
  Alignments        \* how many alignments create() tries

None == 0

VARIABLES
  handles,          \* the handle table of the DRM device: number to memory
  files,            \* the descriptors of the process: number to memory
  mapped,           \* how often each memory is mapped
  born,             \* pieces of memory so far
  unclosed,         \* handles that an import made: nothing closes them
  lent,             \* descriptors that belong to somebody else
  objects, views,
  making            \* create() in progress

kernel == <<handles, files, mapped, born, unclosed, lent>>
dmaVars == <<kernel, objects, views, making>>

NoObject == [alive |-> FALSE, primeFd |-> None, handle |-> None, ptr |-> None,
             isImported |-> FALSE]
NoView == [owner |-> None, ptr |-> None]
NotMaking == [object |-> None, attempt |-> 0, handle |-> None]

Init ==
  /\ handles = [n \in Numbers |-> None] /\ files = [n \in Numbers |-> None]
  /\ mapped = [m \in Memories |-> 0] /\ born = 0 /\ unclosed = {} /\ lent = {}
  /\ objects = [o \in Objects |-> NoObject] /\ views = [v \in Views |-> NoView]
  /\ making = NotMaking

LowestFree(table) == CHOOSE n \in Numbers : table[n] = None /\ \A k \in 1..n - 1 : table[k] # None
Room(table) == \E n \in Numbers : table[n] = None

Alive(o) == objects[o].alive

(***************************************************************************)
(* Somebody else's memory                                                  *)
(***************************************************************************)
Lend ==
  /\ Room(files) /\ born + 1 \in Memories
  /\ born' = born + 1
  /\ files' = [files EXCEPT ![LowestFree(files)] = born + 1] /\ lent' = lent \cup {LowestFree(files)}
  /\ UNCHANGED <<handles, mapped, unclosed, objects, views, making>>

TakeBack(f) ==
  /\ f \in lent /\ lent' = lent \ {f} /\ files' = [files EXCEPT ![f] = None]
  /\ UNCHANGED <<handles, mapped, born, unclosed, objects, views, making>>

(***************************************************************************)
(* create: a buffer, with an alignment that makes it large enough          *)
(***************************************************************************)
Create(o) ==
  /\ making = NotMaking /\ ~Alive(o)
  /\ making' = [object |-> o, attempt |-> 1, handle |-> None]
  /\ UNCHANGED <<kernel, objects, views>>

Trying == making.object # None /\ making.handle = None

\* The ioctl fails, or the buffer is too small and destroyed again.
Misfit ==
  /\ Trying
  /\ making' = IF making.attempt = Alignments THEN NotMaking
               ELSE [making EXCEPT !.attempt = @ + 1]
  /\ UNCHANGED <<kernel, objects, views>>

Fits ==
  /\ Trying /\ Room(handles) /\ born + 1 \in Memories
  /\ born' = born + 1 /\ handles' = [handles EXCEPT ![LowestFree(handles)] = born + 1]
  /\ making' = [making EXCEPT !.handle = LowestFree(handles)]
  /\ UNCHANGED <<files, mapped, unclosed, lent, objects, views>>

(* Mutant of ExportFails: the handle stays.                                 *)
ExportFailsOnly ==
  /\ making.handle # None /\ making' = NotMaking
  /\ UNCHANGED <<kernel, objects, views>>

ExportFails ==
  /\ making.handle # None /\ making' = NotMaking
  /\ handles' = [handles EXCEPT ![making.handle] = None]
  /\ UNCHANGED <<files, mapped, born, unclosed, lent, objects, views>>

NewObject(fd, handle, imported) ==
  [alive |-> TRUE, primeFd |-> fd, handle |-> handle, ptr |-> None, isImported |-> imported]

Export ==
  /\ making.handle # None /\ Room(files)
  /\ LET fd == LowestFree(files)
     IN /\ files' = [files EXCEPT ![fd] = handles[making.handle]]
        /\ objects' = [objects EXCEPT ![making.object] = NewObject(fd, making.handle, FALSE)]
  /\ making' = NotMaking
  /\ UNCHANGED <<handles, mapped, born, unclosed, lent, views>>

(***************************************************************************)
(* importFromFD: the object has a descriptor that belongs to somebody else *)
(***************************************************************************)
\* A memory that has a handle keeps it.  A new handle is the program's own, and
\* cleanup() returns before it would close it: it stays when the object is gone.
ImportFromFD(o, fd) ==
  /\ making = NotMaking /\ ~Alive(o) /\ files[fd] # None
  /\ LET known == {n \in Numbers : handles[n] = files[fd]}
         n == IF known # {} THEN CHOOSE k \in known : TRUE ELSE LowestFree(handles)
     IN /\ known # {} \/ Room(handles)
        /\ handles' = [handles EXCEPT ![n] = files[fd]]
        /\ unclosed' = IF known # {} THEN unclosed ELSE unclosed \cup {n}
        /\ objects' = [objects EXCEPT ![o] = NewObject(fd, n, TRUE)]
  /\ UNCHANGED <<files, mapped, born, lent, views, making>>

(***************************************************************************)
(* map, unmap, cleanup, the destructor, moves                              *)
(***************************************************************************)
\* mmap may fail; the mapping is kept for the next call.
Map(o) ==
  /\ Alive(o) /\ objects[o].primeFd # None /\ objects[o].ptr = None
  /\ LET memory == files[objects[o].primeFd]
     IN /\ memory # None
        /\ mapped' = [mapped EXCEPT ![memory] = @ + 1]
        /\ objects' = [objects EXCEPT ![o].ptr = memory]
  /\ UNCHANGED <<handles, files, born, unclosed, lent, views, making>>

Unmapped(o) ==
  IF objects[o].ptr = None THEN mapped ELSE [mapped EXCEPT ![objects[o].ptr] = @ - 1]

Unmap(o) ==
  /\ Alive(o) /\ mapped' = Unmapped(o) /\ objects' = [objects EXCEPT ![o].ptr = None]
  /\ UNCHANGED <<handles, files, born, unclosed, lent, views, making>>

\* What an object holds in the kernel goes, unless it was imported.
Cleanup(o) ==
  /\ mapped' = Unmapped(o)
  /\ IF objects[o].isImported THEN UNCHANGED <<handles, files>>
     ELSE /\ files' = [n \in Numbers |-> IF n = objects[o].primeFd THEN None ELSE files[n]]
          /\ handles' = [n \in Numbers |-> IF n = objects[o].handle THEN None ELSE handles[n]]

Destroy(o) ==
  /\ Alive(o) /\ \A v \in Views : views[v].owner # o
  /\ Cleanup(o) /\ objects' = [objects EXCEPT ![o] = NoObject]
  /\ UNCHANGED <<born, unclosed, lent, views, making>>

\* o = std::move(p); the object that is left is empty and may be used again.
Move(o, p) ==
  /\ o # p /\ Alive(p) /\ making.object # o
  /\ Cleanup(o)
  /\ objects' = [objects EXCEPT ![o] = objects[p], ![p] = [NoObject EXCEPT !.alive = TRUE]]
  /\ UNCHANGED <<born, unclosed, lent, views, making>>

(***************************************************************************)
(* MappedView                                                              *)
(***************************************************************************)
\* scopedMap() of an object that is mapped by now (see Map).
View(v, o) ==
  /\ views[v] = NoView /\ Alive(o) /\ objects[o].ptr # None
  /\ views' = [views EXCEPT ![v] = [owner |-> o, ptr |-> objects[o].ptr]]
  /\ UNCHANGED <<kernel, objects, making>>

UnmapOwner(v) ==
  IF views[v].ptr = None THEN UNCHANGED <<mapped, objects>>
  ELSE /\ mapped' = Unmapped(views[v].owner)
       /\ objects' = [objects EXCEPT ![views[v].owner].ptr = None]

EndView(v) ==
  /\ views[v] # NoView /\ UnmapOwner(v)
  /\ views' = [views EXCEPT ![v] = NoView]
  /\ UNCHANGED <<handles, files, born, unclosed, lent, making>>

\* v = std::move(w): the pointer moves, the owner of v stays.
MoveView(v, w) ==
  /\ v # w /\ views[v] # NoView /\ views[w] # NoView /\ UnmapOwner(v)
  /\ views' = [views EXCEPT ![v].ptr = views[w].ptr, ![w].ptr = None]
  /\ UNCHANGED <<handles, files, born, unclosed, lent, making>>

Next ==
  \/ Lend \/ Misfit \/ Fits \/ Export \/ ExportFails
  \/ \E f \in Numbers : TakeBack(f) \/ \E o \in Objects : ImportFromFD(o, f)
  \/ \E o \in Objects :
       \/ Create(o) \/ Map(o) \/ Unmap(o) \/ Destroy(o)
       \/ \E p \in Objects : Move(o, p)
       \/ \E v \in Views : View(v, o)
  \/ \E v \in Views : EndView(v) \/ \E w \in Views : MoveView(v, w)

Spec == Init /\ [][Next]_dmaVars

-----------------------------------------------------------------------------
Owners == {o \in Objects : Alive(o) /\ ~objects[o].isImported}

\* Every handle of create(), every descriptor and every mapping of the kernel
\* belongs to exactly one object, to a creation in progress, or (descriptors) to
\* somebody else who lent it: whatever fails, is moved, mapped twice or imported,
\* none is lost and none is given back twice.  The handles that importFromFD()
\* made are the exception, and are counted as what they are: the program keeps
\* them open for ever (unclosed), and no object that closes its handle has one.
BuffersAreOwned ==
  /\ \A n \in Numbers :
       /\ Cardinality({o \in Owners : objects[o].handle = n})
            + (IF making.handle = n THEN 1 ELSE 0) + (IF n \in unclosed THEN 1 ELSE 0)
            = (IF handles[n] = None THEN 0 ELSE 1)
       /\ Cardinality({o \in Owners : objects[o].primeFd = n}) + (IF n \in lent THEN 1 ELSE 0)
            = (IF files[n] = None THEN 0 ELSE 1)
  /\ \A m \in Memories : mapped[m] = Cardinality({o \in Objects : objects[o].ptr = m})
=============================================================================
