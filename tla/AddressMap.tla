----------------------------- MODULE AddressMap -----------------------------
(***************************************************************************)
(* The address map of a master and the two ways from an address to a byte  *)
(* of memory: over the bus, where the dispatcher of interconnect_master    *)
(* finds the slave and the offset, and by the pointer of                   *)
(* systemc_get_mem_addr, which the instruction set simulator uses for      *)
(* code and data that need no simulated access.  The two search the table  *)
(* with different conditions.                                              *)
(*                                                                         *)
(* A table is the map file of a platform with a window of 1 MB or more cut *)
(* down to two or four addresses, its neighbours, its order and its        *)
(* offsets kept.  Devices are byte arrays (MemDevice).                     *)
(***************************************************************************)
EXTENDS Integers, FiniteSetsExt

CONSTANT
    MapOps          \* bound on the number of accesses

VARIABLES
    table,          \* m_map
    cell,           \* the arrays of the memories
    told,           \* the last access and its answer
    accesses

mapVars == <<table, cell, told, accesses>>

Window(b, e, o, s) == [begin |-> b, end |-> e, offset |-> o, slave |-> s]

\* platforms/roger/maps/node0.map, without the semaphores.
Roger == <<Window(0, 4, 0, "ram"), Window(12, 14, 0, "sram"), Window(8, 10, 0, "fb"),
           Window(14, 16, 0, "tty"), Window(16, 17, 0, "block"), Window(6, 8, 0, "timer"),
           Window(10, 12, 0, "dbf"), Window(4, 5, 4, "ram")>>

\* platforms/energizer/maps/node1.map.
Energizer == <<Window(0, 5, 0, "ram"), Window(12, 14, 0, "sram"), Window(8, 10, 0, "fb"),
               Window(14, 16, 0, "tty"), Window(16, 17, 0, "block"), Window(10, 12, 0, "dbf"),
               Window(6, 8, 0, "timer")>>

\* platforms/thumper/maps/node0.map: the memory ends where the boot code of the other
\* processors is loaded.
Thumper == <<Window(0, 4, 0, "ram"), Window(6, 8, 0, "tty"), Window(10, 11, 0, "timer"),
             Window(11, 12, 0, "timer")>>

Offsets == 0 .. 4
Address == 0 .. 19
Memories == {"ram", "sram"}     \* the slaves with a get_mem

\* The first window of the table that takes the address.
Search(In(_)) == {i \in DOMAIN table : In(table[i]) /\ \A j \in 1 .. i - 1 : ~In(table[j])}

\* dispatch_requests_thread.
InWindow(a, w) == a >= w.begin /\ a < w.end
Dispatch(a) == LET In(w) == InWindow(a, w) IN Search(In)

\* get_slave_id_for_mem_addr: the end is part of the window.
InWindowOrEnd(a, w) == a >= w.begin /\ a <= w.end
BackDoor(a) == LET In(w) == InWindowOrEnd(a, w) IN Search(In)

\* An offset that forgets intern_offset.
Inside_FromBegin(a, i) == a - table[i].begin
Inside(a, i) == a - table[i].begin + table[i].offset

IsMemory(a) == \E i \in Dispatch(a) : table[i].slave \in Memories

Told(o, a, v) == [op |-> o, addr |-> a, value |-> v]

MapInit ==
    /\ table \in {Roger, Energizer, Thumper}
    /\ cell = [x \in Memories \X Offsets |-> 0]
    /\ told = Told("none", 0, 0)
    /\ accesses = 0

Store(i, a, v) == /\ cell' = [cell EXCEPT ![<<table[i].slave, Inside(a, i)>>] = v]
                  /\ told' = Told("write", a, v)
Load(i, a) == /\ told' = Told("read", a, cell[table[i].slave, Inside(a, i)])
              /\ UNCHANGED cell

\* An access of one byte over the bus.
ByBus(a) == \E i \in Dispatch(a) : (\E v \in {1, 2} : Store(i, a, v)) \/ Load(i, a)

\* The same access through the pointer.
ByPointer(a) == \E i \in BackDoor(a) : (\E v \in {1, 2} : Store(i, a, v)) \/ Load(i, a)

\* systemc_load_image: an image, and the boot code of the other processors at the end of
\* the memory, are put in the array of the memory before the simulation starts.
LoadImage(o) ==
    /\ accesses = 0
    /\ cell' = [cell EXCEPT ![<<"ram", o>>] = 3]
    /\ told' = Told("write", o, 3)

MapNext ==
    /\ accesses < MapOps /\ accesses' = accesses + 1
    /\ \/ \E a \in Address : IsMemory(a) /\ (ByBus(a) \/ ByPointer(a))
       \/ \E o \in Offsets : IsMemory(o) /\ LoadImage(o)
    /\ UNCHANGED table

MapSpec == MapInit /\ [][MapNext]_mapVars
-----------------------------------------------------------------------------
\* The byte at an address, by the table the dispatcher follows.
Byte(a) == LET i == CHOOSE j \in Dispatch(a) : TRUE IN cell[table[i].slave, Inside(a, i)]

(* However the simulator reaches a memory, over the bus, by pointer or in the images
   the platform loads, it is one memory: no two addresses share a byte, and the ends of
   windows, which only the pointer takes in, never turn an access to its neighbour
   (dispatch_requests_thread, get_slave_id_for_mem_addr, systemc_get_mem_addr). *)
OneMemory ==
    [][ \A a \in Address : IsMemory(a) =>
          /\ Byte(a)' = IF told' # told /\ told'.op = "write" /\ told'.addr = a
                        THEN told'.value ELSE Byte(a)
          /\ told'.op = "read" /\ told'.addr = a => told'.value = Byte(a) ]_mapVars
=============================================================================
