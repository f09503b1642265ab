------------------------------- MODULE MCBoot -------------------------------
(* Memory maps with one, two and six usable frames, the last in two        *)
(* regions around a reserved one; a heap of two pages; ACPI regions within *)
(* a page, across a page boundary, and over three pages.  Frames run out   *)
(* while the heap is mapped in the small maps, and while ACPI or the APICs *)
(* are mapped in some behaviours of the large one.  Register numbers have  *)
(* room for four redirection entries where the code has room for 120.      *)
EXTENDS Boot, TLC

Page(n) == n * 256

MCMaps ==
    {<<[start |-> Page(1), end |-> Page(2), kind |-> "Usable"]>>,
     <<[start |-> Page(0), end |-> Page(2), kind |-> "Usable"]>>,
     <<[start |-> Page(0), end |-> Page(3), kind |-> "Usable"],
       [start |-> Page(3), end |-> Page(4), kind |-> "Bootloader"],
       [start |-> Page(4), end |-> Page(7), kind |-> "Usable"]>>}

MCRequests ==
    {[phys |-> Page(10) + 3, size |-> 2], [phys |-> Page(11) - 1, size |-> 2],
     [phys |-> Page(12) - 2, size |-> 260]}

(* Read from the MSR, and a MADT override. *)
MCLocalBases == {Page(30) + MsrFlags, Page(30)}

MCIoBases == {NoIoApic, Page(40), Page(40) + 64}

Lo(v, d, m, r) == [vector |-> v, dmode |-> d, masked |-> m, rest |-> r]

(* Entries as firmware leaves them: masked, in use, and with destinations  *)
(* on both sides of four bits.                                             *)
MCEntries ==
    <<[lo |-> Lo(0, "Physical", TRUE, 0), hi |-> 3],
      [lo |-> Lo(104, "Physical", FALSE, 1), hi |-> 18],
      [lo |-> Lo(48, "Logical", FALSE, 2), hi |-> 200],
      [lo |-> Lo(0, "Logical", TRUE, 1), hi |-> 1],
      [lo |-> Lo(33, "Physical", TRUE, 0), hi |-> 15]>>

(* Two entries, too few for initialize; three; the most that can be        *)
(* numbered; one more; and the number that overflows when it is counted.   *)
MCTables ==
    {SubSeq(MCEntries, 1, n) : n \in 2 .. 5} \cup {[k \in 1 .. 10 |-> MCEntries[1]]}

Space(v, d, c) == (0 :> <<v, d>> @@ 4 :> <<0, 16>> @@ 8 :> <<258, 256 * c + 7>> @@ 12 :> <<0, 0>>)

At(b, d) == [bus |-> b, device |-> d]

(* No device, devices with gaps, all of them; some on the second bus. *)
MCConfigSpaces ==
    LET space(a) == Space(10 + a.device, 20 + a.bus, a.device)
        all == {At(0, 0), At(0, 1), At(0, 2), At(1, 1)}
    IN  {[a \in present |-> space(a)] :
            present \in {{}, {At(0, 1)}, {At(0, 0), At(0, 2), At(1, 1)}, all}}

MCAmlPciReads == {[addr |-> At(0, 1), offset |-> 0], [addr |-> At(1, 1), offset |-> 10]}

(* The null symbol, functions next to each other, an empty one, one        *)
(* without a name.                                                         *)
MCSymbols ==
    <<[value |-> 0, size |-> 0, name |-> 0], [value |-> 2, size |-> 3, name |-> 1],
      [value |-> 5, size |-> 0, name |-> 2], [value |-> 5, size |-> 2, name |-> 3],
      [value |-> 8, size |-> 0, name |-> 0], [value |-> 9, size |-> 0, name |-> 4]>>

(* Faults in a function, in its neighbour and in neither, on a stack above *)
(* the kernel's symbols and on stacks that end at an empty one.            *)
MCFaults == [ip : {3, 6, 9}, sp : {8, 9, 20}]
=============================================================================
