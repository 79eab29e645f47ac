------------------------------ MODULE PagingMC ------------------------------
(* Memory maps of 13 to 20 pages of two units: one flat, one with a hole   *)
(* and a region that starts inside a page, one of regions that meet inside *)
(* a page, one with little usable memory under a high address, and one     *)
(* with no run as long as the heap's first request.                        *)
EXTENDS Paging

Region(base, length, available) ==
  [base |-> base, length |-> length, available |-> available]

MCMemoryMaps ==
  { {Region(0, 28, TRUE)},
    {Region(0, 5, TRUE), Region(5, 3, FALSE), Region(9, 18, TRUE)},
    {Region(1, 6, TRUE), Region(7, 6, TRUE), Region(13, 13, TRUE)},
    {Region(0, 14, TRUE), Region(16, 6, TRUE), Region(60, 4, FALSE)},
    {Region(0, 15, TRUE), Region(15, 2, FALSE), Region(17, 5, TRUE), Region(23, 4, TRUE)} }

(* Two pages of one table, and one below the table the boot made.          *)
MCVirtual == {<<1, 0, 0, 0>>, <<1, 0, 0, 1>>, <<0, 1, 0, 0>>}
=============================================================================
