-------------------------------- MODULE Paging --------------------------------
(* The pages of a listing: opsQueryDefaults and opsBounds behind               *)
(* GET /ops/records, towerQueryDefaults and towerBounds behind                 *)
(* GET /api/inspections and GET /api/findings.  Page and size are what         *)
(* strconv.Atoi read, 0 when there was nothing to read.  The offset is         *)
(* computed in a machine integer and wraps.                                    *)
EXTENDS Integers, Sequences

CONSTANTS
  IntBits,          \* the width of int; 64 on the platforms the service runs on
  DefaultPageSize,  \* 25 in the code
  MaxPageSize       \* 200 in the code

ASSUME PagingConstants ==
  /\ IntBits \in Nat \ {0}
  /\ DefaultPageSize \in 1..MaxPageSize
  /\ MaxPageSize \in 1..(2^(IntBits - 1) - 1)

MaxInt == 2^(IntBits - 1) - 1
Wrap(n) == ((n + MaxInt + 1) % (2 * MaxInt + 2)) - MaxInt - 1

\* opsQueryDefaults and towerQueryDefaults.
DefaultedPage(page) == IF page < 1 THEN 1 ELSE page
DefaultedSize(size) ==
  IF size < 1 THEN DefaultPageSize ELSE IF size > MaxPageSize THEN MaxPageSize ELSE size

Offset(page, size) == Wrap(Wrap(DefaultedPage(page) - 1) * DefaultedSize(size))

\* The items from start (exclusive, counted from 1) to end, and whether more follow.
Bounds(start, total, size) ==
  LET end == Wrap(start + DefaultedSize(size))
  IN  [start |-> start, end |-> IF end > total THEN total ELSE end]

\* opsBounds: a start before the listing is let through.
opsBounds(total, page, size) ==
  LET start == Offset(page, size)
  IN  Bounds(IF start > total THEN total ELSE start, total, size)

\* Mutant: the page is not counted from 1.
towerBoundsFromZero(total, page, size) ==
  LET start == Wrap(DefaultedPage(page) * DefaultedSize(size))
  IN  Bounds(IF start < 0 THEN 0 ELSE IF start > total THEN total ELSE start, total, size)

towerBounds(total, page, size) ==
  LET start == Offset(page, size)
  IN  Bounds(IF start < 0 THEN 0 ELSE IF start > total THEN total ELSE start, total, size)

\* Slicing with these bounds panics, and recoveryMiddleware answers 500.
Sliceable(b) == 0 <= b.start /\ b.start <= b.end
===============================================================================
