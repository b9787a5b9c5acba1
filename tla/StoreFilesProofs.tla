--------------------------- MODULE StoreFilesProofs ---------------------------
(***************************************************************************)
(* What holds of the directories of a store for any notes, texts, spans    *)
(* and clock: they are the notebook that Notebook describes, answers tell  *)
(* what they hold, a backup that was made is kept, and no day goes without *)
(* one.                                                                    *)
(***************************************************************************)
EXTENDS StoreFiles, FiniteSetTheorems, WellFoundedInduction, TLAPS

-----------------------------------------------------------------------------
(* The inductive invariant                                                 *)

Ops == [kind: Operations, note: Notes, text: Texts \union {Nothing},
        now: Time, ok: BOOLEAN, before: Pages, after: 0..MaxFaults, step: Steps]

\* The steps of an operation that has not changed its note yet.
Preparing == {"due", "sweep", "copy", "shelve", "sync shelf", "retain", "gut", "remove", "commit"}

\* Whatever shows a picture has it.
Pictured(d) ==
  \A n \in Notes : {d.notes[n], d.trash[n]} \intersect Illustrated # {} => n \in d.pictures

\* The listed snapshots that are newer than s.
Above(shelf, s) == {t \in shelf : t.sealed /\ Older(s, t)}

\* As many are newer as are kept.
Excessive(shelf, s) == Cardinality(Above(shelf, s)) >= Keep

\* A snapshot that is listed and yet not whole is one of those in excess.
ShelfInv(shelf) ==
  /\ shelf \subseteq Snapshot
  /\ IsFiniteSet(shelf)
  /\ \A s, t \in shelf : s.name = t.name => s = t
  /\ \A s \in shelf : Pictured(s)
  /\ \A s \in shelf : s.sealed /\ ~s.whole => Excessive(shelf, s)

DisksHold == \A d \in survivors : Pictured(d) /\ ShelfInv(d.shelf)

\* The listed and whole snapshots that carry a date no earlier.
Since(shelf, time) == {s \in shelf : s.sealed /\ s.whole /\ s.name[1] >= time}

Dated(shelf, time) == Since(shelf, time) # {}

\* What the schedule takes for a backup is one.
SuccessIsDated == schedule.success # Nothing => Dated(disk.shelf, schedule.success)

\* Which steps an operation has, and what it was asked of.
Asked(o, d) ==
  /\ o.kind = "create" => o.before.place = "absent" /\ o.text \in Texts \ Illustrated
  /\ o.kind = "save" => /\ o.before.place = "live" /\ o.text \in Texts
                        /\ o.text \in Illustrated => o.note \in d.pictures
  /\ o.kind \in {"import", "discard"} => o.before.place = "live"
  /\ o.step = "due" => o.kind \in {"create", "save", "discard"}
  /\ o.step \in {"commit", "sync notes"} => o.kind # "backup"
  /\ o.step \in {"sweep", "copy", "shelve", "sync shelf", "retain", "gut", "remove"} =>
       o.kind \in {"create", "save", "discard", "backup"}
  /\ o.step = "date" => o.kind = "discard"
  /\ o.step \in {"unlink", "undate"} => o.kind = "restore"
  /\ o.step = "sync trash" => o.kind \in {"discard", "restore"}

\* Where the note of an operation is once it is done.
Result(o) ==
  CASE o.kind \in {"backup", "import"} -> o.before
    [] o.kind \in {"create", "save"} -> [place |-> "live", text |-> o.text]
    [] o.kind = "discard" -> [place |-> "trashed", text |-> o.before.text]
    [] OTHER -> [place |-> "live", text |-> o.before.text]

\* Its note is where it was until the commit, and where it is to be from then on.
Committed(o, d) ==
  PageOf(d, o.note) =
    IF o.step \in Preparing \/ (o.step = "answer" /\ ~o.ok) THEN o.before ELSE Result(o)

\* A power loss shows no other notebook.
Hardened(d, left) ==
  \A e \in left : (\A n \in Notes : PageOf(e, n) = PageOf(d, n)) /\ e.committed = d.committed

\* Without trouble since it began, an operation that has synced is hardened.
Synced(o, trouble, d, left) ==
  /\ o.after <= trouble
  /\ o.after = trouble /\ (\/ o.step \in {"retain", "gut", "remove", "sync trash"}
                           \/ o.step = "answer" /\ o.ok)
       => Hardened(d, left)

\* The snapshot being made, before and after its rename.
IsOf(s, d, time) ==
  /\ s.sealed /\ s.whole /\ s.name[1] = time
  /\ s.notes = d.notes /\ s.trash = d.trash
Making(o, d, built) ==
  /\ o.step = "shelve" =>
       \E s \in Snapshot : /\ built = {s} /\ IsOf(s, d, o.now) /\ s.pictures = d.pictures
                           /\ \A t \in d.shelf : t.name # s.name
  /\ (\/ o.step \in {"sync shelf", "retain", "gut", "remove"}
      \/ o.step = "answer" /\ o.kind = "backup" /\ o.ok)
       => \/ \E s \in d.shelf : IsOf(s, d, o.now)
          \/ Cardinality(Since(d.shelf, o.now)) >= Keep

\* What is still to be removed is there, and in excess.
Dooming(o, shelf, names) ==
  o.step \in {"gut", "remove"} =>
    /\ names # {}
    /\ \A name \in names : \E s \in shelf : s.name = name /\ Excessive(shelf, s)

\* A mutation is committed within the spans of the schedule.
Allowed(o, times, time) ==
  /\ o.now = time
  /\ o.step = "commit" /\ o.kind \in {"create", "save", "discard"} =>
       \/ times.success # Nothing /\ time - times.success < Interval
       \/ times.attempt # Nothing /\ time - times.attempt < Retry

OpInv(o, d, left, built, names, times, time, trouble) ==
  /\ o \in Ops
  /\ Asked(o, d)
  /\ Committed(o, d)
  /\ Synced(o, trouble, d, left)
  /\ Making(o, d, built)
  /\ Dooming(o, d.shelf, names)
  /\ Allowed(o, times, time)

IInv ==
  /\ TypeOK
  /\ DisksHold
  /\ SuccessIsDated
  /\ op = Idle \/ OpInv(op, disk, survivors, scratch, doomed, schedule, clock, faults)

-----------------------------------------------------------------------------
(* The shelf: its snapshots are ordered, and the newest Keep are whole.    *)

Rank(s) == 2 * s.name[1] + s.name[2]

LEMMA RanksOrder ==
    ASSUME NEW s \in Snapshot, NEW t \in Snapshot
    PROVE  /\ s.name \in Names /\ s.name[1] \in Time /\ s.name[2] \in {1, 2}
           /\ Rank(s) \in Nat /\ Rank(s) <= 2 * MaxTime + 2
           /\ Older(s, t) <=> Rank(s) < Rank(t)
           /\ Rank(s) = Rank(t) => s.name = t.name
  <1>1. s.name \in Names /\ t.name \in Names
    BY DEF Snapshot
  <1>2. /\ s.name[1] \in Time /\ s.name[2] \in {1, 2}
        /\ t.name[1] \in Time /\ t.name[2] \in {1, 2}
        /\ s.name = <<s.name[1], s.name[2]>> /\ t.name = <<t.name[1], t.name[2]>>
    BY <1>1 DEF Names
  <1>3. s.name[1] \in Nat /\ s.name[1] <= MaxTime /\ t.name[1] \in Nat
    BY <1>2, SpansAssumption DEF Time
  <1>4. MaxTime \in Nat
    BY SpansAssumption
  <1>5. Rank(s) \in Nat /\ Rank(s) <= 2 * MaxTime + 2
    BY <1>2, <1>3, <1>4 DEF Rank
  <1>6. \A a, c \in Nat, b, e \in {1, 2} :
          /\ a < c \/ (a = c /\ b < e) <=> 2 * a + b < 2 * c + e
          /\ 2 * a + b = 2 * c + e => a = c /\ b = e
    OBVIOUS
  <1>7. /\ Older(s, t) <=> Rank(s) < Rank(t)
        /\ Rank(s) = Rank(t) => s.name[1] = t.name[1] /\ s.name[2] = t.name[2]
    BY <1>2, <1>3, <1>6 DEF Rank, Older
  <1>8. QED BY <1>1, <1>2, <1>5, <1>6, <1>7

\* A set of numbers that is not empty has a least one.
LEMMA LeastNumber ==
    ASSUME NEW S \in SUBSET Nat, S # {}
    PROVE  \E m \in S : \A k \in S : m <= k
  <1> DEFINE R == {ss \in Nat \X Nat : ss[1] < ss[2]}
  <1>1. IsWellFoundedOn(R, Nat)
    BY NatLessThanWellFounded DEF OpToRel
  <1> HIDE DEF R
  <1>2. PICK m \in S : \A k \in S : <<k, m>> \notin R
    BY <1>1, WFMin
  <1>3. \A k \in S : ~(k < m)
    BY <1>2 DEF R
  <1>4. QED BY <1>2, <1>3

LEMMA OldestSnapshot ==
    ASSUME NEW S \in SUBSET Snapshot, S # {}, \A s, t \in S : s.name = t.name => s = t
    PROVE  \E s \in S : \A t \in S \ {s} : Older(s, t)
  <1>1. {Rank(s) : s \in S} \in SUBSET Nat /\ {Rank(s) : s \in S} # {}
    BY RanksOrder
  <1>2. PICK m \in {Rank(s) : s \in S} : \A k \in {Rank(s) : s \in S} : m <= k
    BY <1>1, LeastNumber
  <1>3. PICK s \in S : m = Rank(s)
    BY <1>2
  <1>4. ASSUME NEW t \in S \ {s}
        PROVE  Older(s, t)
    <2>1. Rank(s) <= Rank(t) /\ Rank(s) # Rank(t)
      BY <1>2, <1>3, RanksOrder
    <2>2. QED BY <2>1, RanksOrder
  <1>5. QED BY <1>4

LEMMA NewestSnapshot ==
    ASSUME NEW S \in SUBSET Snapshot, S # {}, \A s, t \in S : s.name = t.name => s = t
    PROVE  \E s \in S : \A t \in S \ {s} : Older(t, s)
  <1> DEFINE Left(s) == 2 * MaxTime + 2 - Rank(s)
  <1>1. \A s \in S : Left(s) \in Nat
    BY RanksOrder, SpansAssumption
  <1>2. {Left(s) : s \in S} \in SUBSET Nat /\ {Left(s) : s \in S} # {}
    BY <1>1
  <1>3. PICK m \in {Left(s) : s \in S} : \A k \in {Left(s) : s \in S} : m <= k
    BY <1>2, LeastNumber
  <1>4. PICK s \in S : m = Left(s)
    BY <1>3
  <1>5. ASSUME NEW t \in S \ {s}
        PROVE  Older(t, s)
    <2>1. Left(s) <= Left(t)
      BY <1>3, <1>4
    <2>2. Rank(t) <= Rank(s) /\ Rank(s) # Rank(t)
      BY <2>1, RanksOrder, SpansAssumption
    <2>3. QED BY <2>2, RanksOrder
  <1>6. QED BY <1>5

LEMMA OlderIsAnOrder ==
    ASSUME NEW s \in Snapshot, NEW t \in Snapshot, NEW u \in Snapshot
    PROVE  /\ ~Older(s, s)
           /\ Older(s, t) => ~Older(t, s)
           /\ Older(s, t) /\ Older(t, u) => Older(s, u)
           /\ s.name = t.name => (Older(u, s) <=> Older(u, t)) /\ (Older(s, u) <=> Older(t, u))
           /\ s.name # t.name => Older(s, t) \/ Older(t, s)
           /\ Older(s, t) => s.name[1] <= t.name[1]
  BY RanksOrder, SpansAssumption DEF Older, Time

\* More snapshots, more that are newer.
LEMMA MoreAreAbove ==
    ASSUME NEW few, NEW many, few \subseteq many, IsFiniteSet(many)
    PROVE  IsFiniteSet(few) /\ Cardinality(few) \in Nat /\ Cardinality(many) \in Nat
           /\ Cardinality(few) <= Cardinality(many)
  BY FS_Subset, FS_CardinalityType

LEMMA ExcessGrows ==
    ASSUME NEW shelf, NEW other, NEW s, NEW t, IsFiniteSet(other),
           Above(shelf, s) \subseteq Above(other, t), Excessive(shelf, s)
    PROVE  Excessive(other, t)
  <1>1. Above(other, t) \subseteq other
    BY DEF Above
  <1>2. IsFiniteSet(Above(other, t))
    BY <1>1, MoreAreAbove
  <1>3. QED BY <1>2, MoreAreAbove, SpansAssumption DEF Excessive

\* Of those in excess, Keep newer ones are whole: the newest that is not whole
\* has as many above it.
LEMMA WholeAbove ==
    ASSUME NEW shelf, ShelfInv(shelf), NEW s \in Snapshot, Excessive(shelf, s)
    PROVE  /\ Cardinality({t \in Above(shelf, s) : t.whole}) >= Keep
           /\ Cardinality(Since(shelf, s.name[1])) >= Keep
  <1> DEFINE whole == {t \in Above(shelf, s) : t.whole}
             broken == {t \in Above(shelf, s) : ~t.whole}
  <1>1. whole \subseteq shelf /\ Above(shelf, s) \subseteq shelf /\ IsFiniteSet(shelf)
        /\ shelf \subseteq Snapshot
    BY DEF ShelfInv, Above
  <1>2. IsFiniteSet(whole)
    BY <1>1, MoreAreAbove
  <1>3. Cardinality(whole) >= Keep
    <2>1. CASE broken = {}
      <3>1. whole = Above(shelf, s)
        BY <2>1
      <3>2. QED BY <3>1 DEF Excessive
    <2>2. CASE broken # {}
      <3>1. broken \in SUBSET Snapshot /\ \A t, u \in broken : t.name = u.name => t = u
        BY <1>1 DEF ShelfInv, Above
      <3>2. PICK t \in broken : \A u \in broken \ {t} : Older(u, t)
        BY <2>2, <3>1, NewestSnapshot
      <3>3. t \in shelf /\ t \in Snapshot /\ Older(s, t) /\ Excessive(shelf, t)
        BY <1>1, <3>2 DEF Above, ShelfInv
      <3>4. Above(shelf, t) \subseteq whole
        <4>1. ASSUME NEW u \in Above(shelf, t)
              PROVE  u \in whole
          <5>1. u \in shelf /\ u.sealed /\ Older(t, u) /\ u \in Snapshot
            BY <1>1 DEF Above
          <5>2. Older(s, u) /\ ~Older(u, t) /\ u # t
            BY <3>3, <5>1, OlderIsAnOrder
          <5>3. u \in Above(shelf, s) /\ u \notin broken
            BY <3>2, <5>1, <5>2 DEF Above
          <5>4. QED BY <5>3
        <4>2. QED BY <4>1
      <3>5. QED BY <1>2, <3>3, <3>4, MoreAreAbove, SpansAssumption DEF Excessive
    <2>3. QED BY <2>1, <2>2
  <1>4. whole \subseteq Since(shelf, s.name[1])
    <2>1. ASSUME NEW t \in whole
          PROVE  t \in Since(shelf, s.name[1])
      <3>1. t \in shelf /\ t \in Snapshot /\ t.sealed /\ t.whole /\ Older(s, t)
        BY <1>1 DEF Above
      <3>2. s.name[1] <= t.name[1] /\ s.name[1] \in Int /\ t.name[1] \in Int
        BY <3>1, OlderIsAnOrder, RanksOrder, SpansAssumption DEF Time
      <3>3. QED BY <3>1, <3>2 DEF Since
    <2>2. QED BY <2>1
  <1>5. Since(shelf, s.name[1]) \subseteq shelf
    BY DEF Since
  <1>6. IsFiniteSet(Since(shelf, s.name[1]))
    BY <1>1, <1>5, MoreAreAbove
  <1>7. QED BY <1>3, <1>4, <1>6, MoreAreAbove, SpansAssumption

\* A snapshot comes onto the shelf.
LEMMA ShelvingKeepsShelf ==
    ASSUME NEW shelf, ShelfInv(shelf), NEW x \in Snapshot, x.whole, Pictured(x),
           \A t \in shelf : t.name # x.name
    PROVE  /\ ShelfInv(shelf \union {x})
           /\ \A time : Dated(shelf, time) => Dated(shelf \union {x}, time)
  <1> DEFINE other == shelf \union {x}
  <1>1. shelf \subseteq Snapshot /\ other \subseteq Snapshot /\ IsFiniteSet(other)
    BY FS_AddElement DEF ShelfInv
  <1>2. \A s : Above(shelf, s) \subseteq Above(other, s)
    BY DEF Above
  <1>3. \A s \in other : s.sealed /\ ~s.whole => Excessive(other, s)
    BY <1>1, <1>2, ExcessGrows DEF ShelfInv
  <1>4. \A s, t \in other : s.name = t.name => s = t
    BY DEF ShelfInv
  <1>5. \A s \in other : Pictured(s)
    BY DEF ShelfInv
  <1>6. \A time : Since(shelf, time) \subseteq Since(other, time)
    BY DEF Since
  <1>7. \A time : Dated(shelf, time) => Dated(other, time)
    BY <1>6 DEF Dated
  <1> HIDE DEF other
  <1>8. ShelfInv(other)
    BY <1>1, <1>3, <1>4, <1>5 DEF ShelfInv
  <1>9. QED BY <1>7, <1>8 DEF other

\* What is true of a shelf is true once a snapshot in excess has left it, or is
\* no longer whole.
Thinned(shelf, other) ==
  /\ ShelfInv(other)
  /\ \A s \in Snapshot : Excessive(shelf, s) => Excessive(other, s)
  /\ \A time \in Int :
       /\ Dated(shelf, time) => Dated(other, time)
       /\ Cardinality(Since(shelf, time)) >= Keep => Cardinality(Since(other, time)) >= Keep

LEMMA RemovingThins ==
    ASSUME NEW shelf, ShelfInv(shelf), NEW x \in shelf, Excessive(shelf, x)
    PROVE  /\ Thinned(shelf, shelf \ {x})
           /\ \A time \in Int : x.name[1] >= time => Cardinality(Since(shelf \ {x}, time)) >= Keep
  <1> DEFINE other == shelf \ {x}
  <1>1. shelf \subseteq Snapshot /\ other \subseteq Snapshot /\ IsFiniteSet(shelf) /\ IsFiniteSet(other)
        /\ x \in Snapshot
    BY FS_RemoveElement DEF ShelfInv
  <1>2. ASSUME NEW s \in Snapshot, Excessive(shelf, s)
        PROVE  Excessive(other, s)
    <2>1. CASE Older(s, x)
      <3>1. Above(shelf, x) \subseteq Above(other, s)
        <4>1. ASSUME NEW u \in Above(shelf, x)
              PROVE  u \in Above(other, s)
          <5>1. u \in shelf /\ u \in Snapshot /\ u.sealed /\ Older(x, u)
            BY <1>1 DEF Above
          <5>2. u # x /\ Older(s, u)
            BY <1>1, <2>1, <5>1, OlderIsAnOrder
          <5>3. QED BY <5>1, <5>2 DEF Above
        <4>2. QED BY <4>1
      <3>2. QED BY <1>1, <3>1, ExcessGrows
    <2>2. CASE ~Older(s, x)
      <3>1. Above(shelf, s) \subseteq Above(other, s)
        BY <2>2 DEF Above
      <3>2. QED BY <1>1, <1>2, <3>1, ExcessGrows
    <2>3. QED BY <2>1, <2>2
  <1>3. \A s \in other : s.sealed /\ ~s.whole => Excessive(other, s)
    BY <1>1, <1>2 DEF ShelfInv
  <1>4. ShelfInv(other)
    BY <1>1, <1>3 DEF ShelfInv
  <1>5. ASSUME NEW time \in Int, x.name[1] >= time
        PROVE  Cardinality(Since(other, time)) >= Keep
    <2>1. {t \in Above(shelf, x) : t.whole} \subseteq Since(other, time)
      <3>1. ASSUME NEW t \in Above(shelf, x), t.whole
            PROVE  t \in Since(other, time)
        <4>1. t \in shelf /\ t \in Snapshot /\ t.sealed /\ Older(x, t)
          BY <1>1 DEF Above
        <4>2. t # x /\ x.name[1] <= t.name[1] /\ x.name[1] \in Int /\ t.name[1] \in Int
          BY <1>1, <4>1, OlderIsAnOrder, RanksOrder, SpansAssumption DEF Time
        <4>3. t.name[1] >= time
          BY <1>5, <4>2
        <4>4. QED BY <3>1, <4>1, <4>2, <4>3 DEF Since
      <3>2. QED BY <3>1
    <2>2. Since(other, time) \subseteq other
      BY DEF Since
    <2>3. IsFiniteSet(Since(other, time))
      BY <1>1, <2>2, MoreAreAbove
    <2>4. Cardinality({t \in Above(shelf, x) : t.whole}) >= Keep
      BY <1>1, WholeAbove
    <2>5. QED BY <2>1, <2>3, <2>4, MoreAreAbove, SpansAssumption
  <1>6. ASSUME NEW time \in Int
        PROVE  /\ Dated(shelf, time) => Dated(other, time)
               /\ Cardinality(Since(shelf, time)) >= Keep => Cardinality(Since(other, time)) >= Keep
    <2>1. CASE x.name[1] >= time
      <3>1. Cardinality(Since(other, time)) >= Keep
        BY <1>5, <2>1
      <3>2. Since(other, time) # {}
        BY <3>1, FS_EmptySet, SpansAssumption
      <3>3. QED BY <3>1, <3>2 DEF Dated
    <2>2. CASE ~(x.name[1] >= time)
      <3>1. Since(other, time) = Since(shelf, time)
        BY <2>2 DEF Since
      <3>2. QED BY <3>1 DEF Dated
    <2>3. QED BY <2>1, <2>2
  <1> HIDE DEF other
  <1>7. Thinned(shelf, other)
    BY <1>2, <1>4, <1>6 DEF Thinned
  <1>8. QED BY <1>5, <1>7 DEF other

LEMMA GuttingThins ==
    ASSUME NEW shelf, ShelfInv(shelf), NEW x \in shelf, Excessive(shelf, x), NEW sealed \in BOOLEAN,
           NEW y, y = [x EXCEPT !.whole = FALSE, !.sealed = sealed]
    PROVE  /\ Thinned(shelf, (shelf \ {x}) \union {y})
           /\ \A time \in Int : x.name[1] >= time =>
                Cardinality(Since((shelf \ {x}) \union {y}, time)) >= Keep
           /\ y \in Snapshot /\ y.name = x.name
  <1> DEFINE less == shelf \ {x}
             other == less \union {y}
  <1>1. shelf \subseteq Snapshot /\ x \in Snapshot /\ IsFiniteSet(shelf)
    BY DEF ShelfInv
  <1>2. /\ y \in Snapshot /\ y.name = x.name /\ ~y.whole
        /\ y.notes = x.notes /\ y.trash = x.trash /\ y.pictures = x.pictures
    BY <1>1 DEF Snapshot
  <1>3. /\ Thinned(shelf, less) /\ ShelfInv(less) /\ less \subseteq shelf
        /\ \A time \in Int : x.name[1] >= time => Cardinality(Since(less, time)) >= Keep
    BY RemovingThins DEF Thinned
  <1> HIDE DEF less
  <1>4. \A t \in less : t.name # x.name
    BY DEF ShelfInv, less
  <1>5. other \subseteq Snapshot /\ IsFiniteSet(other)
    BY <1>1, <1>2, <1>3, FS_AddElement DEF ShelfInv
  <1>6. \A s : Above(less, s) \subseteq Above(other, s)
    BY DEF Above
  <1>7. \A s : Excessive(less, s) => Excessive(other, s)
    BY <1>5, <1>6, ExcessGrows
  <1>8. Excessive(other, y)
    <2>1. Excessive(less, x)
      BY <1>1, <1>3 DEF Thinned
    <2>2. Above(less, x) = Above(less, y)
      BY <1>2 DEF Above, Older
    <2>3. QED BY <1>7, <2>1, <2>2 DEF Excessive
  <1>9. \A s \in other : s.sealed /\ ~s.whole => Excessive(other, s)
    BY <1>3, <1>7, <1>8 DEF ShelfInv
  <1>10. Pictured(y)
    BY <1>2 DEF ShelfInv, Pictured
  <1>11. \A s, t \in other : s.name = t.name => s = t
    BY <1>2, <1>3, <1>4 DEF ShelfInv
  <1>12. \A time : Since(less, time) = Since(other, time)
    BY <1>2 DEF Since
  <1> HIDE DEF other
  <1>13. ShelfInv(other)
    <2>1. \A s \in other : Pictured(s)
      BY <1>3, <1>10 DEF ShelfInv, other
    <2>2. QED BY <1>5, <1>9, <1>11, <2>1 DEF ShelfInv
  <1>14. Thinned(shelf, other)
    BY <1>3, <1>7, <1>12, <1>13 DEF Thinned, Dated
  <1>15. QED BY <1>2, <1>3, <1>12, <1>14 DEF other, less

-----------------------------------------------------------------------------
(* Operations and directories                                              *)

LEMMA Numbers ==
    /\ Time \subseteq Int /\ 0..MaxFaults \subseteq Int
    /\ \A a, b, c \in 0..MaxFaults : a <= b /\ c >= b => a <= c /\ (a = c => c = b)
  BY SpansAssumption DEF Time

LEMMA Going ==
    ASSUME NEW o \in Ops, NEW step \in Steps, NEW t, t = [o EXCEPT !.step = step]
    PROVE  /\ t \in Ops /\ t.step = step /\ t.kind = o.kind /\ t.note = o.note /\ t.text = o.text
           /\ t.now = o.now /\ t.ok = o.ok /\ t.before = o.before /\ t.after = o.after
           /\ Result(t) = Result(o)
  BY DEF Ops, Result

LEMMA Answering ==
    ASSUME NEW o \in Ops, NEW ok \in BOOLEAN, NEW t, t = [o EXCEPT !.step = "answer", !.ok = ok]
    PROVE  /\ t \in Ops /\ t.step = "answer" /\ t.kind = o.kind /\ t.note = o.note /\ t.text = o.text
           /\ t.now = o.now /\ t.ok = ok /\ t.before = o.before /\ t.after = o.after
           /\ Result(t) = Result(o)
  BY DEF Ops, Result, Steps

\* An operation that is at a step.
LEMMA AtStep ==
    ASSUME IInv, NEW step, At(step)
    PROVE  /\ op \in Ops /\ op # Idle /\ op.step = step /\ op.kind \in Operations /\ op.note \in Notes
           /\ Asked(op, disk) /\ Committed(op, disk) /\ Synced(op, faults, disk, survivors)
           /\ Making(op, disk, scratch) /\ Dooming(op, disk.shelf, doomed)
           /\ Allowed(op, schedule, clock)
  <1>1. op # Idle
    BY DEF At, Idle
  <1>2. QED BY <1>1 DEF IInv, OpInv, At, Ops

\* What a directory is.
LEMMA GivenDisk ==
    ASSUME IInv
    PROVE  /\ disk \in Disk /\ disk \in survivors /\ survivors \subseteq Disk
           /\ disk.notes \in [Notes -> Texts \union {Nothing}]
           /\ disk.trash \in [Notes -> Texts \union {Nothing}]
           /\ disk.pictures \subseteq Notes /\ disk.committed \in 0..Keep
           /\ disk.dated \in [Notes -> Dates]
           /\ disk.shelf \subseteq Snapshot /\ Pictured(disk) /\ ShelfInv(disk.shelf)
           /\ faults \in 0..MaxFaults /\ clock \in Time /\ begun \in 0..MaxOps
           /\ scratch \subseteq Snapshot /\ doomed \subseteq Names
  BY DEF IInv, TypeOK, Disk, DisksHold, ShelfInv

LEMMA PagesAre ==
    ASSUME NEW d \in Disk, NEW n \in Notes
    PROVE  PageOf(d, n) \in Pages
  <1>1. d.notes[n] \in Texts \union {Nothing} /\ d.trash[n] \in Texts \union {Nothing}
    BY DEF Disk
  <1>2. QED BY <1>1 DEF PageOf, Pages

\* A call that changes a directory.
LEMMA ChangingKeepsDisks ==
    ASSUME IInv, NEW e \in Disk, Pictured(e), ShelfInv(e.shelf), Change(e)
    PROVE  DisksHold' /\ disk' \in Disk /\ survivors' \subseteq Disk /\ disk' \in survivors'
           /\ disk' = e /\ survivors' = survivors \union {e}
  <1>1. disk' = e /\ survivors' = survivors \union {e}
    BY DEF Change
  <1>2. QED BY <1>1, GivenDisk DEF IInv, DisksHold

\* A sync hardens, or is a fault.
LEMMA SyncKeepsDisks ==
    ASSUME IInv, Sync
    PROVE  /\ DisksHold' /\ disk' = disk /\ disk' \in survivors' /\ survivors' \subseteq Disk
           /\ faults' \in 0..MaxFaults /\ faults' >= faults
           /\ faults' = faults => Hardened(disk, survivors')
  <1>1. disk' = disk /\ survivors' \in {survivors, {disk}}
    BY DEF Sync, Keeps
  <1>2. faults' \in 0..MaxFaults /\ faults' >= faults /\ (faults' = faults => survivors' = {disk})
    BY GivenDisk, SpansAssumption DEF Sync, Fault, NoFault
  <1>3. QED BY <1>1, <1>2, GivenDisk DEF IInv, DisksHold, Hardened

LEMMA FaultsGrow ==
    ASSUME IInv
    PROVE  /\ Fault => faults' \in 0..MaxFaults /\ faults' = faults + 1 /\ faults' >= faults
           /\ NoFault => faults' \in 0..MaxFaults /\ faults' = faults /\ faults' >= faults
  BY GivenDisk, SpansAssumption DEF Fault, NoFault

\* The parts of the invariant, after a step of an operation.
LEMMA IInvFromParts ==
    ASSUME IInv, op' \in Ops,
           disk' \in Disk, survivors' \subseteq Disk, disk' \in survivors', scratch' \subseteq Snapshot,
           doomed' \subseteq Names,
           schedule' \in [loaded: BOOLEAN, success: Time \union {Nothing},
                          attempt: Time \union {Nothing}],
           clock' = clock, faults' \in 0..MaxFaults, begun' = begun,
           DisksHold', SuccessIsDated',
           Asked(op, disk)', Committed(op, disk)', Synced(op, faults, disk, survivors)',
           Making(op, disk, scratch)', Dooming(op, disk.shelf, doomed)', Allowed(op, schedule, clock)'
    PROVE  IInv'
  <1>1. TypeOK'
    BY DEF IInv, TypeOK, Ops
  <1>2. QED BY <1>1 DEF IInv, OpInv

-----------------------------------------------------------------------------
(* Backups                                                                 *)

Schedules == [loaded: BOOLEAN, success: Time \union {Nothing}, attempt: Time \union {Nothing}]

\* What is read from the disk is the date of a backup: the newest is whole.
LEMMA LoadedIsDated ==
    ASSUME IInv
    PROVE  /\ schedule \in Schedules /\ Loaded \in Schedules
           /\ Loaded.attempt = schedule.attempt
           /\ Loaded.success # Nothing => Dated(disk.shelf, Loaded.success)
  <1>1. schedule \in Schedules
    BY DEF IInv, TypeOK, Schedules
  <1>2. LastSnapshotTime(disk) \in Time \union {Nothing}
        /\ (LastSnapshotTime(disk) # Nothing => Dated(disk.shelf, LastSnapshotTime(disk)))
    <2>1. CASE Listed(disk) = {}
      BY <2>1 DEF LastSnapshotTime
    <2>2. CASE Listed(disk) # {}
      <3>1. Listed(disk) \in SUBSET Snapshot /\ \A s, t \in Listed(disk) : s.name = t.name => s = t
        BY GivenDisk DEF Listed, ShelfInv
      <3> DEFINE s == CHOOSE s \in Listed(disk) : \A t \in Listed(disk) \ {s} : Older(t, s)
      <3>2. s \in Listed(disk) /\ \A t \in Listed(disk) \ {s} : Older(t, s)
        BY <2>2, <3>1, NewestSnapshot
      <3>3. LastSnapshotTime(disk) = s.name[1]
        BY <2>2 DEF LastSnapshotTime
      <3> HIDE DEF s
      <3>4. s \in disk.shelf /\ s.sealed /\ s \in Snapshot /\ s.name[1] \in Time
        BY <3>1, <3>2, RanksOrder DEF Listed
      <3>5. s.whole
        <4>1. Above(disk.shelf, s) = {}
          <5>1. ASSUME NEW t \in Above(disk.shelf, s)
                PROVE  FALSE
            <6>1. t \in Listed(disk) /\ t \in Snapshot /\ Older(s, t)
              BY <3>1 DEF Above, Listed
            <6>2. t # s /\ ~Older(t, s)
              BY <3>4, <6>1, OlderIsAnOrder
            <6>3. QED BY <3>2, <6>1, <6>2
          <5>2. QED BY <5>1
        <4>2. ~Excessive(disk.shelf, s)
          BY <4>1, FS_EmptySet, SpansAssumption DEF Excessive
        <4>3. QED BY <3>4, <4>2, GivenDisk DEF ShelfInv
      <3>6. s.name[1] \in Int
        BY <3>4, SpansAssumption DEF Time
      <3>7. s \in Since(disk.shelf, s.name[1])
        BY <3>4, <3>5, <3>6 DEF Since
      <3>8. QED BY <3>3, <3>4, <3>7 DEF Dated
    <2>3. QED BY <2>1, <2>2
  <1>3. CASE schedule.loaded
    BY <1>1, <1>3 DEF Loaded, IInv, SuccessIsDated
  <1>4. CASE ~schedule.loaded
    <2>1. Loaded = [schedule EXCEPT !.loaded = TRUE, !.success = LastSnapshotTime(disk)]
      BY <1>4 DEF Loaded
    <2>2. QED BY <1>1, <1>2, <2>1 DEF Schedules
  <1>5. QED BY <1>1, <1>3, <1>4

LEMMA BackUpKeepsIInv ==
    ASSUME IInv, BackUpBeforeMutation
    PROVE  IInv'
  <1> DEFINE step == IF Past(Loaded.success, Interval) /\ Past(Loaded.attempt, Retry)
                     THEN "sweep" ELSE "commit"
  <1>1. /\ At("due") /\ schedule' = Loaded /\ op' = [op EXCEPT !.step = step]
        /\ UNCHANGED <<disk, survivors, clock, begun, faults, scratch, doomed>>
    BY DEF BackUpBeforeMutation, Go, Keeps, Quiet, NoFault
  <1>2. step \in {"sweep", "commit"} /\ step \in Steps
    BY DEF Steps
  <1>3. step = "commit" => \/ Loaded.success # Nothing /\ clock - Loaded.success < Interval
                           \/ Loaded.attempt # Nothing /\ clock - Loaded.attempt < Retry
    <2>1. clock \in Int /\ Interval \in Int /\ Retry \in Int /\ Time \subseteq Int
      BY GivenDisk, SpansAssumption DEF Time
    <2>2. Loaded.success \in Int \union {Nothing} /\ Loaded.attempt \in Int \union {Nothing}
      BY <2>1, LoadedIsDated DEF Schedules
    <2>3. QED BY <2>1, <2>2 DEF Past
  <1> HIDE DEF step
  <1>4. /\ op' \in Ops /\ op'.step = step /\ op'.kind = op.kind /\ op'.note = op.note
        /\ op'.text = op.text /\ op'.now = op.now /\ op'.before = op.before /\ op'.after = op.after
        /\ op.kind \in {"create", "save", "discard"} /\ op.step = "due"
    <2>1. op \in Ops /\ op.step = "due" /\ op.kind \in {"create", "save", "discard"}
      BY <1>1, AtStep DEF Asked
    <2>2. QED BY <1>1, <1>2, <2>1, Going
  <1>5. Asked(op, disk)'
    BY <1>1, <1>2, <1>4, AtStep DEF Asked
  <1>6. Committed(op, disk)'
    BY <1>1, <1>2, <1>4, AtStep DEF Committed, Preparing, PageOf
  <1>7. Synced(op, faults, disk, survivors)' /\ Making(op, disk, scratch)'
        /\ Dooming(op, disk.shelf, doomed)'
    BY <1>1, <1>2, <1>4, AtStep DEF Synced, Making, Dooming
  <1>8. Allowed(op, schedule, clock)'
    BY <1>1, <1>3, <1>4, AtStep DEF Allowed
  <1>9. DisksHold' /\ SuccessIsDated'
    BY <1>1, LoadedIsDated DEF IInv, DisksHold, SuccessIsDated
  <1>10. schedule' \in Schedules
    BY <1>1, LoadedIsDated
  <1>11. QED
    BY <1>1, <1>4, <1>5, <1>6, <1>7, <1>8, <1>9, <1>10, GivenDisk, IInvFromParts DEF Schedules

LEMMA SweepKeepsIInv ==
    ASSUME IInv, SweepScratch
    PROVE  IInv'
  <1>1. /\ At("sweep") /\ op' = [op EXCEPT !.step = "copy"] /\ scratch' \in {{}, scratch}
        /\ UNCHANGED <<disk, survivors, clock, begun, doomed, schedule>>
    BY DEF SweepScratch, Go, Keeps, Quiet, NoFault
  <1>2. "copy" \in Steps
    BY DEF Steps
  <1>3. /\ op' \in Ops /\ op'.step = "copy" /\ op'.kind = op.kind /\ op'.note = op.note
        /\ op'.text = op.text /\ op'.now = op.now /\ op'.before = op.before /\ op'.after = op.after
        /\ op.step = "sweep"
    BY <1>1, <1>2, AtStep, Going
  <1>4. faults' \in 0..MaxFaults /\ faults' >= faults
    BY FaultsGrow, GivenDisk, SpansAssumption DEF SweepScratch
  <1>5. Asked(op, disk)' /\ Making(op, disk, scratch)' /\ Dooming(op, disk.shelf, doomed)'
        /\ Allowed(op, schedule, clock)'
    BY <1>1, <1>3, AtStep DEF Asked, Making, Dooming, Allowed
  <1>6. Synced(op, faults, disk, survivors)'
    <2>1. op \in Ops /\ Synced(op, faults, disk, survivors)
      BY <1>1, AtStep
    <2>2. op.after \in Int /\ faults \in Int /\ faults' \in Int
      BY <1>4, <2>1, GivenDisk, SpansAssumption DEF Ops
    <2>3. QED BY <1>3, <1>4, <2>1, <2>2 DEF Synced
  <1>7. Committed(op, disk)'
    BY <1>1, <1>3, AtStep DEF Committed, Preparing, PageOf
  <1>8. DisksHold' /\ SuccessIsDated' /\ schedule' \in Schedules
    BY <1>1, LoadedIsDated DEF IInv, DisksHold, SuccessIsDated
  <1>9. scratch' \subseteq Snapshot
    BY <1>1, GivenDisk
  <1>10. QED
    BY <1>1, <1>3, <1>4, <1>5, <1>6, <1>7, <1>8, <1>9, GivenDisk, IInvFromParts DEF Schedules

LEMMA BuildKeepsIInv ==
    ASSUME IInv, BuildSnapshot
    PROVE  IInv'
  <1>1. /\ At("copy") /\ op' = [op EXCEPT !.step = "shelve"]
        /\ UNCHANGED <<disk, survivors, clock, begun, faults, doomed, schedule>>
    BY DEF BuildSnapshot, Go, Keeps, Quiet, NoFault
  <1>2. PICK i \in FreeNames :
          scratch' = {[name |-> <<op.now, i>>, notes |-> disk.notes, trash |-> disk.trash,
                       pictures |-> disk.pictures, sealed |-> TRUE, whole |-> TRUE]}
    BY DEF BuildSnapshot
  <1>3. "shelve" \in Steps
    BY DEF Steps
  <1>4. /\ op' \in Ops /\ op'.step = "shelve" /\ op'.kind = op.kind /\ op'.note = op.note
        /\ op'.text = op.text /\ op'.now = op.now /\ op'.before = op.before /\ op'.after = op.after
        /\ op.step = "copy" /\ op.now \in Time
    BY <1>1, <1>3, AtStep, Going DEF Ops
  <1>5. Asked(op, disk)' /\ Synced(op, faults, disk, survivors)'
        /\ Dooming(op, disk.shelf, doomed)' /\ Allowed(op, schedule, clock)'
    BY <1>1, <1>4, AtStep DEF Asked, Synced, Dooming, Allowed
  <1>6. Committed(op, disk)'
    BY <1>1, <1>4, AtStep DEF Committed, Preparing, PageOf
  <1> DEFINE s == [name |-> <<op.now, i>>, notes |-> disk.notes, trash |-> disk.trash,
                   pictures |-> disk.pictures, sealed |-> TRUE, whole |-> TRUE]
  <1>7. s \in Snapshot /\ IsOf(s, disk, op.now) /\ s.pictures = disk.pictures
        /\ \A t \in disk.shelf : t.name # s.name
    <2>1. <<op.now, i>> \in Names
      BY <1>4 DEF Names, FreeNames
    <2>2. \A t \in disk.shelf : t.name # <<op.now, i>>
      BY DEF FreeNames
    <2>3. s \in Snapshot
      BY <2>1, GivenDisk DEF Snapshot
    <2>4. QED BY <2>2, <2>3 DEF IsOf
  <1>8. scratch' = {s}
    BY <1>2
  <1> HIDE DEF s
  <1>9. Making(op, disk, scratch)'
    BY <1>1, <1>4, <1>7, <1>8 DEF Making
  <1>10. DisksHold' /\ SuccessIsDated' /\ schedule' \in Schedules
    BY <1>1, LoadedIsDated DEF IInv, DisksHold, SuccessIsDated
  <1>11. scratch' \subseteq Snapshot
    BY <1>7, <1>8
  <1>12. QED
    BY <1>1, <1>4, <1>5, <1>6, <1>9, <1>10, <1>11, GivenDisk, IInvFromParts DEF Schedules

\* An attempt at a backup is recorded, and the operation goes on.
LEMMA RecordedKeepsIInv ==
    ASSUME IInv, NEW ok \in BOOLEAN, Recorded(ok), op \in Ops, op # Idle,
           op.step \in {"copy", "shelve", "retain", "gut", "remove"},
           disk' \in Disk, survivors' \subseteq Disk, disk' \in survivors', scratch' \subseteq Snapshot,
           doomed' \subseteq Names, clock' = clock, begun' = begun,
           faults' \in 0..MaxFaults, faults' >= faults,
           DisksHold',
           \A n \in Notes : PageOf(disk', n) = PageOf(disk, n), disk'.pictures = disk.pictures,
           \A time \in Int : Dated(disk.shelf, time) => Dated(disk'.shelf, time),
           ok => /\ Dated(disk'.shelf, op.now)
                 /\ op.after = faults' => Hardened(disk', survivors')
                 /\ \/ \E s \in disk'.shelf : IsOf(s, disk', op.now)
                    \/ Cardinality(Since(disk'.shelf, op.now)) >= Keep
    PROVE  IInv'
  <1>1. /\ schedule' = [loaded |-> TRUE, attempt |-> op.now,
                        success |-> IF ok THEN op.now ELSE schedule.success]
        /\ IF op.kind = "backup" THEN op' = [op EXCEPT !.step = "answer", !.ok = ok]
           ELSE op' = [op EXCEPT !.step = "commit"]
    BY DEF Recorded, Answer, Go
  <1>2. At(op.step)
    BY DEF At, Ops, Operations
  <1>3. /\ op.kind \in {"create", "save", "discard", "backup"} /\ op.now = clock
        /\ Asked(op, disk) /\ op.note \in Notes /\ op.now \in Time /\ op.after <= faults
        /\ PageOf(disk, op.note) = op.before
    BY <1>2, AtStep DEF Asked, Allowed, Ops, Committed, Preparing, Synced
  <1>4. schedule \in Schedules /\ schedule' \in Schedules /\ schedule'.attempt = op.now
        /\ schedule'.success = (IF ok THEN op.now ELSE schedule.success)
    BY <1>1, <1>3, LoadedIsDated DEF Schedules
  <1>5. SuccessIsDated'
    <2>1. schedule.success \in Int \union {Nothing}
      BY <1>4, SpansAssumption DEF Schedules, Time
    <2>2. QED BY <1>4, <2>1 DEF IInv, SuccessIsDated
  <1>6. op.after \in 0..MaxFaults /\ faults \in 0..MaxFaults
    BY GivenDisk DEF Ops
  <1>7. CASE op.kind = "backup"
    <2>1. /\ op' \in Ops /\ op'.step = "answer" /\ op'.kind = op.kind /\ op'.note = op.note
          /\ op'.text = op.text /\ op'.now = op.now /\ op'.before = op.before
          /\ op'.after = op.after /\ op'.ok = ok /\ Result(op') = Result(op)
      <3>1. op' = [op EXCEPT !.step = "answer", !.ok = ok]
        BY <1>1, <1>7
      <3>2. QED BY <3>1 DEF Ops, Result, Steps
    <2>2. Asked(op, disk)' /\ Dooming(op, disk.shelf, doomed)' /\ Allowed(op, schedule, clock)'
      BY <1>3, <1>7, <2>1 DEF Asked, Dooming, Allowed
    <2>3. Committed(op, disk)'
      BY <1>3, <1>7, <2>1 DEF Committed, Result
    <2>4. Synced(op, faults, disk, survivors)'
      BY <1>3, <1>6, <2>1, SpansAssumption DEF Synced
    <2>5. Making(op, disk, scratch)'
      BY <2>1 DEF Making
    <2>6. QED BY <1>4, <1>5, <2>1, <2>2, <2>3, <2>4, <2>5, IInvFromParts DEF Schedules
  <1>8. CASE op.kind # "backup"
    <2>1. "commit" \in Steps
      BY DEF Steps
    <2>2. /\ op' \in Ops /\ op'.step = "commit" /\ op'.kind = op.kind /\ op'.note = op.note
          /\ op'.text = op.text /\ op'.now = op.now /\ op'.before = op.before
          /\ op'.after = op.after
      BY <1>1, <1>8, <2>1, Going
    <2>3. Asked(op, disk)' /\ Dooming(op, disk.shelf, doomed)' /\ Making(op, disk, scratch)'
      BY <1>3, <1>8, <2>2 DEF Asked, Dooming, Making
    <2>4. Committed(op, disk)'
      BY <1>3, <2>2 DEF Committed, Preparing
    <2>5. Synced(op, faults, disk, survivors)'
      BY <1>3, <1>6, <2>2, SpansAssumption DEF Synced
    <2>6. Allowed(op, schedule, clock)'
      <3>1. schedule'.attempt # Nothing /\ clock - schedule'.attempt < Retry
        BY <1>3, <1>4, SpansAssumption, NothingAssumption DEF Time
      <3>2. QED BY <1>3, <2>2, <3>1 DEF Allowed
    <2>7. QED BY <1>4, <1>5, <2>2, <2>3, <2>4, <2>5, <2>6, IInvFromParts DEF Schedules
  <1>9. QED BY <1>7, <1>8

\* The shelf changes, and the backup goes on.
LEMMA ShelfStepKeepsIInv ==
    ASSUME IInv, NEW step \in {"sync shelf", "retain", "gut", "remove"}, Go(step), op \in Ops, op # Idle,
           op.step \in {"shelve", "sync shelf", "retain", "gut", "remove"},
           disk' \in Disk, survivors' \subseteq Disk, disk' \in survivors', scratch' \subseteq Snapshot,
           doomed' \subseteq Names, schedule' = schedule, clock' = clock, begun' = begun,
           faults' \in 0..MaxFaults, faults' >= faults,
           DisksHold',
           \A n \in Notes : PageOf(disk', n) = PageOf(disk, n), disk'.pictures = disk.pictures,
           \A time \in Int : Dated(disk.shelf, time) => Dated(disk'.shelf, time),
           \/ \E s \in disk'.shelf : IsOf(s, disk', op.now)
           \/ Cardinality(Since(disk'.shelf, op.now)) >= Keep,
           step # "sync shelf" /\ op.after = faults' => Hardened(disk', survivors'),
           step \in {"gut", "remove"} =>
             /\ doomed' # {}
             /\ \A name \in doomed' : \E s \in disk'.shelf : s.name = name /\ Excessive(disk'.shelf, s)
    PROVE  IInv'
  <1>1. op' = [op EXCEPT !.step = step] /\ step \in Steps
    BY DEF Go, Steps
  <1>2. /\ op' \in Ops /\ op'.step = step /\ op'.kind = op.kind /\ op'.note = op.note
        /\ op'.text = op.text /\ op'.now = op.now /\ op'.before = op.before /\ op'.after = op.after
    BY <1>1 DEF Ops
  <1>3. At(op.step)
    BY DEF At, Ops, Operations
  <1>4. /\ op.kind \in {"create", "save", "discard", "backup"} /\ op.now = clock
        /\ Asked(op, disk) /\ op.note \in Notes /\ op.after <= faults
        /\ PageOf(disk, op.note) = op.before
    BY <1>3, AtStep DEF Asked, Allowed, Committed, Preparing, Synced
  <1>5. op.after \in 0..MaxFaults /\ faults \in 0..MaxFaults
    BY GivenDisk DEF Ops
  <1>6. Asked(op, disk)' /\ Making(op, disk, scratch)' /\ Allowed(op, schedule, clock)'
    BY <1>2, <1>4 DEF Asked, Making, Allowed
  <1>7. Dooming(op, disk.shelf, doomed)'
    BY <1>2 DEF Dooming
  <1>8. Committed(op, disk)'
    BY <1>2, <1>4 DEF Committed, Preparing
  <1>9. Synced(op, faults, disk, survivors)'
    <2>1. op.after <= faults'
      BY <1>4, <1>5, Numbers
    <2>2. step # "answer" /\ step # "sync trash"
      OBVIOUS
    <2>3. QED BY <1>2, <2>1, <2>2 DEF Synced
  <1>10. SuccessIsDated' /\ schedule' \in Schedules
    <2>1. schedule \in Schedules
      BY LoadedIsDated
    <2>2. schedule.success \in Int \union {Nothing}
      BY <2>1, Numbers DEF Schedules
    <2>3. QED BY <2>1, <2>2 DEF IInv, SuccessIsDated
  <1>11. QED
    BY <1>2, <1>6, <1>7, <1>8, <1>9, <1>10, IInvFromParts DEF Schedules

LEMMA SnapshotFailsKeepsIInv ==
    ASSUME IInv, SnapshotFails
    PROVE  IInv'
  <1>1. /\ UNCHANGED <<disk, survivors, clock, begun, doomed>>
        /\ scratch' \in {{}, scratch} /\ Recorded(FALSE)
    BY DEF SnapshotFails, Keeps, Quiet
  <1>2. op \in Ops /\ op # Idle /\ op.step \in {"copy", "shelve"}
    BY AtStep DEF SnapshotFails
  <1>3. faults' \in 0..MaxFaults /\ faults' >= faults
    BY FaultsGrow, GivenDisk, SpansAssumption DEF SnapshotFails
  <1>4. DisksHold'
    BY <1>1 DEF IInv, DisksHold
  <1>5. disk' \in Disk /\ survivors' \subseteq Disk /\ disk' \in survivors' /\ scratch' \subseteq Snapshot
        /\ doomed' \subseteq Names
    BY <1>1, GivenDisk
  <1>6. \A n \in Notes : PageOf(disk', n) = PageOf(disk, n)
    BY <1>1
  <1>7. QED BY <1>1, <1>2, <1>3, <1>4, <1>5, <1>6, RecordedKeepsIInv

\* Only the shelf of a directory is replaced.
LEMMA Reshelving ==
    ASSUME NEW d \in Disk, Pictured(d), NEW shelf \in SUBSET Snapshot, NEW count \in 0..Keep,
           NEW e, e = [d EXCEPT !.shelf = shelf, !.committed = count]
    PROVE  /\ e \in Disk /\ Pictured(e) /\ e.shelf = shelf /\ e.committed = count
           /\ e.pictures = d.pictures /\ e.notes = d.notes /\ e.trash = d.trash
           /\ \A n : PageOf(e, n) = PageOf(d, n)
           /\ \A s, time : IsOf(s, e, time) <=> IsOf(s, d, time)
  <1>1. /\ e \in Disk /\ e.shelf = shelf /\ e.committed = count
        /\ e.pictures = d.pictures /\ e.notes = d.notes /\ e.trash = d.trash
    BY DEF Disk
  <1>2. QED BY <1>1 DEF Pictured, PageOf, IsOf

LEMMA ShelveKeepsIInv ==
    ASSUME IInv, ShelveSnapshot
    PROVE  IInv'
  <1> DEFINE shelf == disk.shelf \union scratch
             count == IF disk.committed = Keep THEN Keep ELSE disk.committed + 1
             e == [disk EXCEPT !.shelf = shelf, !.committed = count]
  <1>1. /\ At("shelve") /\ scratch' = {} /\ Change(e) /\ Go("sync shelf")
        /\ UNCHANGED <<clock, begun, faults, doomed, schedule>>
    <2>1. Change([disk EXCEPT !.shelf = disk.shelf \union scratch,
                              !.committed = IF disk.committed = Keep THEN Keep
                                            ELSE disk.committed + 1])
      BY DEF ShelveSnapshot
    <2>2. QED BY <2>1 DEF ShelveSnapshot, Quiet, NoFault
  <1>2. PICK s \in Snapshot : /\ scratch = {s} /\ IsOf(s, disk, op.now) /\ s.pictures = disk.pictures
                              /\ \A t \in disk.shelf : t.name # s.name
    BY <1>1, AtStep DEF Making
  <1>3. Pictured(s)
    BY <1>2, GivenDisk DEF IsOf, Pictured
  <1>4. ShelfInv(shelf) /\ \A time : Dated(disk.shelf, time) => Dated(shelf, time)
    BY <1>2, <1>3, GivenDisk, ShelvingKeepsShelf DEF IsOf
  <1>5. count \in 0..Keep
    BY GivenDisk, SpansAssumption
  <1>6. shelf \in SUBSET Snapshot /\ s \in shelf
    BY <1>2, GivenDisk
  <1> HIDE DEF shelf, count
  <1>e. e = [disk EXCEPT !.shelf = shelf, !.committed = count]
    OBVIOUS
  <1>d. disk \in Disk /\ Pictured(disk)
    BY GivenDisk
  <1> HIDE DEF e
  <1>7. /\ e \in Disk /\ Pictured(e) /\ e.shelf = shelf /\ e.pictures = disk.pictures
        /\ \A n : PageOf(e, n) = PageOf(disk, n)
        /\ \A t, time : IsOf(t, e, time) <=> IsOf(t, disk, time)
    <2>1. /\ e \in Disk /\ e.shelf = shelf /\ e.pictures = disk.pictures
          /\ e.notes = disk.notes /\ e.trash = disk.trash
      BY <1>5, <1>6, <1>d, <1>e DEF Disk
    <2>2. QED BY <1>d, <2>1 DEF Pictured, PageOf, IsOf
  <1>8. DisksHold' /\ disk' \in Disk /\ survivors' \subseteq Disk /\ disk' \in survivors' /\ disk' = e
    BY <1>1, <1>4, <1>7, ChangingKeepsDisks
  <1>9. \E t \in disk'.shelf : IsOf(t, disk', op.now)
    BY <1>2, <1>6, <1>7, <1>8
  <1>10. op \in Ops /\ op # Idle /\ op.step = "shelve"
    BY <1>1, AtStep
  <1>11. faults' \in 0..MaxFaults /\ faults' >= faults
    <2>1. faults \in 0..MaxFaults /\ faults' = faults
      BY <1>1, GivenDisk
    <2>2. QED BY <2>1, SpansAssumption
  <1>12. scratch' \subseteq Snapshot /\ doomed' \subseteq Names
    BY <1>1, GivenDisk
  <1>13. QED
    BY <1>1, <1>4, <1>7, <1>8, <1>9, <1>10, <1>11, <1>12, ShelfStepKeepsIInv

LEMMA SyncShelfKeepsIInv ==
    ASSUME IInv, SyncShelf
    PROVE  IInv'
  <1>1. /\ At("sync shelf") /\ Sync /\ Go("retain")
        /\ UNCHANGED <<clock, begun, scratch, doomed, schedule>>
    BY DEF SyncShelf, Quiet, backups
  <1>2. /\ DisksHold' /\ disk' = disk /\ disk' \in survivors' /\ survivors' \subseteq Disk
        /\ faults' \in 0..MaxFaults /\ faults' >= faults /\ op.after <= faults
        /\ faults' = faults => Hardened(disk, survivors')
    BY <1>1, SyncKeepsDisks, AtStep DEF Synced
  <1>3. /\ op \in Ops /\ op # Idle /\ op.step = "sync shelf"
        /\ \/ \E s \in disk.shelf : IsOf(s, disk, op.now)
           \/ Cardinality(Since(disk.shelf, op.now)) >= Keep
    <2>1. op \in Ops /\ op # Idle /\ op.step = "sync shelf" /\ Making(op, disk, scratch)
      BY <1>1, AtStep
    <2>2. QED BY <2>1 DEF Making
  <1>4. op.after = faults' => Hardened(disk', survivors')
    <2>1. op.after \in 0..MaxFaults /\ faults \in 0..MaxFaults
      BY <1>3, GivenDisk DEF Ops
    <2>2. op.after = faults' => faults' = faults
      BY <1>2, <2>1, SpansAssumption
    <2>3. QED BY <1>2, <2>2
  <1>5. scratch' \subseteq Snapshot /\ doomed' \subseteq Names /\ disk' \in Disk
    BY <1>1, <1>2, GivenDisk
  <1>6. \A n \in Notes : PageOf(disk', n) = PageOf(disk, n)
    BY <1>2
  <1>7. QED BY <1>1, <1>2, <1>3, <1>4, <1>5, <1>6, ShelfStepKeepsIInv

\* What was made for this backup: it is on the shelf, or Keep others are.
Made(d, time) ==
  \/ \E s \in d.shelf : IsOf(s, d, time)
  \/ Cardinality(Since(d.shelf, time)) >= Keep

LEMMA MadeIsDated ==
    ASSUME NEW d \in Disk, NEW time \in Int, Made(d, time)
    PROVE  Dated(d.shelf, time)
  <1>1. CASE \E s \in d.shelf : IsOf(s, d, time)
    <2>1. PICK s \in d.shelf : IsOf(s, d, time)
      BY <1>1
    <2>2. s \in Since(d.shelf, time)
      BY <2>1 DEF IsOf, Since
    <2>3. QED BY <2>2 DEF Dated
  <1>2. CASE Cardinality(Since(d.shelf, time)) >= Keep
    <2>1. Since(d.shelf, time) # {}
      BY <1>2, FS_EmptySet, SpansAssumption
    <2>2. QED BY <2>1 DEF Dated
  <1>3. QED BY <1>1, <1>2 DEF Made

\* An operation whose backup is being tidied up.
LEMMA Tidying ==
    ASSUME IInv, NEW step \in {"retain", "gut", "remove"}, At(step)
    PROVE  /\ op \in Ops /\ op # Idle /\ op.step = step /\ op.now \in Int
           /\ op.step \in {"copy", "shelve", "retain", "gut", "remove"}
           /\ op.step \in {"shelve", "sync shelf", "retain", "gut", "remove"}
           /\ Made(disk, op.now) /\ Dated(disk.shelf, op.now)
           /\ op.after \in 0..MaxFaults /\ op.after <= faults
           /\ op.after = faults => Hardened(disk, survivors)
  <1>1. op \in Ops /\ op # Idle /\ op.step = step /\ op.now \in Int /\ op.after \in 0..MaxFaults
    BY AtStep, Numbers DEF Ops
  <1>2. Made(disk, op.now)
    BY <1>1, AtStep DEF Making, Made
  <1>3. op.after <= faults /\ (op.after = faults => Hardened(disk, survivors))
    BY <1>1, AtStep DEF Synced
  <1>4. QED BY <1>1, <1>2, <1>3, GivenDisk, MadeIsDated

LEMMA RetainKeepsIInv ==
    ASSUME IInv, Retain
    PROVE  IInv'
  <1>1. /\ At("retain") /\ doomed' = {s.name : s \in Excess(disk)}
        /\ IF doomed' = {} THEN Recorded(TRUE) ELSE Go("gut") /\ UNCHANGED schedule
        /\ UNCHANGED <<disk, survivors, clock, begun, faults, scratch>>
    BY DEF Retain, Keeps, Quiet, NoFault
  <1>2. \A s \in Excess(disk) : s \in disk.shelf /\ Excessive(disk.shelf, s)
    <2>1. \A s : {t \in Listed(disk) : Older(s, t)} = Above(disk.shelf, s)
      BY DEF Listed, Above
    <2>2. QED BY <2>1 DEF Excess, Listed, Excessive
  <1>3. doomed' \subseteq Names
    BY <1>1, <1>2, GivenDisk, RanksOrder
  <1>4. DisksHold' /\ disk' \in Disk /\ survivors' \subseteq Disk /\ disk' \in survivors'
        /\ scratch' \subseteq Snapshot
    BY <1>1, GivenDisk DEF IInv, DisksHold
  <1>5. faults' \in 0..MaxFaults /\ faults' >= faults
    BY <1>1, GivenDisk, Numbers
  <1>6. \A n \in Notes : PageOf(disk', n) = PageOf(disk, n)
    BY <1>1
  <1>7. Made(disk', op.now) /\ Dated(disk'.shelf, op.now)
        /\ (op.after = faults' => Hardened(disk', survivors'))
    BY <1>1, Tidying
  <1>8. /\ op \in Ops /\ op # Idle /\ op.step \in {"copy", "shelve", "retain", "gut", "remove"}
        /\ op.step \in {"shelve", "sync shelf", "retain", "gut", "remove"}
    BY <1>1, Tidying
  <1>9. CASE doomed' = {}
    BY <1>1, <1>3, <1>4, <1>5, <1>6, <1>7, <1>8, <1>9, RecordedKeepsIInv DEF Made
  <1>10. CASE doomed' # {}
    <2>1. \A name \in doomed' : \E s \in disk'.shelf : s.name = name /\ Excessive(disk'.shelf, s)
      BY <1>1, <1>2
    <2>2. QED
      BY <1>1, <1>3, <1>4, <1>5, <1>6, <1>7, <1>8, <1>10, <2>1, ShelfStepKeepsIInv DEF Made
  <1>11. QED BY <1>9, <1>10

\* The next to be removed is there, and in excess.
LEMMA NextDoomedIs ==
    ASSUME IInv, NEW step \in {"gut", "remove"}, At(step)
    PROVE  /\ NextDoomed \in disk.shelf /\ NextDoomed.name \in doomed
           /\ Excessive(disk.shelf, NextDoomed)
  <1>1. doomed # {} /\ \A name \in doomed :
                         \E s \in disk.shelf : s.name = name /\ Excessive(disk.shelf, s)
    BY AtStep DEF Dooming
  <1> DEFINE S == {s \in disk.shelf : s.name \in doomed}
  <1>2. S # {} /\ S \in SUBSET Snapshot /\ \A s, t \in S : s.name = t.name => s = t
    BY <1>1, GivenDisk DEF ShelfInv
  <1>3. \E s \in disk.shelf :
          /\ s.name \in doomed
          /\ \A t \in disk.shelf : t.name \in doomed /\ t # s => Older(s, t)
    <2>1. PICK s \in S : \A t \in S \ {s} : Older(s, t)
      BY <1>2, OldestSnapshot
    <2>2. QED BY <2>1
  <1>4. NextDoomed \in disk.shelf /\ NextDoomed.name \in doomed
    BY <1>3 DEF NextDoomed
  <1>5. Excessive(disk.shelf, NextDoomed)
    BY <1>1, <1>4, GivenDisk DEF ShelfInv
  <1>6. QED BY <1>4, <1>5

\* The directory, once its shelf is thinned.
LEMMA ThinningKeepsDisk ==
    ASSUME IInv, NEW shelf, Thinned(disk.shelf, shelf), NEW x \in disk.shelf,
           disk.shelf \ {x} \subseteq shelf,
           \A time \in Int : x.name[1] >= time => Cardinality(Since(shelf, time)) >= Keep,
           NEW e, e = [disk EXCEPT !.shelf = shelf]
    PROVE  /\ e \in Disk /\ Pictured(e) /\ e.shelf = shelf /\ ShelfInv(e.shelf)
           /\ e.pictures = disk.pictures /\ e.committed = disk.committed
           /\ \A n \in Notes : PageOf(e, n) = PageOf(disk, n)
           /\ \A time \in Int : Dated(disk.shelf, time) => Dated(e.shelf, time)
           /\ \A time \in Int : Made(disk, time) => Made(e, time)
  <1>1. shelf \subseteq Snapshot /\ ShelfInv(shelf)
    BY DEF Thinned, ShelfInv
  <1>2. /\ e \in Disk /\ e.shelf = shelf /\ e.pictures = disk.pictures
        /\ e.notes = disk.notes /\ e.trash = disk.trash /\ e.committed = disk.committed
    BY <1>1, GivenDisk DEF Disk
  <1>3. Pictured(e) /\ (\A n \in Notes : PageOf(e, n) = PageOf(disk, n))
        /\ \A s, time : IsOf(s, e, time) <=> IsOf(s, disk, time)
    BY <1>2, GivenDisk DEF Pictured, PageOf, IsOf
  <1>4. ASSUME NEW time \in Int, Made(disk, time)
        PROVE  Made(e, time)
    <2>1. CASE \E s \in disk.shelf : IsOf(s, disk, time)
      <3>1. PICK s \in disk.shelf : IsOf(s, disk, time)
        BY <2>1
      <3>2. CASE s = x
        <4>1. x.name[1] >= time
          BY <3>1, <3>2 DEF IsOf
        <4>2. QED BY <1>2, <4>1 DEF Made
      <3>3. CASE s # x
        BY <1>2, <1>3, <3>1, <3>3 DEF Made
      <3>4. QED BY <3>2, <3>3
    <2>2. CASE Cardinality(Since(disk.shelf, time)) >= Keep
      BY <1>2, <2>2 DEF Made, Thinned
    <2>3. QED BY <1>4, <2>1, <2>2 DEF Made
  <1>5. \A time \in Int : Dated(disk.shelf, time) => Dated(e.shelf, time)
    BY <1>2 DEF Thinned
  <1>6. QED BY <1>1, <1>2, <1>3, <1>4, <1>5

\* A directory that shows the same is as hardened as it was.
LEMMA HardeningStays ==
    ASSUME IInv, NEW e, Change(e), Hardened(disk, survivors),
           \A n \in Notes : PageOf(e, n) = PageOf(disk, n), e.committed = disk.committed
    PROVE  Hardened(disk', survivors')
  BY DEF Change, Hardened

LEMMA GutKeepsIInv ==
    ASSUME IInv, Gut
    PROVE  IInv'
  <1> DEFINE x == NextDoomed
  <1>1. PICK manifest \in BOOLEAN :
          Change([disk EXCEPT !.shelf = (disk.shelf \ {x}) \union
                                          {[x EXCEPT !.whole = FALSE, !.sealed = manifest]}])
    BY DEF Gut
  <1>2. At("gut") /\ Go("remove") /\ UNCHANGED <<clock, begun, faults, scratch, doomed, schedule>>
    BY DEF Gut, Quiet, NoFault, backups
  <1>3. x \in disk.shelf /\ x.name \in doomed /\ Excessive(disk.shelf, x) /\ x \in Snapshot
    BY <1>2, NextDoomedIs, GivenDisk
  <1> HIDE DEF x
  <1> DEFINE y == [x EXCEPT !.whole = FALSE, !.sealed = manifest]
             shelf == (disk.shelf \ {x}) \union {y}
             e == [disk EXCEPT !.shelf = shelf]
  <1>4. /\ Thinned(disk.shelf, shelf) /\ y \in Snapshot /\ y.name = x.name
        /\ \A time \in Int : x.name[1] >= time => Cardinality(Since(shelf, time)) >= Keep
    <2>1. y = [x EXCEPT !.whole = FALSE, !.sealed = manifest]
      OBVIOUS
    <2> HIDE DEF y
    <2>2. ShelfInv(disk.shelf)
      BY GivenDisk
    <2>3. QED BY <1>3, <2>1, <2>2, GuttingThins
  <1>5. Change(e)
    BY <1>1
  <1> HIDE DEF y
  <1>6. disk.shelf \ {x} \subseteq shelf /\ y \in shelf
    OBVIOUS
  <1>7. \A s \in disk.shelf \ {x} : s \in shelf
    OBVIOUS
  <1> HIDE DEF shelf
  <1>e. e = [disk EXCEPT !.shelf = shelf]
    OBVIOUS
  <1> HIDE DEF e
  <1>8. /\ e \in Disk /\ Pictured(e) /\ e.shelf = shelf /\ ShelfInv(e.shelf)
        /\ e.pictures = disk.pictures /\ e.committed = disk.committed
        /\ \A n \in Notes : PageOf(e, n) = PageOf(disk, n)
        /\ \A time \in Int : Dated(disk.shelf, time) => Dated(e.shelf, time)
        /\ \A time \in Int : Made(disk, time) => Made(e, time)
    BY <1>3, <1>4, <1>6, <1>e, ThinningKeepsDisk
  <1>9. DisksHold' /\ disk' \in Disk /\ survivors' \subseteq Disk /\ disk' \in survivors' /\ disk' = e
    BY <1>5, <1>8, ChangingKeepsDisks
  <1>10. /\ op \in Ops /\ op # Idle /\ op.step = "gut" /\ op.now \in Int /\ Made(disk, op.now)
         /\ op.after = faults => Hardened(disk, survivors)
    BY <1>2, Tidying
  <1>11. Made(disk', op.now)
    BY <1>8, <1>9, <1>10
  <1>12. op.after = faults' => Hardened(disk', survivors')
    BY <1>2, <1>5, <1>8, <1>10, HardeningStays
  <1>13. \A name \in doomed' : \E s \in disk'.shelf : s.name = name /\ Excessive(disk'.shelf, s)
    <2>1. ASSUME NEW name \in doomed
          PROVE  \E s \in shelf : s.name = name /\ Excessive(shelf, s)
      <3>1. PICK s \in disk.shelf : s.name = name /\ Excessive(disk.shelf, s)
        BY <1>2, <2>1, AtStep DEF Dooming
      <3>2. Excessive(shelf, s)
        BY <1>4, <3>1, GivenDisk DEF Thinned
      <3>3. CASE s # x
        BY <1>7, <3>1, <3>2, <3>3
      <3>4. CASE s = x
        <4>1. Above(shelf, x) = Above(shelf, y)
          BY <1>4 DEF Above, Older
        <4>2. Excessive(shelf, y)
          BY <3>2, <3>4, <4>1 DEF Excessive
        <4>3. QED BY <1>4, <1>6, <3>1, <3>4, <4>2
      <3>5. QED BY <3>3, <3>4
    <2>2. QED BY <1>2, <1>8, <1>9, <2>1
  <1>14. doomed' # {} /\ doomed' \subseteq Names /\ scratch' \subseteq Snapshot
         /\ faults' \in 0..MaxFaults /\ faults' >= faults
    BY <1>2, <1>3, GivenDisk, Numbers
  <1>15. QED
    BY <1>2, <1>8, <1>9, <1>10, <1>11, <1>12, <1>13, <1>14, ShelfStepKeepsIInv DEF Made

\* The next is taken off the list, and what remains is to be removed.
LEMMA PassingKeepsIInv ==
    ASSUME IInv, NEW step \in {"gut", "remove"}, At(step), PassOver,
           disk' \in Disk, survivors' \subseteq Disk, disk' \in survivors', DisksHold',
           disk'.pictures = disk.pictures, \A n \in Notes : PageOf(disk', n) = PageOf(disk, n),
           faults' \in 0..MaxFaults, faults' >= faults,
           \A time \in Int : Dated(disk.shelf, time) => Dated(disk'.shelf, time),
           \A time \in Int : Made(disk, time) => Made(disk', time),
           \A s \in Snapshot : Excessive(disk.shelf, s) => Excessive(disk'.shelf, s),
           disk.shelf \ {NextDoomed} \subseteq disk'.shelf,
           op.after = faults' => Hardened(disk', survivors')
    PROVE  IInv'
  <1>1. /\ doomed' = doomed \ {NextDoomed.name}
        /\ IF doomed' = {} THEN Recorded(TRUE) ELSE Go("gut") /\ UNCHANGED schedule
        /\ UNCHANGED <<clock, begun, scratch>>
    BY DEF PassOver, Quiet
  <1>2. /\ op \in Ops /\ op # Idle /\ op.now \in Int /\ Made(disk, op.now)
        /\ op.step \in {"copy", "shelve", "retain", "gut", "remove"}
        /\ op.step \in {"shelve", "sync shelf", "retain", "gut", "remove"}
    BY Tidying
  <1>3. Made(disk', op.now) /\ Dated(disk'.shelf, op.now)
    BY <1>2, MadeIsDated
  <1>4. doomed' \subseteq Names /\ scratch' \subseteq Snapshot
    BY <1>1, GivenDisk
  <1>5. CASE doomed' = {}
    BY <1>1, <1>2, <1>3, <1>4, <1>5, RecordedKeepsIInv DEF Made
  <1>6. CASE doomed' # {}
    <2>1. \A name \in doomed' : \E s \in disk'.shelf : s.name = name /\ Excessive(disk'.shelf, s)
      <3>1. ASSUME NEW name \in doomed, name # NextDoomed.name
            PROVE  \E s \in disk'.shelf : s.name = name /\ Excessive(disk'.shelf, s)
        <4>1. PICK s \in disk.shelf : s.name = name /\ Excessive(disk.shelf, s)
          BY <3>1, AtStep DEF Dooming
        <4>2. s \in disk'.shelf /\ Excessive(disk'.shelf, s)
          BY <3>1, <4>1, GivenDisk
        <4>3. QED BY <4>1, <4>2
      <3>2. QED BY <1>1, <3>1
    <2>2. QED BY <1>1, <1>2, <1>3, <1>4, <1>6, <2>1, ShelfStepKeepsIInv DEF Made
  <1>7. QED BY <1>5, <1>6

LEMMA RemoveKeepsIInv ==
    ASSUME IInv, Remove
    PROVE  IInv'
  <1> DEFINE x == NextDoomed
             shelf == disk.shelf \ {x}
             e == [disk EXCEPT !.shelf = shelf]
  <1>1. At("remove") /\ Change(e) /\ faults' = faults /\ PassOver
    <2>1. Change([disk EXCEPT !.shelf = disk.shelf \ {NextDoomed}])
      BY DEF Remove
    <2>2. QED BY <2>1 DEF Remove, NoFault
  <1>2. x \in disk.shelf /\ x.name \in doomed /\ Excessive(disk.shelf, x) /\ ShelfInv(disk.shelf)
    BY <1>1, NextDoomedIs, GivenDisk
  <1>3. /\ Thinned(disk.shelf, shelf)
        /\ \A time \in Int : x.name[1] >= time => Cardinality(Since(shelf, time)) >= Keep
    BY <1>2, RemovingThins
  <1>4. disk.shelf \ {x} = shelf
    OBVIOUS
  <1> HIDE DEF shelf
  <1>e. e = [disk EXCEPT !.shelf = shelf]
    OBVIOUS
  <1> HIDE DEF e
  <1>5. /\ e \in Disk /\ Pictured(e) /\ e.shelf = shelf /\ ShelfInv(e.shelf)
        /\ e.pictures = disk.pictures /\ e.committed = disk.committed
        /\ \A n \in Notes : PageOf(e, n) = PageOf(disk, n)
        /\ \A time \in Int : Dated(disk.shelf, time) => Dated(e.shelf, time)
        /\ \A time \in Int : Made(disk, time) => Made(e, time)
    BY <1>2, <1>3, <1>4, <1>e, ThinningKeepsDisk
  <1>6. DisksHold' /\ disk' \in Disk /\ survivors' \subseteq Disk /\ disk' \in survivors' /\ disk' = e
    BY <1>1, <1>5, ChangingKeepsDisks
  <1>7. op.after = faults' => Hardened(disk', survivors')
    BY <1>1, <1>5, Tidying, HardeningStays
  <1>8. faults' \in 0..MaxFaults /\ faults' >= faults
    BY <1>1, GivenDisk, Numbers
  <1>9. \A s \in Snapshot : Excessive(disk.shelf, s) => Excessive(disk'.shelf, s)
    BY <1>3, <1>5, <1>6 DEF Thinned
  <1>10. disk.shelf \ {NextDoomed} \subseteq disk'.shelf
    BY <1>4, <1>5, <1>6
  <1>11. QED BY <1>1, <1>5, <1>6, <1>7, <1>8, <1>9, <1>10, PassingKeepsIInv

LEMMA RemoveFailsKeepsIInv ==
    ASSUME IInv, RemoveFails
    PROVE  IInv'
  <1>1. PICK step \in {"gut", "remove"} : At(step)
    BY DEF RemoveFails
  <1>2. Fault /\ UNCHANGED <<disk, survivors>> /\ PassOver
    BY DEF RemoveFails, Keeps
  <1>3. faults' \in 0..MaxFaults /\ faults' = faults + 1 /\ faults' >= faults
    BY <1>2, FaultsGrow, GivenDisk, Numbers
  <1>4. op.after <= faults /\ op.after \in 0..MaxFaults /\ faults \in 0..MaxFaults
    BY <1>1, Tidying, GivenDisk
  <1>5. op.after # faults'
    BY <1>3, <1>4, SpansAssumption
  <1>6. /\ disk' \in Disk /\ survivors' \subseteq Disk /\ disk' \in survivors' /\ DisksHold'
    BY <1>2, GivenDisk DEF IInv, DisksHold
  <1>7. /\ \A n \in Notes : PageOf(disk', n) = PageOf(disk, n)
        /\ \A time \in Int : Made(disk, time) => Made(disk', time)
        /\ disk.shelf \ {NextDoomed} \subseteq disk'.shelf
    BY <1>2
  <1>8. QED BY <1>1, <1>2, <1>3, <1>5, <1>6, <1>7, PassingKeepsIInv

-----------------------------------------------------------------------------
(* Notes and pictures                                                      *)

\* A call that changes the note or what belongs to it: from then on the note is
\* where the operation was to bring it.
LEMMA NoteStepKeepsIInv ==
    ASSUME IInv, op \in Ops, op # Idle, At(op.step),
           NEW step \in {"date", "unlink", "undate", "sync notes"}, Go(step),
           step = "date" => op.kind = "discard", step \in {"unlink", "undate"} => op.kind = "restore",
           op.kind # "backup",
           NEW e \in Disk, Pictured(e), e.shelf = disk.shelf, disk.pictures \subseteq e.pictures,
           PageOf(e, op.note) = Result(op),
           \/ Change(e) /\ NoFault
           \/ e = disk /\ Keeps /\ Fault,
           Quiet, UNCHANGED backups
    PROVE  IInv'
  <1>1. op' = [op EXCEPT !.step = step] /\ step \in Steps /\ step \notin Preparing
    BY DEF Go, Steps, Preparing
  <1>2. /\ op' \in Ops /\ op'.step = step /\ op'.kind = op.kind /\ op'.note = op.note
        /\ op'.text = op.text /\ op'.now = op.now /\ op'.before = op.before /\ op'.after = op.after
        /\ Result(op') = Result(op)
    <2>1. /\ op' \in Ops /\ op'.step = step /\ op'.kind = op.kind /\ op'.note = op.note
          /\ op'.text = op.text /\ op'.now = op.now /\ op'.before = op.before
          /\ op'.after = op.after
      BY <1>1 DEF Ops
    <2>2. QED BY <2>1 DEF Result
  <1>3. UNCHANGED <<clock, begun, scratch, doomed, schedule>>
    BY DEF Quiet, backups
  <1>4. disk' = e /\ DisksHold' /\ disk' \in survivors' /\ survivors' \subseteq Disk
    <2>1. CASE Change(e)
      BY <2>1, GivenDisk, ChangingKeepsDisks
    <2>2. CASE e = disk /\ Keeps
      BY <2>2, GivenDisk DEF Keeps, IInv, DisksHold
    <2>3. QED BY <2>1, <2>2
  <1>5. faults' \in 0..MaxFaults /\ op.after <= faults'
    <2>1. op.after \in 0..MaxFaults /\ faults \in 0..MaxFaults /\ op.after <= faults
      BY AtStep, GivenDisk DEF Synced, Ops
    <2>2. faults' \in 0..MaxFaults /\ faults' >= faults
      BY FaultsGrow
    <2>3. QED BY <2>1, <2>2, Numbers
  <1>6. Asked(op, disk) /\ Allowed(op, schedule, clock)
    BY AtStep
  <1>7. Asked(op, disk)'
    BY <1>2, <1>4, <1>6 DEF Asked
  <1>8. Committed(op, disk)'
    BY <1>1, <1>2, <1>4 DEF Committed
  <1>9. Synced(op, faults, disk, survivors)' /\ Making(op, disk, scratch)'
        /\ Dooming(op, disk.shelf, doomed)' /\ Allowed(op, schedule, clock)'
    BY <1>2, <1>3, <1>5, <1>6 DEF Synced, Making, Dooming, Allowed
  <1>10. SuccessIsDated' /\ schedule' \in Schedules
    BY <1>3, <1>4, LoadedIsDated DEF IInv, SuccessIsDated
  <1>11. scratch' \subseteq Snapshot /\ doomed' \subseteq Names
    BY <1>3, GivenDisk
  <1>12. QED
    BY <1>2, <1>3, <1>4, <1>5, <1>7, <1>8, <1>9, <1>10, <1>11, IInvFromParts DEF Schedules

\* What an operation is, at its commit.
LEMMA AtCommit ==
    ASSUME IInv, At("commit")
    PROVE  /\ op \in Ops /\ op # Idle /\ At(op.step) /\ op.step = "commit" /\ op.kind # "backup"
           /\ op.note \in Notes /\ Asked(op, disk) /\ PageOf(disk, op.note) = op.before
  BY AtStep DEF Asked, Committed, Preparing

LEMMA CreateKeepsIInv ==
    ASSUME IInv, CreateNote
    PROVE  IInv'
  <1> DEFINE e == [disk EXCEPT !.notes = [disk.notes EXCEPT ![op.note] = op.text]]
  <1>1. /\ At("commit") /\ op.kind = "create" /\ Change(e) /\ NoFault
        /\ Go("sync notes") /\ Quiet /\ UNCHANGED backups
    BY DEF CreateNote
  <1>2. op.text \in Texts \ Illustrated /\ op.text # Nothing
    BY <1>1, AtCommit, NothingAssumption DEF Asked
  <1>3. /\ e \in Disk /\ e.shelf = disk.shelf /\ e.pictures = disk.pictures
        /\ e.notes = [disk.notes EXCEPT ![op.note] = op.text] /\ e.trash = disk.trash
    BY <1>1, <1>2, GivenDisk, AtCommit DEF Disk
  <1> HIDE DEF e
  <1>4. Pictured(e)
    <2>1. \A n \in Notes : e.notes[n] = IF n = op.note THEN op.text ELSE disk.notes[n]
      BY <1>3, GivenDisk
    <2>2. QED BY <1>2, <1>3, <2>1, GivenDisk DEF Pictured
  <1>5. PageOf(e, op.note) = [place |-> "live", text |-> op.text]
    BY <1>1, <1>2, <1>3, GivenDisk, AtCommit DEF PageOf
  <1>6. PageOf(e, op.note) = Result(op)
    BY <1>1, <1>5 DEF Result
  <1>7. QED BY <1>1, <1>3, <1>4, <1>6, AtCommit, NoteStepKeepsIInv

LEMMA SaveKeepsIInv ==
    ASSUME IInv, SaveNote
    PROVE  IInv'
  <1> DEFINE e == [disk EXCEPT !.notes = [disk.notes EXCEPT ![op.note] = op.text]]
  <1>1. /\ At("commit") /\ op.kind = "save" /\ Change(e) /\ NoFault
        /\ Go("sync notes") /\ Quiet /\ UNCHANGED backups
    BY DEF SaveNote
  <1>2. op.text \in Texts /\ op.text # Nothing
        /\ (op.text \in Illustrated => op.note \in disk.pictures)
    BY <1>1, AtCommit, NothingAssumption DEF Asked
  <1>3. /\ e \in Disk /\ e.shelf = disk.shelf /\ e.pictures = disk.pictures
        /\ e.notes = [disk.notes EXCEPT ![op.note] = op.text] /\ e.trash = disk.trash
    BY <1>1, <1>2, GivenDisk, AtCommit DEF Disk
  <1> HIDE DEF e
  <1>4. Pictured(e)
    <2>1. \A n \in Notes : e.notes[n] = IF n = op.note THEN op.text ELSE disk.notes[n]
      BY <1>3, GivenDisk
    <2>2. QED BY <1>2, <1>3, <2>1, GivenDisk DEF Pictured
  <1>5. PageOf(e, op.note) = [place |-> "live", text |-> op.text]
    BY <1>1, <1>2, <1>3, GivenDisk, AtCommit DEF PageOf
  <1>6. PageOf(e, op.note) = Result(op)
    BY <1>1, <1>5 DEF Result
  <1>7. QED BY <1>1, <1>3, <1>4, <1>6, AtCommit, NoteStepKeepsIInv

LEMMA ImportKeepsIInv ==
    ASSUME IInv, ImportImage
    PROVE  IInv'
  <1> DEFINE e == [disk EXCEPT !.pictures = disk.pictures \union {op.note}]
  <1>1. /\ At("commit") /\ op.kind = "import" /\ Change(e) /\ NoFault
        /\ Go("sync notes") /\ Quiet /\ UNCHANGED backups
    BY DEF ImportImage
  <1>2. /\ e \in Disk /\ e.shelf = disk.shelf /\ e.pictures = disk.pictures \union {op.note}
        /\ e.notes = disk.notes /\ e.trash = disk.trash
    BY <1>1, GivenDisk, AtCommit DEF Disk
  <1> HIDE DEF e
  <1>3. Pictured(e)
    BY <1>2, GivenDisk DEF Pictured
  <1>4. PageOf(e, op.note) = Result(op)
    BY <1>1, <1>2, AtCommit DEF PageOf, Result
  <1>5. QED BY <1>1, <1>2, <1>3, <1>4, AtCommit, NoteStepKeepsIInv

LEMMA MoveKeepsIInv ==
    ASSUME IInv, MoveToTrash
    PROVE  IInv'
  <1> DEFINE dated == IF disk.dated[op.note] = "none" THEN "none" ELSE "another"
             e == [disk EXCEPT !.notes = [disk.notes EXCEPT ![op.note] = Nothing],
                               !.trash = [disk.trash EXCEPT ![op.note] = disk.notes[op.note]],
                               !.dated = [disk.dated EXCEPT ![op.note] = dated]]
  <1>1. /\ At("commit") /\ op.kind = "discard" /\ disk.notes[op.note] # Nothing
        /\ Change(e) /\ NoFault /\ Go("date") /\ Quiet /\ UNCHANGED backups
    BY DEF MoveToTrash
  <1>2. dated \in Dates /\ disk.notes[op.note] \in Texts
    BY <1>1, GivenDisk, AtCommit DEF Dates
  <1> HIDE DEF dated
  <1>3. /\ e \in Disk /\ e.shelf = disk.shelf /\ e.pictures = disk.pictures
        /\ e.notes = [disk.notes EXCEPT ![op.note] = Nothing]
        /\ e.trash = [disk.trash EXCEPT ![op.note] = disk.notes[op.note]]
    BY <1>1, <1>2, GivenDisk, AtCommit DEF Disk
  <1> HIDE DEF e
  <1>4. Pictured(e)
    <2>1. Nothing \notin Illustrated
      BY NothingAssumption, TextsAssumption
    <2>2. QED BY <1>1, <1>3, <2>1, GivenDisk, AtCommit DEF Pictured
  <1>5. PageOf(e, op.note) = [place |-> "trashed", text |-> disk.notes[op.note]]
    BY <1>1, <1>2, <1>3, GivenDisk, AtCommit DEF PageOf
  <1>6. op.before.text = disk.notes[op.note]
    BY <1>1, AtCommit DEF PageOf
  <1>7. PageOf(e, op.note) = Result(op)
    BY <1>1, <1>5, <1>6 DEF Result
  <1>8. QED BY <1>1, <1>3, <1>4, <1>7, AtCommit, NoteStepKeepsIInv

LEMMA LinkBackKeepsIInv ==
    ASSUME IInv, LinkBack
    PROVE  IInv'
  <1> DEFINE e == [disk EXCEPT !.notes = [disk.notes EXCEPT ![op.note] = disk.trash[op.note]]]
  <1>1. /\ At("commit") /\ op.kind = "restore" /\ disk.trash[op.note] # Nothing
        /\ disk.notes[op.note] = Nothing
        /\ Change(e) /\ NoFault /\ Go("unlink") /\ Quiet /\ UNCHANGED backups
    BY DEF LinkBack
  <1>2. /\ e \in Disk /\ e.shelf = disk.shelf /\ e.pictures = disk.pictures
        /\ e.notes = [disk.notes EXCEPT ![op.note] = disk.trash[op.note]] /\ e.trash = disk.trash
    BY <1>1, GivenDisk, AtCommit DEF Disk
  <1> HIDE DEF e
  <1>3. Pictured(e)
    BY <1>1, <1>2, GivenDisk, AtCommit DEF Pictured
  <1>4. PageOf(e, op.note) = [place |-> "live", text |-> disk.trash[op.note]]
    BY <1>1, <1>2, GivenDisk, AtCommit DEF PageOf
  <1>5. op.before.text = disk.trash[op.note]
    BY <1>1, AtCommit DEF PageOf
  <1>6. PageOf(e, op.note) = Result(op)
    BY <1>1, <1>4, <1>5 DEF Result
  <1>7. QED BY <1>1, <1>2, <1>3, <1>6, AtCommit, NoteStepKeepsIInv

\* An operation that has changed its note.
LEMMA AfterCommit ==
    ASSUME IInv, NEW step \in {"date", "unlink", "undate", "sync notes", "sync trash"}, At(step)
    PROVE  /\ op \in Ops /\ op # Idle /\ At(op.step) /\ op.step = step /\ op.kind # "backup"
           /\ op.note \in Notes /\ Asked(op, disk) /\ PageOf(disk, op.note) = Result(op)
           /\ step = "date" => op.kind = "discard"
           /\ step \in {"unlink", "undate"} => op.kind = "restore"
           /\ step = "sync trash" => op.kind \in {"discard", "restore"}
           /\ op.after \in 0..MaxFaults /\ op.after <= faults
  <1>1. /\ op \in Ops /\ op # Idle /\ At(op.step) /\ op.step = step /\ op.note \in Notes
        /\ Asked(op, disk) /\ Committed(op, disk) /\ Synced(op, faults, disk, survivors)
    BY AtStep
  <1>2. op.kind # "backup" /\ (step = "date" => op.kind = "discard")
        /\ (step \in {"unlink", "undate"} => op.kind = "restore")
        /\ (step = "sync trash" => op.kind \in {"discard", "restore"})
    BY <1>1 DEF Asked
  <1>3. PageOf(disk, op.note) = Result(op)
    BY <1>1 DEF Committed, Preparing
  <1>4. QED BY <1>1, <1>2, <1>3 DEF Synced, Ops

LEMMA DateKeepsIInv ==
    ASSUME IInv, DateTrash
    PROVE  IInv'
  <1> DEFINE e == [disk EXCEPT !.dated = [disk.dated EXCEPT ![op.note] = "own"]]
  <1>1. /\ At("date") /\ Go("sync notes") /\ Quiet /\ UNCHANGED backups
        /\ (Change(e) /\ NoFault) \/ (Keeps /\ Fault)
    BY DEF DateTrash
  <1>2. /\ e \in Disk /\ e.shelf = disk.shelf /\ e.pictures = disk.pictures
        /\ e.notes = disk.notes /\ e.trash = disk.trash
    BY GivenDisk DEF Disk, Dates
  <1> HIDE DEF e
  <1>3. Pictured(e) /\ PageOf(e, op.note) = PageOf(disk, op.note)
    BY <1>2, GivenDisk DEF Pictured, PageOf
  <1>4. /\ op \in Ops /\ op # Idle /\ At(op.step) /\ op.kind # "backup"
        /\ PageOf(disk, op.note) = Result(op)
    BY <1>1, AfterCommit
  <1>5. CASE Change(e) /\ NoFault
    BY <1>1, <1>2, <1>3, <1>4, <1>5, NoteStepKeepsIInv
  <1>6. CASE Keeps /\ Fault
    BY <1>1, <1>4, <1>6, GivenDisk, NoteStepKeepsIInv
  <1>7. QED BY <1>1, <1>5, <1>6

LEMMA UnlinkKeepsIInv ==
    ASSUME IInv, UnlinkTrash
    PROVE  IInv'
  <1> DEFINE e == [disk EXCEPT !.trash = [disk.trash EXCEPT ![op.note] = Nothing]]
  <1>1. /\ At("unlink") /\ Go("undate") /\ Quiet /\ UNCHANGED backups
        /\ (Change(e) /\ NoFault) \/ (Keeps /\ Fault)
    BY DEF UnlinkTrash
  <1>2. /\ op \in Ops /\ op # Idle /\ At(op.step) /\ op.kind # "backup" /\ op.kind = "restore"
        /\ PageOf(disk, op.note) = Result(op) /\ op.note \in Notes
    BY <1>1, AfterCommit
  <1>3. /\ e \in Disk /\ e.shelf = disk.shelf /\ e.pictures = disk.pictures
        /\ e.notes = disk.notes /\ e.trash = [disk.trash EXCEPT ![op.note] = Nothing]
    BY GivenDisk DEF Disk
  <1> HIDE DEF e
  <1>4. Pictured(e)
    <2>1. Nothing \notin Illustrated
      BY NothingAssumption, TextsAssumption
    <2>2. QED BY <1>2, <1>3, <2>1, GivenDisk DEF Pictured
  <1>5. PageOf(e, op.note) = PageOf(disk, op.note)
    <2>1. PageOf(disk, op.note).place = "live"
      BY <1>2 DEF Result
    <2>2. disk.notes[op.note] # Nothing
      BY <2>1 DEF PageOf
    <2>3. QED BY <1>3, <2>2 DEF PageOf
  <1>6. CASE Change(e) /\ NoFault
    BY <1>1, <1>2, <1>3, <1>4, <1>5, <1>6, NoteStepKeepsIInv
  <1>7. CASE Keeps /\ Fault
    BY <1>1, <1>2, <1>7, GivenDisk, NoteStepKeepsIInv
  <1>8. QED BY <1>1, <1>6, <1>7

LEMMA RemoveRecordKeepsIInv ==
    ASSUME IInv, RemoveRecord
    PROVE  IInv'
  <1> DEFINE e == [disk EXCEPT !.dated = [disk.dated EXCEPT ![op.note] = "none"]]
  <1>1. /\ At("undate") /\ Go("sync notes") /\ Quiet /\ UNCHANGED backups
        /\ (Change(e) /\ NoFault) \/ (Keeps /\ Fault)
    BY DEF RemoveRecord
  <1>2. /\ e \in Disk /\ e.shelf = disk.shelf /\ e.pictures = disk.pictures
        /\ e.notes = disk.notes /\ e.trash = disk.trash
    BY GivenDisk DEF Disk, Dates
  <1> HIDE DEF e
  <1>3. Pictured(e) /\ PageOf(e, op.note) = PageOf(disk, op.note)
    BY <1>2, GivenDisk DEF Pictured, PageOf
  <1>4. /\ op \in Ops /\ op # Idle /\ At(op.step) /\ op.kind # "backup"
        /\ PageOf(disk, op.note) = Result(op)
    BY <1>1, AfterCommit
  <1>5. CASE Change(e) /\ NoFault
    BY <1>1, <1>2, <1>3, <1>4, <1>5, NoteStepKeepsIInv
  <1>6. CASE Keeps /\ Fault
    BY <1>1, <1>4, <1>6, GivenDisk, NoteStepKeepsIInv
  <1>7. QED BY <1>1, <1>5, <1>6

\* An operation is answered: its note is where the answer says.
LEMMA AnswerKeepsIInv ==
    ASSUME IInv, op \in Ops, op # Idle, At(op.step), NEW ok \in BOOLEAN, Answer(ok),
           op.kind # "backup",
           PageOf(disk, op.note) = IF ok THEN Result(op) ELSE op.before,
           disk' = disk, DisksHold', disk' \in survivors', survivors' \subseteq Disk,
           faults' \in 0..MaxFaults, op.after <= faults',
           ok /\ op.after = faults' => Hardened(disk, survivors'),
           Quiet, UNCHANGED backups
    PROVE  IInv'
  <1>1. op' = [op EXCEPT !.step = "answer", !.ok = ok]
    BY DEF Answer
  <1>2. /\ op' \in Ops /\ op'.step = "answer" /\ op'.kind = op.kind /\ op'.note = op.note
        /\ op'.text = op.text /\ op'.now = op.now /\ op'.ok = ok /\ op'.before = op.before
        /\ op'.after = op.after
    BY <1>1 DEF Ops, Steps
  <1>3. Result(op') = Result(op)
    BY <1>2 DEF Result
  <1>4. UNCHANGED <<clock, begun, scratch, doomed, schedule>>
    BY DEF Quiet, backups
  <1>5. Asked(op, disk) /\ Allowed(op, schedule, clock)
    BY AtStep
  <1>6. Asked(op, disk)' /\ Making(op, disk, scratch)' /\ Dooming(op, disk.shelf, doomed)'
        /\ Allowed(op, schedule, clock)'
    BY <1>2, <1>4, <1>5 DEF Asked, Making, Dooming, Allowed
  <1>7. Committed(op, disk)'
    BY <1>2, <1>3 DEF Committed, Preparing
  <1>8. Synced(op, faults, disk, survivors)'
    BY <1>2 DEF Synced
  <1>9. SuccessIsDated' /\ schedule' \in Schedules
    BY <1>4, LoadedIsDated DEF IInv, SuccessIsDated
  <1>10. scratch' \subseteq Snapshot /\ doomed' \subseteq Names /\ disk' \in Disk
    BY <1>4, GivenDisk
  <1>11. QED
    BY <1>2, <1>4, <1>6, <1>7, <1>8, <1>9, <1>10, IInvFromParts DEF Schedules

LEMMA SyncingKeepsIInv ==
    ASSUME IInv, SyncNotes \/ SyncTrash
    PROVE  IInv'
  <1>1. PICK step \in {"sync notes", "sync trash"} : At(step)
    BY DEF SyncNotes, SyncTrash
  <1>2. /\ op \in Ops /\ op # Idle /\ At(op.step) /\ op.step = step /\ op.kind # "backup"
        /\ op.note \in Notes /\ Asked(op, disk) /\ PageOf(disk, op.note) = Result(op)
        /\ op.after \in 0..MaxFaults /\ op.after <= faults
    BY <1>1, AfterCommit
  <1>3. Sync /\ UNCHANGED <<clock, begun, scratch, doomed, schedule>> /\ Quiet /\ UNCHANGED backups
    BY DEF SyncNotes, SyncTrash, Quiet, backups
  <1>4. /\ DisksHold' /\ disk' = disk /\ disk' \in survivors' /\ survivors' \subseteq Disk
        /\ faults' \in 0..MaxFaults /\ faults' >= faults
        /\ faults' = faults => Hardened(disk, survivors')
    BY <1>3, SyncKeepsDisks
  <1>5. op.after <= faults' /\ (op.after = faults' => Hardened(disk, survivors'))
    BY <1>2, <1>4, GivenDisk, Numbers
  <1>6. CASE Answer(TRUE)
    BY <1>2, <1>3, <1>4, <1>5, <1>6, TRUE \in BOOLEAN, AnswerKeepsIInv
  <1>7. CASE Go("sync trash") /\ op.kind \in {"discard", "restore"}
    <2>1. op' = [op EXCEPT !.step = "sync trash"]
      BY <1>7 DEF Go
    <2>2. /\ op' \in Ops /\ op'.step = "sync trash" /\ op'.kind = op.kind /\ op'.note = op.note
          /\ op'.text = op.text /\ op'.now = op.now /\ op'.before = op.before
          /\ op'.after = op.after
      BY <1>2, <2>1 DEF Ops, Steps
    <2>3. Result(op') = Result(op)
      BY <2>2 DEF Result
    <2>4. Allowed(op, schedule, clock)
      BY <1>2, AtStep
    <2>5. Asked(op, disk)' /\ Making(op, disk, scratch)' /\ Dooming(op, disk.shelf, doomed)'
          /\ Allowed(op, schedule, clock)'
      BY <1>2, <1>3, <1>4, <1>7, <2>2, <2>4 DEF Asked, Making, Dooming, Allowed
    <2>6. Committed(op, disk)'
      BY <1>2, <1>4, <2>2, <2>3 DEF Committed, Preparing
    <2>7. Synced(op, faults, disk, survivors)'
      BY <1>4, <1>5, <2>2 DEF Synced
    <2>8. SuccessIsDated' /\ schedule' \in Schedules
      BY <1>3, <1>4, LoadedIsDated DEF IInv, SuccessIsDated
    <2>9. scratch' \subseteq Snapshot /\ doomed' \subseteq Names /\ disk' \in Disk
      BY <1>3, <1>4, GivenDisk
    <2>10. QED
      BY <1>3, <1>4, <2>2, <2>5, <2>6, <2>7, <2>8, <2>9, IInvFromParts DEF Schedules
  <1>8. QED BY <1>6, <1>7 DEF SyncNotes, SyncTrash

LEMMA RefusingKeepsIInv ==
    ASSUME IInv, Refuse \/ CommitFails
    PROVE  IInv'
  <1>1. At("commit") /\ Answer(FALSE) /\ Quiet /\ UNCHANGED backups
    BY DEF Refuse, CommitFails
  <1>2. UNCHANGED <<disk, survivors>> /\ (Fault \/ NoFault)
    BY DEF Refuse, CommitFails, Keeps
  <1>3. faults' \in 0..MaxFaults /\ faults' >= faults
    BY <1>2, FaultsGrow
  <1>4. /\ op \in Ops /\ op # Idle /\ At(op.step) /\ op.kind # "backup"
        /\ PageOf(disk, op.note) = op.before
    BY <1>1, AtCommit
  <1>5. op.after \in 0..MaxFaults /\ op.after <= faults
    BY <1>1, AtStep DEF Synced, Ops
  <1>6. op.after <= faults'
    BY <1>3, <1>5, GivenDisk, Numbers
  <1>7. DisksHold' /\ disk' \in survivors' /\ survivors' \subseteq Disk
    BY <1>2, GivenDisk DEF IInv, DisksHold
  <1>8. QED BY <1>1, <1>2, <1>3, <1>4, <1>6, <1>7, FALSE \in BOOLEAN, AnswerKeepsIInv

-----------------------------------------------------------------------------
(* Operations begin and end, and so do processes                           *)

LEMMA IdleKeepsIInv ==
    ASSUME IInv, op' = Idle, disk' \in survivors', DisksHold', survivors' \subseteq Disk,
           scratch' = scratch, doomed' \subseteq Names, clock' \in Time, faults' \in 0..MaxFaults,
           begun' \in 0..MaxOps, SuccessIsDated', schedule' \in Schedules
    PROVE  IInv'
  <1>1. TypeOK'
    BY DEF IInv, TypeOK, Schedules
  <1>2. QED BY <1>1 DEF IInv

LEMMA NewSessionKeepsIInv ==
    ASSUME IInv, Restart \/ Crash \/ PowerLoss
    PROVE  IInv'
  <1>1. /\ op' = Idle /\ doomed' = {} /\ schedule' = FreshSchedule
        /\ UNCHANGED <<clock, begun, scratch>>
    BY DEF Restart, Crash, PowerLoss, NewSession, Quiet
  <1>2. schedule' \in Schedules /\ SuccessIsDated'
    BY <1>1 DEF FreshSchedule, Schedules, SuccessIsDated
  <1>3. faults' \in 0..MaxFaults
    BY FaultsGrow DEF Restart, Crash, PowerLoss
  <1>4. disk' \in survivors' /\ survivors' \subseteq survivors
    BY GivenDisk DEF Restart, Crash, PowerLoss, Keeps
  <1>5. DisksHold' /\ survivors' \subseteq Disk
    BY <1>4, GivenDisk DEF IInv, DisksHold
  <1>6. QED BY <1>1, <1>2, <1>3, <1>4, <1>5, GivenDisk, IdleKeepsIInv

LEMMA RestingKeepsIInv ==
    ASSUME IInv, Return \/ SetClock
    PROVE  IInv'
  <1>1. UNCHANGED <<disk, survivors, faults, begun, scratch, doomed, schedule>>
    BY DEF Return, SetClock, Keeps, Quiet, NoFault, backups
  <1>2. op' = Idle /\ clock' \in Time
    BY GivenDisk DEF Return, SetClock, Quiet
  <1>3. DisksHold' /\ SuccessIsDated' /\ schedule' \in Schedules
    BY <1>1, LoadedIsDated DEF IInv, DisksHold, SuccessIsDated
  <1>4. QED BY <1>1, <1>2, <1>3, GivenDisk, IdleKeepsIInv

LEMMA BeginKeepsIInv ==
    ASSUME IInv, NEW kind \in Operations, NEW n \in Notes, NEW t \in Texts \union {Nothing},
           Begin(kind, n, t)
    PROVE  IInv'
  <1> DEFINE step == CASE kind = "backup" -> "sweep"
                       [] kind \in {"import", "restore"} -> "commit"
                       [] OTHER -> "due"
  <1>1. /\ op' = [kind |-> kind, note |-> n, text |-> t, now |-> clock, ok |-> FALSE,
                  before |-> PageOf(disk, n), after |-> faults, step |-> step]
        /\ Requested(kind, n, t) /\ begun' = begun + 1 /\ begun < MaxOps
        /\ UNCHANGED <<disk, survivors, faults, scratch, doomed, schedule, clock>>
    BY DEF Begin, Keeps, NoFault, backups
  <1>2. /\ kind = "backup" => step = "sweep"
        /\ kind \in {"import", "restore"} => step = "commit"
        /\ kind \notin {"backup", "import", "restore"} => step = "due"
    BY DEF Operations
  <1>3. step \in {"sweep", "commit", "due"} /\ step \in Steps
    BY DEF Steps
  <1> HIDE DEF step
  <1>4. PageOf(disk, n) \in Pages
    BY GivenDisk, PagesAre
  <1>5. /\ op' \in Ops /\ op'.kind = kind /\ op'.note = n /\ op'.text = t /\ op'.now = clock
        /\ op'.before = PageOf(disk, n) /\ op'.after = faults /\ op'.step = step
    BY <1>1, <1>3, <1>4, GivenDisk DEF Ops
  <1>6. Asked(op, disk)'
    <2>1. kind = "create" => PageOf(disk, n).place = "absent" /\ t \in Texts \ Illustrated
      BY <1>1 DEF Requested
    <2>2. kind \in {"save", "import", "discard"} => PageOf(disk, n).place = "live"
      BY <1>1 DEF Requested, PageOf
    <2>3. kind = "save" => t \in Texts /\ (t \in Illustrated => n \in disk.pictures)
      BY <1>1 DEF Requested
    <2>4. QED BY <1>1, <1>2, <1>3, <1>5, <2>1, <2>2, <2>3 DEF Asked, Operations
  <1>7. Committed(op, disk)' /\ Making(op, disk, scratch)' /\ Dooming(op, disk.shelf, doomed)'
    BY <1>1, <1>3, <1>5 DEF Committed, Preparing, Making, Dooming
  <1>8. Synced(op, faults, disk, survivors)' /\ Allowed(op, schedule, clock)'
    <2>1. faults <= faults
      BY GivenDisk, Numbers
    <2>2. op'.step = "commit" => op'.kind \notin {"create", "save", "discard"}
      BY <1>2, <1>5
    <2>3. QED BY <1>1, <1>3, <1>5, <2>1, <2>2 DEF Synced, Allowed
  <1>9. DisksHold' /\ SuccessIsDated' /\ schedule' \in Schedules
    BY <1>1, LoadedIsDated DEF IInv, DisksHold, SuccessIsDated
  <1>10. begun' \in 0..MaxOps
    BY <1>1, GivenDisk, SpansAssumption
  <1>11. TypeOK'
    BY <1>1, <1>5, <1>9, <1>10, GivenDisk DEF TypeOK, Ops, Schedules
  <1>12. QED BY <1>5, <1>6, <1>7, <1>8, <1>9, <1>11 DEF IInv, OpInv

-----------------------------------------------------------------------------
(* The invariant                                                           *)

LEMMA InitIInv == Init => IInv
  <1> SUFFICES ASSUME Init PROVE IInv
    OBVIOUS
  <1>1. EmptyDisk \in Disk /\ EmptyDisk.shelf = {}
        /\ \A n \in Notes : EmptyDisk.notes[n] = Nothing /\ EmptyDisk.trash[n] = Nothing
    BY SpansAssumption DEF EmptyDisk, Disk, Dates
  <1>2. Pictured(EmptyDisk)
    BY <1>1, NothingAssumption, TextsAssumption DEF Pictured
  <1>3. ShelfInv(EmptyDisk.shelf)
    BY <1>1, FS_EmptySet DEF ShelfInv
  <1>4. DisksHold
    BY <1>2, <1>3 DEF Init, DisksHold
  <1>5. TypeOK /\ SuccessIsDated
    BY <1>1, SpansAssumption DEF Init, TypeOK, FreshSchedule, SuccessIsDated, Time
  <1>6. QED BY <1>4, <1>5 DEF Init, IInv

LEMMA NextKeepsIInv == IInv /\ [Next]_vars => IInv'
  <1> SUFFICES ASSUME IInv, [Next]_vars PROVE IInv'
    OBVIOUS
  <1>1. CASE UNCHANGED vars
    BY <1>1 DEF vars, backups, IInv, TypeOK, DisksHold, SuccessIsDated
  <1>2. CASE Next
    BY <1>2, BeginKeepsIInv, BackUpKeepsIInv, SweepKeepsIInv, BuildKeepsIInv,
       SnapshotFailsKeepsIInv, ShelveKeepsIInv, SyncShelfKeepsIInv, RetainKeepsIInv, GutKeepsIInv,
       RemoveKeepsIInv, RemoveFailsKeepsIInv, CreateKeepsIInv, SaveKeepsIInv, ImportKeepsIInv,
       MoveKeepsIInv, DateKeepsIInv, LinkBackKeepsIInv, UnlinkKeepsIInv, RemoveRecordKeepsIInv,
       RefusingKeepsIInv, SyncingKeepsIInv, RestingKeepsIInv, NewSessionKeepsIInv DEF Next
  <1>3. QED BY <1>1, <1>2

-----------------------------------------------------------------------------
(* The directories are the notebook                                        *)

LEMMA ShownIs ==
    ASSUME NEW d, NEW e
    PROVE  Shown(d) = Shown(e) <=> \A n \in Notes : PageOf(d, n) = PageOf(e, n)
  BY DEF Shown

\* A call that changes where one note is.
LEMMA PutRefines ==
    ASSUME IInv, NEW e, Change(e), NEW n \in Notes, NEW page, PageOf(e, n) = page,
           \A m \in Notes \ {n} : PageOf(e, m) = PageOf(disk, m)
    PROVE  Abstract!Put(n, page)
  <1>1. Shown(e) = [Shown(disk) EXCEPT ![n] = page]
    BY DEF Shown
  <1>2. {Shown(d) : d \in survivors'} = {Shown(d) : d \in survivors} \union {Shown(disk')}
    BY DEF Change
  <1>3. Shown(disk') = [Shown(disk) EXCEPT ![n] = page]
    BY <1>1 DEF Change
  <1>4. QED BY <1>2, <1>3 DEF Abstract!Put

\* A call that shows nothing new.
LEMMA SameShownRefines ==
    ASSUME IInv, NEW e, Change(e), \A n \in Notes : PageOf(e, n) = PageOf(disk, n)
    PROVE  UNCHANGED Abstract!vars
  <1>1. Shown(e) = Shown(disk)
    BY ShownIs
  <1>2. Shown(disk') = Shown(disk)
    BY <1>1 DEF Change
  <1>3. {Shown(d) : d \in survivors'} = {Shown(d) : d \in survivors}
    BY <1>1, GivenDisk DEF Change
  <1>4. QED BY <1>2, <1>3 DEF Abstract!vars

LEMMA KeepingRefines ==
    ASSUME Keeps
    PROVE  UNCHANGED Abstract!vars
  BY DEF Keeps, Abstract!vars

LEMMA SyncRefines ==
    ASSUME Sync
    PROVE  Abstract!Harden \/ UNCHANGED Abstract!vars
  <1>1. CASE disk' = disk /\ survivors' = {disk}
    <2>1. {Shown(d) : d \in survivors'} = {Shown(disk)} /\ Shown(disk') = Shown(disk)
      BY <1>1
    <2>2. QED BY <2>1 DEF Abstract!Harden
  <1>2. CASE Keeps
    BY <1>2, KeepingRefines
  <1>3. QED BY <1>1, <1>2 DEF Sync

LEMMA PowerLossRefines ==
    ASSUME PowerLoss
    PROVE  Abstract!PowerLoss
  <1>1. disk' \in survivors /\ survivors' = {disk'}
    BY DEF PowerLoss
  <1>2. Shown(disk') \in {Shown(d) : d \in survivors}
        /\ {Shown(d) : d \in survivors'} = {Shown(disk')}
    BY <1>1
  <1>3. QED BY <1>2 DEF Abstract!PowerLoss

LEMMA ShelfRefines ==
    ASSUME IInv, ShelveSnapshot \/ Gut \/ Remove \/ ImportImage
    PROVE  UNCHANGED Abstract!vars
  <1>1. PICK e : Change(e) /\ e.notes = disk.notes /\ e.trash = disk.trash
    <2>1. CASE ShelveSnapshot
      <3> DEFINE shelf == disk.shelf \union scratch
                 count == IF disk.committed = Keep THEN Keep ELSE disk.committed + 1
                 e == [disk EXCEPT !.shelf = shelf, !.committed = count]
      <3>1. Change(e)
        BY <2>1 DEF ShelveSnapshot
      <3> HIDE DEF shelf, count
      <3>2. e.notes = disk.notes /\ e.trash = disk.trash
        BY GivenDisk DEF Disk
      <3>3. QED BY <3>1, <3>2
    <2>2. CASE Gut
      <3>1. PICK shelf : Change([disk EXCEPT !.shelf = shelf])
        BY <2>2 DEF Gut
      <3>2. QED BY <3>1, GivenDisk DEF Disk
    <2>3. CASE Remove
      <3>1. PICK shelf : Change([disk EXCEPT !.shelf = shelf])
        BY <2>3 DEF Remove
      <3>2. QED BY <3>1, GivenDisk DEF Disk
    <2>4. CASE ImportImage
      <3>1. PICK pictures : Change([disk EXCEPT !.pictures = pictures])
        BY <2>4 DEF ImportImage
      <3>2. QED BY <3>1, GivenDisk DEF Disk
    <2>5. QED BY <2>1, <2>2, <2>3, <2>4
  <1>2. \A n \in Notes : PageOf(e, n) = PageOf(disk, n)
    BY <1>1 DEF PageOf
  <1>3. QED BY <1>1, <1>2, SameShownRefines

LEMMA TidyingRefines ==
    ASSUME IInv, DateTrash \/ UnlinkTrash \/ RemoveRecord
    PROVE  UNCHANGED Abstract!vars
  <1>1. CASE Keeps
    BY <1>1, KeepingRefines
  <1>2. CASE \E dated : Change([disk EXCEPT !.dated = dated])
    <2>1. PICK dated : Change([disk EXCEPT !.dated = dated])
      BY <1>2
    <2> DEFINE e == [disk EXCEPT !.dated = dated]
    <2>2. \A n \in Notes : PageOf(e, n) = PageOf(disk, n)
      BY GivenDisk DEF Disk, PageOf
    <2>3. QED BY <2>1, <2>2, SameShownRefines
  <1>3. CASE UnlinkTrash /\ ~Keeps
    <2> DEFINE e == [disk EXCEPT !.trash = [disk.trash EXCEPT ![op.note] = Nothing]]
    <2>1. Change(e) /\ At("unlink")
      BY <1>3 DEF UnlinkTrash
    <2>2. PageOf(disk, op.note) = Result(op) /\ op.kind = "restore" /\ op.note \in Notes
      BY <2>1, AfterCommit
    <2>3. PageOf(disk, op.note).place = "live"
      BY <2>2 DEF Result
    <2>4. disk.notes[op.note] # Nothing
      BY <2>3 DEF PageOf
    <2>5. /\ e.notes = disk.notes
          /\ \A n \in Notes : e.trash[n] = IF n = op.note THEN Nothing ELSE disk.trash[n]
      BY GivenDisk DEF Disk
    <2> HIDE DEF e
    <2>6. \A n \in Notes : PageOf(e, n) = PageOf(disk, n)
      BY <2>4, <2>5 DEF PageOf
    <2>7. QED BY <2>1, <2>6, SameShownRefines
  <1>4. QED BY <1>1, <1>2, <1>3 DEF DateTrash, RemoveRecord

LEMMA CreateRefines ==
    ASSUME IInv, CreateNote
    PROVE  \E n \in Notes, t \in Texts : Abstract!Create(n, t)
  <1> DEFINE e == [disk EXCEPT !.notes = [disk.notes EXCEPT ![op.note] = op.text]]
  <1>1. At("commit") /\ op.kind = "create" /\ Change(e)
    BY DEF CreateNote
  <1>2. op.text \in Texts /\ op.text # Nothing /\ op.note \in Notes
    BY <1>1, AtCommit, NothingAssumption DEF Asked
  <1>3. /\ e.notes = [disk.notes EXCEPT ![op.note] = op.text] /\ e.trash = disk.trash
    BY GivenDisk DEF Disk
  <1> HIDE DEF e
  <1>4. PageOf(disk, op.note) = Abstract!Absent
    <2>1. PageOf(disk, op.note).place = "absent"
      BY <1>1, AtCommit DEF Asked
    <2>2. QED BY <2>1 DEF PageOf, Abstract!Absent
  <1>5. PageOf(e, op.note) = Abstract!Live(op.text)
    BY <1>2, <1>3, GivenDisk DEF PageOf, Abstract!Live
  <1>6. \A m \in Notes \ {op.note} : PageOf(e, m) = PageOf(disk, m)
    BY <1>3, GivenDisk DEF PageOf
  <1>7. Abstract!Put(op.note, Abstract!Live(op.text))
    BY <1>1, <1>2, <1>5, <1>6, PutRefines
  <1>8. Shown(disk)[op.note] = Abstract!Absent
    BY <1>2, <1>4 DEF Shown
  <1>9. QED BY <1>2, <1>7, <1>8 DEF Abstract!Create

LEMMA SaveRefines ==
    ASSUME IInv, SaveNote
    PROVE  \E n \in Notes, t \in Texts : Abstract!Save(n, t)
  <1> DEFINE e == [disk EXCEPT !.notes = [disk.notes EXCEPT ![op.note] = op.text]]
  <1>1. At("commit") /\ op.kind = "save" /\ Change(e)
    BY DEF SaveNote
  <1>2. op.text \in Texts /\ op.text # Nothing /\ op.note \in Notes
    BY <1>1, AtCommit, NothingAssumption DEF Asked
  <1>3. e.notes = [disk.notes EXCEPT ![op.note] = op.text] /\ e.trash = disk.trash
    BY GivenDisk DEF Disk
  <1> HIDE DEF e
  <1>4. Shown(disk)[op.note].place = "live"
    BY <1>1, AtCommit DEF Asked, Shown
  <1>5. PageOf(e, op.note) = Abstract!Live(op.text)
    BY <1>2, <1>3, GivenDisk DEF PageOf, Abstract!Live
  <1>6. \A m \in Notes \ {op.note} : PageOf(e, m) = PageOf(disk, m)
    BY <1>3, GivenDisk DEF PageOf
  <1>7. Abstract!Put(op.note, Abstract!Live(op.text))
    BY <1>1, <1>2, <1>5, <1>6, PutRefines
  <1>8. QED BY <1>2, <1>4, <1>7 DEF Abstract!Save

LEMMA DiscardRefines ==
    ASSUME IInv, MoveToTrash
    PROVE  \E n \in Notes : Abstract!Discard(n)
  <1> DEFINE dated == IF disk.dated[op.note] = "none" THEN "none" ELSE "another"
             e == [disk EXCEPT !.notes = [disk.notes EXCEPT ![op.note] = Nothing],
                               !.trash = [disk.trash EXCEPT ![op.note] = disk.notes[op.note]],
                               !.dated = [disk.dated EXCEPT ![op.note] = dated]]
  <1>1. At("commit") /\ disk.notes[op.note] # Nothing /\ Change(e)
    BY DEF MoveToTrash
  <1>2. op.note \in Notes
    BY <1>1, AtCommit
  <1> HIDE DEF dated
  <1>3. /\ e.notes = [disk.notes EXCEPT ![op.note] = Nothing]
        /\ e.trash = [disk.trash EXCEPT ![op.note] = disk.notes[op.note]]
    BY GivenDisk DEF Disk
  <1> HIDE DEF e
  <1>4. Shown(disk)[op.note] = [place |-> "live", text |-> disk.notes[op.note]]
    BY <1>1, <1>2 DEF Shown, PageOf
  <1>5. PageOf(e, op.note) = Abstract!Trashed(Shown(disk)[op.note].text)
    BY <1>1, <1>2, <1>3, <1>4, GivenDisk DEF PageOf, Abstract!Trashed
  <1>6. \A m \in Notes \ {op.note} : PageOf(e, m) = PageOf(disk, m)
    BY <1>3, GivenDisk DEF PageOf
  <1>7. Abstract!Put(op.note, Abstract!Trashed(Shown(disk)[op.note].text))
    BY <1>1, <1>2, <1>5, <1>6, PutRefines
  <1>8. QED BY <1>2, <1>4, <1>7 DEF Abstract!Discard

LEMMA RestoreRefines ==
    ASSUME IInv, LinkBack
    PROVE  \E n \in Notes : Abstract!Restore(n)
  <1> DEFINE e == [disk EXCEPT !.notes = [disk.notes EXCEPT ![op.note] = disk.trash[op.note]]]
  <1>1. /\ At("commit") /\ disk.trash[op.note] # Nothing /\ disk.notes[op.note] = Nothing
        /\ Change(e)
    BY DEF LinkBack
  <1>2. op.note \in Notes
    BY <1>1, AtCommit
  <1>3. e.notes = [disk.notes EXCEPT ![op.note] = disk.trash[op.note]] /\ e.trash = disk.trash
    BY GivenDisk DEF Disk
  <1> HIDE DEF e
  <1>4. Shown(disk)[op.note] = [place |-> "trashed", text |-> disk.trash[op.note]]
    BY <1>1, <1>2 DEF Shown, PageOf
  <1>5. PageOf(e, op.note) = Abstract!Live(Shown(disk)[op.note].text)
    BY <1>1, <1>2, <1>3, <1>4, GivenDisk DEF PageOf, Abstract!Live
  <1>6. \A m \in Notes \ {op.note} : PageOf(e, m) = PageOf(disk, m)
    BY <1>3, GivenDisk DEF PageOf
  <1>7. Abstract!Put(op.note, Abstract!Live(Shown(disk)[op.note].text))
    BY <1>1, <1>2, <1>5, <1>6, PutRefines
  <1>8. QED BY <1>2, <1>4, <1>7 DEF Abstract!Restore

LEMMA StepRefines == IInv /\ [Next]_vars => [Abstract!Next]_(Abstract!vars)
  <1> SUFFICES ASSUME IInv, [Next]_vars PROVE Abstract!Next \/ UNCHANGED Abstract!vars
    OBVIOUS
  <1>1. CASE UNCHANGED vars
    BY <1>1 DEF vars, Abstract!vars
  <1>2. CASE \/ \E kind \in Operations, n \in Notes, t \in Texts \union {Nothing} : Begin(kind, n, t)
             \/ BackUpBeforeMutation \/ SweepScratch \/ BuildSnapshot \/ SnapshotFails \/ Retain
             \/ RemoveFails \/ Refuse \/ CommitFails \/ Return \/ Restart \/ Crash \/ SetClock
    <2>1. Keeps
      BY <1>2 DEF Begin, BackUpBeforeMutation, SweepScratch, BuildSnapshot, SnapshotFails,
         Retain, RemoveFails, Refuse, CommitFails, Return, Restart, Crash, SetClock
    <2>2. QED BY <2>1, KeepingRefines
  <1>3. CASE ShelveSnapshot \/ Gut \/ Remove \/ ImportImage
    BY <1>3, ShelfRefines
  <1>4. CASE SyncShelf \/ SyncNotes \/ SyncTrash
    <2>1. Sync
      BY <1>4 DEF SyncShelf, SyncNotes, SyncTrash
    <2>2. QED BY <2>1, SyncRefines DEF Abstract!Next
  <1>5. CASE CreateNote
    BY <1>5, CreateRefines DEF Abstract!Next
  <1>6. CASE SaveNote
    BY <1>6, SaveRefines DEF Abstract!Next
  <1>7. CASE MoveToTrash
    BY <1>7, DiscardRefines DEF Abstract!Next
  <1>8. CASE LinkBack
    BY <1>8, RestoreRefines DEF Abstract!Next
  <1>9. CASE DateTrash \/ UnlinkTrash \/ RemoveRecord
    BY <1>9, TidyingRefines
  <1>10. CASE PowerLoss
    BY <1>10, PowerLossRefines DEF Abstract!Next
  <1>11. QED
    BY <1>1, <1>2, <1>3, <1>4, <1>5, <1>6, <1>7, <1>8, <1>9, <1>10 DEF Next

LEMMA InitRefines == Init => Abstract!Init
  <1> SUFFICES ASSUME Init PROVE Abstract!Init
    OBVIOUS
  <1>1. Shown(disk) = [n \in Notes |-> Abstract!Absent]
    BY DEF Init, EmptyDisk, Shown, PageOf, Abstract!Absent
  <1>2. {Shown(d) : d \in survivors} = {Shown(disk)}
    BY DEF Init
  <1>3. QED BY <1>1, <1>2 DEF Abstract!Init

-----------------------------------------------------------------------------
(* The theorems                                                            *)

\* What relates the directories, the operation at work on them, its schedule
\* and what a power loss may leave, at every step (core/storage.rs, backup.rs,
\* trash.rs, atomic_file.rs).
THEOREM StoreFilesInvariant == Spec => []IInv
  BY InitIInv, NextKeepsIInv, PTL DEF Spec

\* The directories, the snapshots and the schedule are of their types.
THEOREM StoreFilesTyped == Spec => []TypeOK
  <1>1. IInv => TypeOK
    BY DEF IInv
  <1>2. QED BY <1>1, StoreFilesInvariant, PTL

\* Whatever call failed, an answer tells where the note is and what it holds,
\* and what was done without trouble is beyond a power loss (write.rs,
\* atomic_file.rs: sync_directory_after_commit).
THEOREM AnswersAlwaysHold == Spec => []AnswersHold
  <1>1. ASSUME IInv PROVE AnswersHold
    <2> SUFFICES ASSUME At("answer") PROVE AnswersHold
      BY DEF AnswersHold
    <2>1. /\ op \in Ops /\ op.step = "answer" /\ Committed(op, disk)
          /\ Synced(op, faults, disk, survivors)
      BY <1>1, AtStep
    <2>2. /\ op.ok => PageOf(disk, op.note) = Result(op)
          /\ ~op.ok => PageOf(disk, op.note) = op.before
      BY <2>1 DEF Committed, Preparing, Ops
    <2>3. op.ok /\ op.after = faults => Hardened(disk, survivors)
      BY <2>1 DEF Synced
    <2>4. PageOf(disk, op.note) =
            IF ~op.ok \/ op.kind \in {"backup", "import"} THEN op.before
            ELSE IF op.kind \in {"create", "save"} THEN [place |-> "live", text |-> op.text]
            ELSE IF op.kind = "discard" THEN [place |-> "trashed", text |-> op.before.text]
            ELSE [place |-> "live", text |-> op.before.text]
      <3>1. op.ok => PageOf(disk, op.note) =
              IF op.kind \in {"backup", "import"} THEN op.before
              ELSE IF op.kind \in {"create", "save"} THEN [place |-> "live", text |-> op.text]
              ELSE IF op.kind = "discard" THEN [place |-> "trashed", text |-> op.before.text]
              ELSE [place |-> "live", text |-> op.before.text]
        BY <2>2 DEF Result
      <3>2. QED BY <2>2, <3>1
    <2>5. QED BY <2>3, <2>4 DEF AnswersHold, Hardened
  <1>2. QED BY <1>1, StoreFilesInvariant, PTL

\* A backup that was answered as made is on the shelf and whole, or as many as
\* are kept are no older; and what is listed as whole has its pictures
\* (backup.rs: create_snapshot, apply_retention).
THEOREM BackupsAreKept == Spec => []BackupKept
  <1>1. ASSUME IInv PROVE BackupKept
    <2>1. ASSUME At("answer"), op.kind = "backup", op.ok
          PROVE  \/ \E s \in Listed(disk) :
                      s.whole /\ \A n \in Notes : PageOf(s, n) = PageOf(disk, n)
                 \/ Cardinality({s \in Listed(disk) : s.whole /\ s.name[1] >= op.now}) >= Keep
      <3>1. op.step = "answer" /\ Making(op, disk, scratch)
        BY <1>1, <2>1, AtStep
      <3>2. \/ \E s \in disk.shelf : IsOf(s, disk, op.now)
            \/ Cardinality(Since(disk.shelf, op.now)) >= Keep
        BY <2>1, <3>1 DEF Making
      <3>3. ASSUME NEW s \in disk.shelf, IsOf(s, disk, op.now)
            PROVE  s \in Listed(disk) /\ s.whole /\ \A n \in Notes : PageOf(s, n) = PageOf(disk, n)
        BY <3>3 DEF IsOf, Listed, PageOf
      <3>4. {s \in Listed(disk) : s.whole /\ s.name[1] >= op.now} = Since(disk.shelf, op.now)
        BY DEF Listed, Since
      <3>5. QED BY <3>2, <3>3, <3>4
    <2>2. \A s \in Listed(disk) : Pictured(s)
      BY <1>1, GivenDisk DEF ShelfInv, Listed
    <2>3. QED BY <2>1, <2>2 DEF BackupKept, Pictured
  <1>2. QED BY <1>1, StoreFilesInvariant, PTL

\* No note is created, overwritten or discarded without a complete snapshot less
\* than the interval old, or an attempt at one within the retry span
\* (storage.rs: back_up_before_mutation; backup.rs: automatic_backup_owed).
THEOREM EveryDayIsCovered == Spec => DayIsCovered
  <1> DEFINE Covered == \/ \E s \in Listed(disk) : s.whole /\ clock - s.name[1] < Interval
                        \/ schedule.attempt # Nothing /\ clock - schedule.attempt < Retry
  <1>1. ASSUME IInv, CreateNote \/ SaveNote \/ MoveToTrash PROVE Covered
    <2>1. At("commit") /\ op.kind \in {"create", "save", "discard"}
      BY <1>1 DEF CreateNote, SaveNote, MoveToTrash
    <2>2. \/ schedule.success # Nothing /\ clock - schedule.success < Interval
          \/ schedule.attempt # Nothing /\ clock - schedule.attempt < Retry
      BY <1>1, <2>1, AtStep DEF Allowed
    <2>3. ASSUME schedule.success # Nothing, clock - schedule.success < Interval
          PROVE  \E s \in Listed(disk) : s.whole /\ clock - s.name[1] < Interval
      <3>1. PICK s \in Since(disk.shelf, schedule.success) : TRUE
        BY <1>1, <2>3 DEF IInv, SuccessIsDated, Dated
      <3>2. s \in Listed(disk) /\ s.whole /\ s.name[1] >= schedule.success /\ s \in Snapshot
        BY <1>1, <3>1, GivenDisk DEF Since, Listed
      <3>3. schedule.success \in Int /\ s.name[1] \in Int /\ clock \in Int /\ Interval \in Int
        BY <1>1, <2>3, <3>2, LoadedIsDated, GivenDisk, RanksOrder, SpansAssumption
           DEF Schedules, Time
      <3>4. clock - s.name[1] < Interval
        BY <2>3, <3>2, <3>3
      <3>5. QED BY <3>2, <3>4
    <2>4. QED BY <2>2, <2>3
  <1>2. IInv /\ [Next]_vars => [CreateNote \/ SaveNote \/ MoveToTrash => Covered]_vars
    BY <1>1
  <1>3. QED BY <1>2, StoreFilesInvariant, PTL DEF Spec, DayIsCovered

\* The directories are the notebook: each operation takes effect in one of its
\* calls, a restore never shows a note twice, and a power loss takes the
\* notebook back to what it was at one instant.
THEOREM DirectoriesAreTheNotebook == Spec => IsNotebook
  BY InitRefines, StepRefines, StoreFilesInvariant, PTL DEF Spec, IsNotebook, Abstract!Spec

=============================================================================
