------------------------- MODULE EpubSectionProofs -------------------------
(***************************************************************************)
(* Proofs about EpubSection for any set of layouts and any length of the   *)
(* chapter: the cache and the section always fit each other, and the card  *)
(* keeps the promise of SectionStore.                                      *)
(***************************************************************************)
EXTENDS EpubSection, TLAPS

Files == Caches \cup {NoFile}

Spare(c) == IF c.bin # NoFile THEN c.bak ELSE NoFile

\* The pages that the section reads from the file.
FromFile(s) == IF s.building THEN s.partial ELSE s.avail

\* What the section offers from the file is in the file, and a partial chapter
\* that still grows knows all that the file covers, unless it could not see it.
Fit(c, s) ==
  /\ FromFile(s) > 0 => Stored(c) # NoFile /\ Stored(c).pages >= FromFile(s)
  /\ (s.building \/ s.partial > 0) /\ ~s.blind /\ Stored(c) # NoFile =>
       ~Stored(c).whole /\ Stored(c).pages <= s.partial

\* The section is laid out, and what it reads from the file is, as the settings ask.
InLayout(c, s) == s.spec = spec /\ (FromFile(s) > 0 => Stored(c).spec = spec)

\* There is no section before the render has opened one.
NoneYet == pc \in {"off", "away", "open"} => sec = NoSection

\* Only a turn of the page that asks for another draw leaves a draw behind the end.
TurnedAway == pc = "show" /\ sec.avail > 0 /\ sec.page >= sec.avail => pending

SectionFits ==
  sec # NoSection => SectionOK(sec) /\ Fit(card, sec) /\ (~relayout => InLayout(card, sec))

Control == ControlOK /\ NoneYet /\ TurnedAway /\ NoDeadMessage

SectionInv == CardOK(card) /\ SectionFits /\ Control

-----------------------------------------------------------------------------
(* What an operation does to the card, as SectionStore sees it.            *)

Same(c, d)  == Stored(d) = Stored(c) /\ Spare(d) \in {NoFile, Spare(c)}
Puts(c, d, new) == Stored(d) = new /\ Spare(d) \in {NoFile, Spare(c), Stored(c)}
Drops(c, d) == Stored(d) \in {NoFile, Spare(c)} /\ Spare(d) = NoFile

\* The file is kept, or replaced by one that covers it.
Keeps(c, d, unseen) ==
  \/ Same(c, d)
  \/ \E new \in Caches :
       Puts(c, d, new) /\ (Stored(c) = NoFile \/ unseen \/ Store!Covers(new, Stored(c)))

LEMMA CardFields ==
  ASSUME NEW c, CardOK(c)
  PROVE  /\ c.bin \in Files /\ c.bak \in Files /\ Stored(c) \in Files
         /\ c = [bin |-> c.bin, bak |-> c.bak]
  BY DEF CardOK, Files, Stored

LEMMA CacheFields ==
  ASSUME NEW f \in Caches
  PROVE  /\ f # NoFile /\ f.spec \in Specs /\ f.pages \in 1..Total /\ f.whole \in BOOLEAN
         /\ f.whole => f.pages = Total
  <1>1. f # NoFile
    BY NoFileIsNone
  <1> QED
    BY <1>1 DEF Caches

LEMMA MakesCache ==
  ASSUME NEW sp \in Specs
  PROVE  /\ Cache(sp, Total, TRUE) \in Caches
         /\ \A n \in 1..Total : Cache(sp, n, FALSE) \in Caches
  BY ConstantsAssumption DEF Caches, Cache

LEMMA RecoversCard ==
  ASSUME NEW c, CardOK(c), NEW r \in Recovers(c)
  PROVE  /\ CardOK(r.card) /\ Same(c, r.card) /\ r.cost \in Nat /\ r.ok \in BOOLEAN
         /\ r.card.bin # NoFile => r.card.bak = NoFile
         /\ r.ok => r.card.bak = NoFile
  <1>0. CardOK(c) /\ c.bin \in Files /\ c.bak \in Files
    BY CardFields
  <1>1. CASE c.bak = NoFile
    <2>1. r = [card |-> c, ok |-> TRUE, cost |-> 0]
      BY <1>1 DEF Recovers, Outcome
    <2> QED
      BY <1>0, <1>1, <2>1 DEF Same, Stored, Spare
  <1>2. CASE c.bak # NoFile /\ c.bin # NoFile
    <2>1. r = [card |-> [c EXCEPT !.bak = NoFile], ok |-> TRUE, cost |-> 0]
      BY <1>2 DEF Recovers, Outcome
    <2>2. r.card \in [bin : Files, bak : Files] /\ r.card.bin = c.bin /\ r.card.bak = NoFile
      BY <1>0, <2>1 DEF CardOK, Files
    <2> QED
      BY <1>2, <2>1, <2>2 DEF Same, Stored, Spare, CardOK, Files
  <1>3. CASE c.bak # NoFile /\ c.bin = NoFile
    <2>1. \/ r = [card |-> [bin |-> c.bak, bak |-> NoFile], ok |-> TRUE, cost |-> 0]
          \/ r = [card |-> c, ok |-> FALSE, cost |-> 1]
      BY <1>3 DEF Recovers, Outcome
    <2>2. CASE r = [card |-> c, ok |-> FALSE, cost |-> 1]
      BY <1>0, <1>3, <2>2 DEF Same, Stored, Spare
    <2>3. CASE r = [card |-> [bin |-> c.bak, bak |-> NoFile], ok |-> TRUE, cost |-> 0]
      BY <1>0, <1>3, <2>3 DEF Same, Stored, Spare, CardOK, Files
    <2> QED
      BY <2>1, <2>2, <2>3
  <1> QED
    BY <1>0, <1>1, <1>2, <1>3 DEF Files

LEMMA SwapsCard ==
  ASSUME NEW c, CardOK(c), NEW new \in Caches, c.bin # NoFile => c.bak = NoFile,
         NEW o \in Swaps(c, new)
  PROVE  /\ CardOK(o.card) /\ o.cost \in Nat /\ o.ok \in BOOLEAN
         /\ o.ok => Puts(c, o.card, new)
         /\ ~o.ok => Same(c, o.card) /\ o.cost > 0
  <1>0. new # NoFile /\ new \in Files /\ NoFile \in Files /\ c.bin \in Files /\ c.bak \in Files
    BY CacheFields, CardFields DEF Files
  <1>1. CASE c.bin = NoFile
    <2>1. \/ o = [card |-> [c EXCEPT !.bin = new], ok |-> TRUE, cost |-> 0]
          \/ o = [card |-> c, ok |-> FALSE, cost |-> 1]
      BY <1>1 DEF Swaps, Outcome
    <2>2. CASE o = [card |-> c, ok |-> FALSE, cost |-> 1]
      BY <2>2 DEF Same
    <2>3. CASE o = [card |-> [c EXCEPT !.bin = new], ok |-> TRUE, cost |-> 0]
      <3>1. o.card \in [bin : Files, bak : Files] /\ o.card.bin = new /\ o.card.bak = c.bak
        BY <1>0, <2>3 DEF CardOK, Files
      <3> QED
        BY <1>0, <1>1, <2>3, <3>1 DEF Puts, Stored, Spare, CardOK, Files
    <2> QED
      BY <2>1, <2>2, <2>3
  <1>2. CASE c.bin # NoFile
    <2>1. \/ o = [card |-> [bin |-> new, bak |-> NoFile], ok |-> TRUE, cost |-> 0]
          \/ o = [card |-> c, ok |-> FALSE, cost |-> 1]
          \/ o = [card |-> [bin |-> NoFile, bak |-> c.bin], ok |-> FALSE, cost |-> 2]
      BY <1>2 DEF Swaps, Outcome
    <2>2. CASE o = [card |-> c, ok |-> FALSE, cost |-> 1]
      BY <2>2 DEF Same
    <2>3. CASE o = [card |-> [bin |-> new, bak |-> NoFile], ok |-> TRUE, cost |-> 0]
      BY <1>0, <1>2, <2>3 DEF Puts, Stored, Spare, CardOK, Files
    <2>4. CASE o = [card |-> [bin |-> NoFile, bak |-> c.bin], ok |-> FALSE, cost |-> 2]
      BY <1>0, <1>2, <2>4 DEF Same, Stored, Spare, CardOK, Files
    <2> QED
      BY <2>1, <2>2, <2>3, <2>4
  <1> QED
    BY <1>1, <1>2

LEMMA CommitsCard ==
  ASSUME NEW c, CardOK(c), NEW new \in Caches, NEW o \in Commits(c, new)
  PROVE  /\ CardOK(o.card) /\ o.cost \in Nat /\ o.ok \in BOOLEAN
         /\ o.ok => Puts(c, o.card, new)
         /\ ~o.ok => Same(c, o.card) /\ o.cost > 0
  <1>1. CASE o = Outcome(c, FALSE, 1)
    BY <1>1 DEF Outcome, Same
  <1>2. CASE o # Outcome(c, FALSE, 1)
    <2>1. PICK r \in Recovers(c) : \E s \in Swaps(r.card, new) : o = [s EXCEPT !.cost = @ + r.cost]
      BY <1>2 DEF Commits
    <2>2. PICK s \in Swaps(r.card, new) : o = [s EXCEPT !.cost = @ + r.cost]
      BY <2>1
    <2>3. /\ CardOK(r.card) /\ Same(c, r.card) /\ r.cost \in Nat
          /\ r.card.bin # NoFile => r.card.bak = NoFile
      BY RecoversCard
    <2>4. /\ CardOK(s.card) /\ s.cost \in Nat /\ s.ok \in BOOLEAN
          /\ s.ok => Puts(r.card, s.card, new)
          /\ ~s.ok => Same(r.card, s.card) /\ s.cost > 0
      BY <2>3, SwapsCard
    <2>5. s = [card |-> s.card, ok |-> s.ok, cost |-> s.cost]
      BY DEF Swaps, Outcome
    <2>6. o.card = s.card /\ o.ok = s.ok /\ o.cost = s.cost + r.cost
      BY <2>2, <2>5
    <2> QED
      BY <2>3, <2>4, <2>6 DEF Same, Puts
  <1> QED
    BY <1>1, <1>2

LEMMA HalfwayCard ==
  ASSUME NEW c, CardOK(c), NEW new \in Caches, NEW d \in Halfway(c, new)
  PROVE  CardOK(d) /\ (Same(c, d) \/ Puts(c, d, new))
  <1>1. PICK r \in Recovers(c) :
          d \in IF r.card.bin = NoFile THEN {r.card, [r.card EXCEPT !.bin = new]}
                ELSE {r.card, [bin |-> NoFile, bak |-> r.card.bin],
                      [bin |-> new, bak |-> r.card.bin], [bin |-> new, bak |-> NoFile]}
    BY DEF Halfway
  <1>2. CardOK(r.card) /\ Same(c, r.card) /\ (r.card.bin # NoFile => r.card.bak = NoFile)
    BY RecoversCard
  <1>3. new # NoFile
    BY CacheFields
  <1>4. CardOK(d) /\ (Same(r.card, d) \/ Puts(r.card, d, new))
    <2>1. CASE r.card.bin = NoFile
      BY <1>1, <1>2, <1>3, <2>1 DEF Same, Puts, Stored, Spare, CardOK
    <2>2. CASE r.card.bin # NoFile
      BY <1>1, <1>2, <1>3, <2>2 DEF Same, Puts, Stored, Spare, CardOK
    <2> QED
      BY <2>1, <2>2
  <1> QED
    BY <1>2, <1>4 DEF Same, Puts

\* A whole chapter covers everything.
LEMMA WholeCovers ==
  ASSUME NEW c, CardOK(c), NEW sp \in Specs, NEW d,
         Same(c, d) \/ Puts(c, d, Cache(sp, Total, TRUE)), NEW unseen
  PROVE  Keeps(c, d, unseen)
  <1>1. Stored(c) # NoFile => Store!Covers(Cache(sp, Total, TRUE), Stored(c))
    <2> SUFFICES ASSUME Stored(c) # NoFile
                 PROVE  Store!Covers(Cache(sp, Total, TRUE), Stored(c))
      OBVIOUS
    <2>1. Stored(c) \in Caches
      BY CardFields DEF Files
    <2> QED
      BY <2>1, CacheFields, ConstantsAssumption DEF Cache, Store!Covers
  <1>2. Cache(sp, Total, TRUE) \in Caches
    BY MakesCache
  <1> QED
    BY <1>1, <1>2 DEF Keeps

\* What follows what leaves the file alone.
LEMMA SameThen ==
  ASSUME NEW c, NEW d, NEW e, NEW unseen, Same(c, d)
  PROVE  /\ Same(d, e) => Same(c, e)
         /\ Keeps(d, e, unseen) => Keeps(c, e, unseen)
         /\ Drops(d, e) => Drops(c, e) \/ Same(c, e)
  BY DEF Same, Puts, Keeps, Drops

-----------------------------------------------------------------------------
(* What an operation does to the section and the card.                     *)

\* The two fit, and the file is kept, covered or, unless that is out of the
\* question, dropped.
Good(c, s, o, mayDrop) ==
  /\ CardOK(o.card) /\ SectionOK(o.sec) /\ Fit(o.card, o.sec)
  /\ InLayout(c, s) => InLayout(o.card, o.sec)
  /\ o.cost \in Nat /\ o.ok \in BOOLEAN /\ (~o.ok => ~o.sec.building)
  /\ Keeps(c, o.card, s.blind) \/ (mayDrop /\ Drops(c, o.card))

LEMMA MaxOfTwo ==
  ASSUME NEW a \in Nat, NEW b \in Nat
  PROVE  Max({a, b}) = IF a >= b THEN a ELSE b
  <1>1. \E x \in {a, b} : \A y \in {a, b} : x >= y
    OBVIOUS
  <1>2. Max({a, b}) \in {a, b} /\ \A y \in {a, b} : Max({a, b}) >= y
    BY <1>1 DEF Max
  <1> QED
    BY <1>2

LEMMA SectionUpdates ==
  ASSUME NEW s \in Sections
  PROVE  /\ \A b \in BOOLEAN : /\ [s EXCEPT !.building = b] \in Sections
                              /\ [s EXCEPT !.low = b] \in Sections
         /\ \A n \in 0..Total : /\ [s EXCEPT !.built = n] \in Sections
                               /\ [s EXCEPT !.partial = n] \in Sections
                               /\ [s EXCEPT !.avail = n] \in Sections
         /\ \A sp \in Specs : [s EXCEPT !.spec = sp] \in Sections
         /\ \A p \in Pages : [s EXCEPT !.page = p] \in Sections
  BY DEF Sections

LEMMA IdleSection ==
  ASSUME NEW s \in Sections, NEW p \in 0..Total
  PROVE  /\ SectionOK(NotBuilding(s, p))
         /\ NotBuilding(s, p).partial = p /\ NotBuilding(s, p).avail = p
         /\ NotBuilding(s, p).built = 0 /\ ~NotBuilding(s, p).building
         /\ NotBuilding(s, p).spec = s.spec /\ NotBuilding(s, p).page = s.page
         /\ NotBuilding(s, p).low = s.low /\ NotBuilding(s, p).blind = s.blind
  <1>1. /\ NotBuilding(s, p).partial = p /\ NotBuilding(s, p).avail = p
        /\ NotBuilding(s, p).built = 0 /\ ~NotBuilding(s, p).building
    BY ConstantsAssumption DEF Sections, NotBuilding
  <1>2. /\ NotBuilding(s, p).spec = s.spec /\ NotBuilding(s, p).page = s.page
        /\ NotBuilding(s, p).low = s.low /\ NotBuilding(s, p).blind = s.blind
    BY ConstantsAssumption DEF Sections, NotBuilding
  <1>3. NotBuilding(s, p) \in Sections
    <2>1. [s EXCEPT !.building = FALSE] \in Sections
      BY SectionUpdates
    <2>2. [[s EXCEPT !.building = FALSE] EXCEPT !.built = 0] \in Sections
      <3>1. 0 \in 0..Total
        BY ConstantsAssumption
      <3> QED
        BY <2>1, <3>1, SectionUpdates
    <2>3. [[[s EXCEPT !.building = FALSE] EXCEPT !.built = 0] EXCEPT !.partial = p] \in Sections
      BY <2>2, SectionUpdates
    <2>4. NotBuilding(s, p) =
            [[[[s EXCEPT !.building = FALSE] EXCEPT !.built = 0] EXCEPT !.partial = p] EXCEPT !.avail = p]
      BY DEF NotBuilding
    <2> QED
      BY <2>3, <2>4, SectionUpdates
  <1> QED
    BY <1>1, <1>2, <1>3 DEF SectionOK, Sections

\* Where nothing is laid out, a section fits if its pages are in the file.
LEMMA IdleFits ==
  ASSUME NEW c, CardOK(c), NEW s, SectionOK(s), Fit(c, s), s.building \/ s.avail = s.partial,
         NEW d, Same(c, d)
  PROVE  /\ Fit(d, NotBuilding(s, s.partial))
         /\ InLayout(c, s) => InLayout(d, NotBuilding(s, s.partial))
  <1>1. /\ NotBuilding(s, s.partial).partial = s.partial
        /\ NotBuilding(s, s.partial).avail = s.partial
        /\ NotBuilding(s, s.partial).building = FALSE
        /\ NotBuilding(s, s.partial).blind = s.blind
        /\ NotBuilding(s, s.partial).spec = s.spec
    <2>1. s \in Sections /\ s.partial \in 0..Total
      BY DEF SectionOK, Sections
    <2> QED
      BY <2>1, IdleSection
  <1>2. FromFile(s) = s.partial /\ FromFile(NotBuilding(s, s.partial)) = s.partial
    BY <1>1 DEF FromFile
  <1> QED
    BY <1>1, <1>2 DEF Fit, Same, InLayout

\* A partial chapter, as it comes to be stored, covers the one before it.
LEMMA PartialCovers ==
  ASSUME NEW c, CardOK(c), NEW s, SectionOK(s), Fit(c, s), s.building, s.built > s.partial,
         NEW d, Puts(c, d, Cache(s.spec, s.built, FALSE)) \/ Same(c, d)
  PROVE  Keeps(c, d, s.blind)
  <1>1. Cache(s.spec, s.built, FALSE) \in Caches
    <2>1. s.spec \in Specs /\ s.built \in 1..Total
      BY ConstantsAssumption DEF SectionOK, Sections
    <2> QED
      BY <2>1, MakesCache
  <1>2. Stored(c) # NoFile /\ ~s.blind => Store!Covers(Cache(s.spec, s.built, FALSE), Stored(c))
    <2> SUFFICES ASSUME Stored(c) # NoFile, ~s.blind
                 PROVE  Store!Covers(Cache(s.spec, s.built, FALSE), Stored(c))
      OBVIOUS
    <2>1. Stored(c).pages \in 1..Total /\ Stored(c).whole \in BOOLEAN
      BY CardFields, CacheFields DEF Files
    <2>2. ~Stored(c).whole /\ Stored(c).pages <= s.partial
      BY DEF Fit
    <2> QED
      BY <2>1, <2>2, ConstantsAssumption DEF Cache, Store!Covers, SectionOK, Sections
  <1> QED
    BY <1>1, <1>2, ConstantsAssumption DEF Keeps, SectionOK, Sections

LEMMA SuspendsGood ==
  ASSUME NEW c, CardOK(c), NEW s, SectionOK(s), Fit(c, s), NEW o \in Suspends(c, s)
  PROVE  Good(c, s, o, FALSE) /\ ~o.sec.building
  <1>1. CASE ~s.building
    <2>1. o = Step(c, s, TRUE, 0) /\ Same(c, c)
      BY <1>1 DEF Suspends, Same
    <2> QED
      BY <1>1, <2>1 DEF Step, Good, Keeps
  <1>2. CASE s.building /\ s.built > s.partial
    <2>1. PICK p \in Commits(c, Cache(s.spec, s.built, FALSE)) :
            o = Step(p.card, NotBuilding(s, IF p.ok THEN s.built ELSE s.partial), p.ok, p.cost)
      BY <1>2 DEF Suspends
    <2>2. Cache(s.spec, s.built, FALSE) \in Caches
      <3>1. s.spec \in Specs /\ s.built \in 1..Total
        BY <1>2, ConstantsAssumption DEF SectionOK, Sections
      <3> QED
        BY <3>1, MakesCache
    <2>3. /\ CardOK(p.card) /\ p.cost \in Nat /\ p.ok \in BOOLEAN
          /\ p.ok => Puts(c, p.card, Cache(s.spec, s.built, FALSE))
          /\ ~p.ok => Same(c, p.card)
      BY <2>2, CommitsCard
    <2>4. Keeps(c, o.card, s.blind)
      BY <1>2, <2>1, <2>3, PartialCovers DEF Step
    <2>5. SectionOK(o.sec) /\ ~o.sec.building
      BY <2>1, <2>3, IdleSection DEF Step, SectionOK, Sections
    <2>6. Fit(o.card, o.sec) /\ (InLayout(c, s) => InLayout(o.card, o.sec))
      <3>1. CASE p.ok
        <4>1. s \in Sections /\ s.built \in 0..Total /\ s.built \in Nat
          BY ConstantsAssumption DEF SectionOK, Sections
        <4>2. o.card = p.card /\ o.sec = NotBuilding(s, s.built)
          BY <2>1, <3>1 DEF Step
        <4>3. /\ o.sec.partial = s.built /\ o.sec.avail = s.built /\ ~o.sec.building
              /\ FromFile(o.sec) = s.built /\ o.sec.spec = s.spec
          BY <4>1, <4>2, IdleSection DEF FromFile
        <4>4. /\ Stored(o.card) # NoFile /\ Stored(o.card).pages = s.built
              /\ ~Stored(o.card).whole /\ Stored(o.card).spec = s.spec
          BY <2>2, <2>3, <3>1, <4>2, CacheFields DEF Puts, Cache
        <4> QED
          BY <4>1, <4>3, <4>4 DEF Fit, InLayout
      <3>2. CASE ~p.ok
        BY <1>2, <2>1, <2>3, <3>2, IdleFits DEF Step
      <3> QED
        BY <2>3, <3>1, <3>2
    <2> QED
      BY <2>1, <2>3, <2>4, <2>5, <2>6 DEF Good, Step
  <1>3. CASE s.building /\ ~(s.built > s.partial)
    <2>1. o = Step(c, NotBuilding(s, s.partial), TRUE, 0)
      BY <1>3 DEF Suspends
    <2>2. /\ Same(c, c) /\ SectionOK(NotBuilding(s, s.partial))
          /\ ~NotBuilding(s, s.partial).building
      BY IdleSection DEF Same, SectionOK, Sections
    <2> QED
      BY <1>3, <2>1, <2>2, IdleFits DEF Step, Good, Keeps
  <1> QED
    BY <1>1, <1>2, <1>3

LEMMA AbandonedGood ==
  ASSUME NEW c, CardOK(c), NEW s \in Sections, NEW b, s.spec = b.spec \/ s.spec = spec
  PROVE  /\ Good(c, b, Abandoned(c, s), TRUE) /\ Abandoned(c, s).ok = FALSE
         /\ Same(c, Abandoned(c, s).card) \/ Drops(c, Abandoned(c, s).card)
  <1>1. /\ Abandoned(c, s).card = [bin |-> NoFile, bak |-> c.bak]
        /\ Abandoned(c, s).sec = NotBuilding(s, 0)
        /\ Abandoned(c, s).ok = FALSE /\ Abandoned(c, s).cost = 0
    BY CardFields DEF Abandoned, Step
  <1>2. /\ SectionOK(NotBuilding(s, 0)) /\ Fit(Abandoned(c, s).card, NotBuilding(s, 0))
        /\ ~NotBuilding(s, 0).building
        /\ InLayout(c, b) => InLayout(Abandoned(c, s).card, NotBuilding(s, 0))
    <2>1. 0 \in 0..Total
      BY ConstantsAssumption
    <2>2. /\ SectionOK(NotBuilding(s, 0)) /\ FromFile(NotBuilding(s, 0)) = 0
          /\ ~NotBuilding(s, 0).building /\ NotBuilding(s, 0).partial = 0
          /\ NotBuilding(s, 0).spec = s.spec
      BY <2>1, IdleSection DEF FromFile
    <2> QED
      BY <2>2 DEF Fit, InLayout
  <1>3. CardOK(Abandoned(c, s).card)
    BY <1>1, CardFields DEF CardOK, Files
  <1>4. Same(c, Abandoned(c, s).card) \/ Drops(c, Abandoned(c, s).card)
    BY <1>1 DEF Same, Drops, Stored, Spare
  <1> QED
    <2>1. /\ ~Abandoned(c, s).sec.building /\ SectionOK(Abandoned(c, s).sec) /\ Fit(Abandoned(c, s).card, Abandoned(c, s).sec)
          /\ InLayout(c, b) => InLayout(Abandoned(c, s).card, Abandoned(c, s).sec)
          /\ Abandoned(c, s).cost \in Nat /\ Abandoned(c, s).ok \in BOOLEAN
      <3>1. Abandoned(c, s).cost \in Nat /\ Abandoned(c, s).ok \in BOOLEAN
        BY <1>1, 0 \in Nat, Zenon
      <3> QED
        BY <1>1, <1>2, <3>1, Zenon
    <2>2. Keeps(c, Abandoned(c, s).card, b.blind) \/ Drops(c, Abandoned(c, s).card)
      BY <1>4 DEF Keeps
    <2> QED
      BY <1>1, <1>3, <1>4, <2>1, <2>2 DEF Good

\* A build begins behind what is stored, or where nothing can be seen.
LEMMA StartsGood ==
  ASSUME NEW c, CardOK(c), NEW s, SectionOK(s), Fit(c, s), ~s.building,
         s.partial > 0 \/ s.blind \/ Stored(c) = NoFile, spec \in Specs,
         NEW o \in Starts(c, s)
  PROVE  /\ Good(c, s, o, TRUE) /\ (Same(c, o.card) \/ Drops(c, o.card))
         /\ o.ok => o.sec.building
  <1> DEFINE idle == [NotBuilding(s, s.partial) EXCEPT !.spec = spec]
  <1>1. s \in Sections /\ s.partial \in 0..Total /\ s.partial <= s.avail /\ s.avail \in 0..Total
    BY DEF SectionOK, Sections
  <1>2. NotBuilding(s, s.partial) \in Sections
    BY <1>1, IdleSection DEF SectionOK
  <1>3. /\ idle \in Sections /\ idle.partial = s.partial /\ idle.avail = s.partial
        /\ idle.built = 0 /\ ~idle.building /\ idle.blind = s.blind /\ idle.spec = spec
    <2>1. idle \in Sections
      BY <1>2, SectionUpdates
    <2>2. /\ idle.partial = NotBuilding(s, s.partial).partial
          /\ idle.avail = NotBuilding(s, s.partial).avail
          /\ idle.built = NotBuilding(s, s.partial).built
          /\ idle.building = NotBuilding(s, s.partial).building
          /\ idle.blind = NotBuilding(s, s.partial).blind /\ idle.spec = spec
      BY <1>2 DEF Sections
    <2> QED
      BY <1>1, <2>1, <2>2, IdleSection
  <1> HIDE DEF idle
  <1>4. Same(c, c)
    BY DEF Same
  <1>5. /\ s.partial > 0 => Stored(c) # NoFile /\ Stored(c).pages >= s.partial
        /\ ~s.blind /\ Stored(c) # NoFile => ~Stored(c).whole /\ Stored(c).pages <= s.partial
        /\ InLayout(c, s) /\ s.partial > 0 => Stored(c).spec = spec
    <2>1. Stored(c) # NoFile => Stored(c).pages \in Nat
      BY CardFields, CacheFields, ConstantsAssumption DEF Files
    <2> QED
      BY <1>1, <2>1, ConstantsAssumption DEF Fit, FromFile, InLayout
  <1>6. ASSUME NEW l \in BOOLEAN
        PROVE  /\ SectionOK([idle EXCEPT !.low = l]) /\ Fit(c, [idle EXCEPT !.low = l])
               /\ InLayout(c, s) => InLayout(c, [idle EXCEPT !.low = l])
               /\ [idle EXCEPT !.low = l] \in Sections /\ [idle EXCEPT !.low = l].spec = spec
               /\ ~[idle EXCEPT !.low = l].building
    <2> DEFINE t == [idle EXCEPT !.low = l]
    <2>1. /\ t \in Sections /\ t.partial = s.partial /\ t.avail = s.partial /\ t.built = 0
          /\ ~t.building /\ t.blind = s.blind /\ t.spec = spec
      BY <1>3, SectionUpdates DEF Sections
    <2> HIDE DEF t
    <2>2. SectionOK(t)
      BY <1>1, <2>1, ConstantsAssumption DEF SectionOK
    <2>3. Fit(c, t) /\ (InLayout(c, s) => InLayout(c, t))
      BY <1>1, <1>5, <2>1, ConstantsAssumption DEF Fit, FromFile, InLayout
    <2> QED
      BY <2>1, <2>2, <2>3 DEF t
  <1>7. CASE o = Step(c, [idle EXCEPT !.building = TRUE, !.low = FALSE], TRUE, 0)
    <2> DEFINE t == [idle EXCEPT !.building = TRUE, !.low = FALSE]
    <2>1. /\ t \in Sections /\ t.partial = s.partial /\ t.avail = s.partial /\ t.built = 0
          /\ t.building /\ t.blind = s.blind /\ t.spec = spec
      <3>1. [idle EXCEPT !.building = TRUE] \in Sections
        BY <1>3, SectionUpdates
      <3>2. t \in Sections
        BY <3>1, SectionUpdates
      <3> QED
        BY <1>3, <3>2 DEF Sections
    <2> HIDE DEF t
    <2>2. SectionOK(t)
      BY <1>1, <2>1, MaxOfTwo, ConstantsAssumption DEF SectionOK
    <2>3. Fit(c, t) /\ (InLayout(c, s) => InLayout(c, t))
      BY <1>1, <1>5, <2>1 DEF Fit, FromFile, InLayout
    <2>4. o = Step(c, t, TRUE, 0)
      BY <1>7 DEF t
    <2> QED
      BY <1>4, <2>1, <2>2, <2>3, <2>4 DEF Step, Good, Keeps
  <1>8. CASE \E l \in BOOLEAN : o = Step(c, [idle EXCEPT !.low = l], FALSE, 0)
    <2>1. PICK l \in BOOLEAN : o = Step(c, [idle EXCEPT !.low = l], FALSE, 0)
      BY <1>8
    <2> DEFINE t == [idle EXCEPT !.low = l]
    <2>2. SectionOK(t) /\ Fit(c, t) /\ (InLayout(c, s) => InLayout(c, t)) /\ ~t.building
      BY <1>6
    <2>3. o = Step(c, t, FALSE, 0)
      BY <2>1
    <2> HIDE DEF t
    <2> QED
      BY <1>4, <2>2, <2>3 DEF Step, Good, Keeps
  <1>9. CASE \E l \in BOOLEAN : o = Abandoned(c, [idle EXCEPT !.low = l])
    <2>1. PICK l \in BOOLEAN : o = Abandoned(c, [idle EXCEPT !.low = l])
      BY <1>9
    <2> QED
      BY <1>6, <2>1, AbandonedGood
  <1> QED
    BY <1>7, <1>8, <1>9 DEF Starts, idle

LEMMA FinishesGood ==
  ASSUME NEW c, CardOK(c), NEW s, SectionOK(s), Fit(c, s), s.building, NEW o \in Finishes(c, s)
  PROVE  Good(c, s, o, TRUE)
  <1>0. s \in Sections /\ s.spec \in Specs /\ s.partial \in 0..Total
    BY DEF SectionOK, Sections
  <1>1. CASE \E l \in BOOLEAN : o = Abandoned(c, [s EXCEPT !.low = l])
    <2>1. PICK l \in BOOLEAN : o = Abandoned(c, [s EXCEPT !.low = l])
      BY <1>1
    <2>2. [s EXCEPT !.low = l] \in Sections /\ [s EXCEPT !.low = l].spec = s.spec
      BY <1>0, SectionUpdates DEF Sections
    <2> QED
      BY <2>1, <2>2, AbandonedGood
  <1>2. CASE \E p \in Commits(c, Cache(s.spec, Total, TRUE)) :
               o = Step(p.card,
                        IF p.ok THEN [s EXCEPT !.building = FALSE, !.built = 0, !.partial = 0, !.avail = Total]
                        ELSE NotBuilding(s, s.partial),
                        p.ok, p.cost)
    <2> DEFINE new == Cache(s.spec, Total, TRUE)
               t   == [s EXCEPT !.building = FALSE, !.built = 0, !.partial = 0, !.avail = Total]
    <2>1. PICK p \in Commits(c, new) :
            o = Step(p.card, IF p.ok THEN t ELSE NotBuilding(s, s.partial), p.ok, p.cost)
      BY <1>2
    <2>2. new \in Caches
      BY <1>0, MakesCache
    <2>3. /\ CardOK(p.card) /\ p.cost \in Nat /\ p.ok \in BOOLEAN
          /\ p.ok => Puts(c, p.card, new)
          /\ ~p.ok => Same(c, p.card)
      BY <2>2, CommitsCard
    <2>4. Keeps(c, p.card, s.blind)
      BY <1>0, <2>3, WholeCovers
    <2>5. CASE p.ok
      <3>1. /\ t \in Sections /\ t.partial = 0 /\ t.avail = Total /\ t.built = 0 /\ ~t.building
            /\ t.spec = s.spec
        <4>0. 0 \in 0..Total /\ Total \in 0..Total
          BY ConstantsAssumption
        <4>1. [s EXCEPT !.building = FALSE] \in Sections
          BY <1>0, SectionUpdates
        <4>2. [[s EXCEPT !.building = FALSE] EXCEPT !.built = 0] \in Sections
          BY <4>0, <4>1, SectionUpdates
        <4>3. [[[s EXCEPT !.building = FALSE] EXCEPT !.built = 0] EXCEPT !.partial = 0] \in Sections
          BY <4>0, <4>2, SectionUpdates
        <4>4. t \in Sections
          BY <4>0, <4>3, SectionUpdates
        <4> QED
          BY <1>0, <4>4 DEF Sections
      <3> HIDE DEF t
      <3>2. SectionOK(t)
        BY <3>1, ConstantsAssumption DEF SectionOK
      <3>3. /\ Stored(p.card) # NoFile /\ Stored(p.card).pages = Total
            /\ Stored(p.card).spec = s.spec
        BY <2>2, <2>3, <2>5, CacheFields DEF Puts, Cache
      <3>4. Fit(p.card, t) /\ (InLayout(c, s) => InLayout(p.card, t))
        BY <3>1, <3>3, ConstantsAssumption DEF Fit, FromFile, InLayout
      <3>5. o = Step(p.card, t, p.ok, p.cost)
        BY <2>1, <2>5
      <3> QED
        BY <2>3, <2>4, <2>5, <3>2, <3>4, <3>5 DEF Good, Step
    <2>6. CASE ~p.ok
      <3>1. o = Step(p.card, NotBuilding(s, s.partial), p.ok, p.cost)
        BY <2>1, <2>6
      <3>2. SectionOK(NotBuilding(s, s.partial)) /\ ~NotBuilding(s, s.partial).building
        BY <1>0, IdleSection
      <3>3. /\ Fit(p.card, NotBuilding(s, s.partial))
            /\ InLayout(c, s) => InLayout(p.card, NotBuilding(s, s.partial))
        BY <2>3, <2>6, IdleFits
      <3> QED
        BY <2>3, <2>4, <3>1, <3>2, <3>3 DEF Good, Step
    <2> QED
      BY <2>3, <2>5, <2>6
  <1> QED
    BY <1>1, <1>2 DEF Finishes

\* A build that has reached page n.
Laid(s, n) == [s EXCEPT !.built = n, !.avail = Max({@, n})]

LEMMA LaidSection ==
  ASSUME NEW c, NEW s, SectionOK(s), Fit(c, s), s.building,
         NEW n \in 0..Total, n >= s.built
  PROVE  /\ SectionOK(Laid(s, n)) /\ Fit(c, Laid(s, n))
         /\ InLayout(c, s) => InLayout(c, Laid(s, n))
         /\ Laid(s, n).building /\ Laid(s, n).built = n /\ Laid(s, n).partial = s.partial
         /\ Laid(s, n).blind = s.blind /\ Laid(s, n).spec = s.spec
  <1> DEFINE t == Laid(s, n)
  <1>1. /\ s \in Sections /\ s.partial \in 0..Total /\ s.built \in 0..Total
        /\ s.avail = Max({s.built, s.partial})
    BY DEF SectionOK, Sections
  <1>2. /\ Max({s.avail, n}) = Max({n, s.partial}) /\ Max({n, s.partial}) \in 0..Total
        /\ Max({n, s.partial}) >= s.partial
    <2>1. s.partial \in Nat /\ s.built \in Nat /\ n \in Nat
      BY <1>1, ConstantsAssumption
    <2>2. s.avail = IF s.built >= s.partial THEN s.built ELSE s.partial
      BY <1>1, <2>1, MaxOfTwo
    <2>3. Max({n, s.partial}) = IF n >= s.partial THEN n ELSE s.partial
      BY <2>1, MaxOfTwo
    <2>4. s.avail \in Nat
      BY <2>1, <2>2
    <2>5. Max({s.avail, n}) = IF s.avail >= n THEN s.avail ELSE n
      BY <2>1, <2>4, MaxOfTwo
    <2> QED
      BY <1>1, <2>1, <2>2, <2>3, <2>5, ConstantsAssumption
  <1>3. [s EXCEPT !.built = n] \in Sections
    BY <1>1, SectionUpdates
  <1>4. [[s EXCEPT !.built = n] EXCEPT !.avail = Max({n, s.partial})] \in Sections
    BY <1>2, <1>3, SectionUpdates
  <1>5. t = [[s EXCEPT !.built = n] EXCEPT !.avail = Max({n, s.partial})]
    BY <1>1, <1>2 DEF Sections, Laid
  <1> HIDE DEF t
  <1>6. /\ t.building = s.building /\ t.blind = s.blind /\ t.partial = s.partial
        /\ t.built = n /\ t.spec = s.spec /\ t.avail = Max({n, s.partial})
    BY <1>1, <1>5 DEF Sections
  <1> QED
    BY <1>2, <1>4, <1>5, <1>6 DEF t, SectionOK, Fit, FromFile, InLayout

LEMMA AdvancesGood ==
  ASSUME NEW c, CardOK(c), NEW s, SectionOK(s), Fit(c, s), s.building, NEW o \in Advances(c, s)
  PROVE  Good(c, s, o, TRUE)
  <1> DEFINE Low(n) == [Laid(s, n) EXCEPT !.low = TRUE]
             Nexts  == {n \in {s.built, s.built + 1} : n <= Total}
  <1>0. s \in Sections /\ s.spec \in Specs /\ s.partial \in 0..Total /\ s.built \in 0..Total
    BY DEF SectionOK, Sections
  <1>1. ASSUME NEW n \in Nexts
        PROVE  /\ SectionOK(Laid(s, n)) /\ Fit(c, Laid(s, n)) /\ (InLayout(c, s) => InLayout(c, Laid(s, n)))
               /\ SectionOK(Low(n)) /\ Fit(c, Low(n)) /\ (InLayout(c, s) => InLayout(c, Low(n)))
               /\ Low(n).blind = s.blind /\ Low(n).spec = s.spec /\ Low(n) \in Sections
    <2>1. n \in 0..Total /\ n >= s.built
      BY <1>0, ConstantsAssumption
    <2>2. /\ SectionOK(Laid(s, n)) /\ Fit(c, Laid(s, n)) /\ (InLayout(c, s) => InLayout(c, Laid(s, n)))
          /\ Laid(s, n).blind = s.blind /\ Laid(s, n).spec = s.spec
      BY <2>1, LaidSection
    <2>3. Laid(s, n) \in Sections
      BY <2>2 DEF SectionOK
    <2>4. Low(n) \in Sections
      BY <2>3, SectionUpdates
    <2>5. /\ Low(n).building = Laid(s, n).building /\ Low(n).partial = Laid(s, n).partial
          /\ Low(n).avail = Laid(s, n).avail /\ Low(n).built = Laid(s, n).built
          /\ Low(n).spec = Laid(s, n).spec /\ Low(n).blind = Laid(s, n).blind
      BY <2>3 DEF Sections
    <2> HIDE DEF Low
    <2> QED
      BY <2>2, <2>4, <2>5 DEF SectionOK, Fit, FromFile, InLayout
  <1> HIDE DEF Low
  <1>2. Same(c, c)
    BY DEF Same
  <1>3. CASE \E n \in Nexts : o = Step(c, Laid(s, n), TRUE, 0)
    BY <1>1, <1>2, <1>3 DEF Step, Good, Keeps
  <1>4. CASE o \in Finishes(c, s)
    BY <1>4, FinishesGood
  <1>5. CASE o = Abandoned(c, s)
    BY <1>0, <1>5, AbandonedGood
  <1>6. CASE \E n \in Nexts : \E p \in Suspends(c, Low(n)) : o = [p EXCEPT !.ok = FALSE]
    <2>1. PICK n \in Nexts : \E p \in Suspends(c, Low(n)) : o = [p EXCEPT !.ok = FALSE]
      BY <1>6
    <2>2. PICK p \in Suspends(c, Low(n)) : o = [p EXCEPT !.ok = FALSE]
      BY <2>1
    <2>3. Good(c, Low(n), p, FALSE) /\ ~p.sec.building
      BY <1>1, SuspendsGood
    <2>4. p = [card |-> p.card, sec |-> p.sec, ok |-> p.ok, cost |-> p.cost]
      <3>1. \/ \E a, b, d, e : p = Step(a, b, d, e)
            \/ p = Step(c, Low(n), TRUE, 0)
        BY DEF Suspends
      <3> QED
        BY <3>1 DEF Step
    <2>5. o.card = p.card /\ o.sec = p.sec /\ o.ok = FALSE /\ o.cost = p.cost
      BY <2>2, <2>4
    <2> QED
      BY <1>1, <2>3, <2>5 DEF Good
  <1>7. CASE \E n \in Nexts : o = Abandoned(c, Low(n))
    BY <1>1, <1>7, AbandonedGood
  <1> QED
    BY <1>3, <1>4, <1>5, <1>6, <1>7 DEF Advances, Laid, Low

-----------------------------------------------------------------------------
(* What the actions are built from.                                        *)

Unseen == sec # NoSection /\ sec.blind

\* The card moves as SectionStore allows; only who stays up drops anything.
CardMoves ==
  /\ CardOK(card')
  /\ Keeps(card, card', Unseen) \/ (Drops(card, card') /\ (pc' # "off" \/ restarted'))

\* An outcome that may become the state.
Lands(o) ==
  /\ CardOK(o.card) /\ SectionOK(o.sec) /\ Fit(o.card, o.sec)
  /\ ~relayout => InLayout(o.card, o.sec)
  /\ o.cost \in Nat /\ o.ok \in BOOLEAN /\ (~o.ok => ~o.sec.building)
  /\ Keeps(card, o.card, Unseen) \/ Drops(card, o.card)

LEMMA KeptCard ==
  ASSUME CardOK(card), UNCHANGED card
  PROVE  CardMoves
  BY DEF CardMoves, Keeps, Same

LEMMA GoodLands ==
  ASSUME SectionInv, sec # NoSection, NEW o, Good(card, sec, o, TRUE) \/ Good(card, sec, o, FALSE)
  PROVE  Lands(o)
  <1>1. Good(card, sec, o, TRUE)
    BY DEF Good
  <1>2. ~relayout => InLayout(card, sec)
    BY DEF SectionInv, SectionFits
  <1>3. Keeps(card, o.card, sec.blind) => Keeps(card, o.card, Unseen)
    BY DEF Keeps, Unseen
  <1> QED
    BY <1>1, <1>2, <1>3 DEF Lands, Good

\* Another page of the same section.
LEMMA PageMoves ==
  ASSUME NEW c, NEW s, SectionOK(s), NEW p \in Pages
  PROVE  /\ SectionOK([s EXCEPT !.page = p])
         /\ Fit(c, s) => Fit(c, [s EXCEPT !.page = p])
         /\ InLayout(c, s) => InLayout(c, [s EXCEPT !.page = p])
         /\ [s EXCEPT !.page = p].avail = s.avail /\ [s EXCEPT !.page = p].page = p
         /\ [s EXCEPT !.page = p].building = s.building /\ [s EXCEPT !.page = p].low = s.low
         /\ [s EXCEPT !.page = p].partial = s.partial
  <1> DEFINE t == [s EXCEPT !.page = p]
  <1>1. s \in Sections
    BY DEF SectionOK
  <1>2. t \in Sections
    BY <1>1, SectionUpdates
  <1>3. /\ t.building = s.building /\ t.blind = s.blind /\ t.partial = s.partial /\ t.built = s.built
        /\ t.spec = s.spec /\ t.avail = s.avail /\ t.low = s.low /\ t.page = p
    BY <1>1 DEF Sections
  <1> HIDE DEF t
  <1>4. SectionOK(t) /\ (Fit(c, s) => Fit(c, t)) /\ (InLayout(c, s) => InLayout(c, t))
    BY <1>2, <1>3 DEF SectionOK, Fit, FromFile, InLayout
  <1> QED
    BY <1>3, <1>4 DEF t

LEMMA TargetIsPage ==
  ASSUME ControlOK
  PROVE  Target \in Pages
  BY ConstantsAssumption DEF ControlOK, Target, Pages, PastEnd

\* A section that is drawn lies within its pages, or is empty.
LEMMA ClampedFits ==
  ASSUME NEW c, NEW s, SectionOK(s)
  PROVE  /\ SectionOK(Clamped(s)) /\ (Fit(c, s) => Fit(c, Clamped(s)))
         /\ InLayout(c, s) => InLayout(c, Clamped(s))
         /\ Clamped(s).avail = s.avail
         /\ (~s.building \/ s.page < s.avail) /\ s.avail > 0 => Clamped(s).page < s.avail
  <1>1. /\ s.avail \in 0..Total /\ s.page \in Pages /\ s.avail \in Nat /\ s.page \in Nat
    BY ConstantsAssumption DEF SectionOK, Sections, Pages, PastEnd
  <1>2. CASE ~s.building /\ s.avail > 0 /\ s.page >= s.avail
    <2>1. s.avail - 1 \in Pages
      BY <1>1, <1>2, ConstantsAssumption DEF Pages, PastEnd
    <2>2. Clamped(s) = [s EXCEPT !.page = s.avail - 1]
      BY <1>2 DEF Clamped
    <2> QED
      BY <1>1, <2>1, <2>2, PageMoves
  <1>3. CASE ~(~s.building /\ s.avail > 0 /\ s.page >= s.avail)
    BY <1>1, <1>3 DEF Clamped
  <1> QED
    BY <1>2, <1>3

LEMMA LoadsFile ==
  ASSUME CardOK(card), NEW l \in Loads(card)
  PROVE  /\ CardOK(l.card) /\ Same(card, l.card) /\ l.cost \in Nat /\ l.blind \in BOOLEAN
         /\ l.file # NoFile => /\ l.file \in Caches /\ l.file = Stored(l.card)
                               /\ l.file.spec = spec /\ ~l.blind
         /\ l.file = NoFile /\ ~l.blind => Stored(l.card) = NoFile
  <1>1. PICK r \in Recovers(card) :
          l \in IF r.card.bin = NoFile THEN {Found(r.card, NoFile, ~r.ok, r.cost)}
                ELSE {Found(r.card, NoFile, TRUE, r.cost + 1)}
                     \cup (IF r.card.bin.spec = spec THEN {Found(r.card, r.card.bin, FALSE, r.cost)} ELSE {})
    BY DEF Loads
  <1>2. /\ CardOK(r.card) /\ Same(card, r.card) /\ r.cost \in Nat /\ r.ok \in BOOLEAN
        /\ r.ok => r.card.bak = NoFile
    BY RecoversCard
  <1>3. CASE r.card.bin = NoFile
    <2>1. l = Found(r.card, NoFile, ~r.ok, r.cost)
      BY <1>1, <1>3
    <2> QED
      BY <1>2, <1>3, <2>1 DEF Found, Stored
  <1>4. CASE r.card.bin # NoFile /\ l = Found(r.card, NoFile, TRUE, r.cost + 1)
    BY <1>2, <1>4 DEF Found
  <1>5. CASE /\ r.card.bin # NoFile /\ r.card.bin.spec = spec
             /\ l = Found(r.card, r.card.bin, FALSE, r.cost)
    <2>1. r.card.bin \in Caches
      BY <1>2, <1>5, CardFields DEF Files
    <2> QED
      BY <1>2, <1>5, <2>1 DEF Found, Stored
  <1> QED
    BY <1>1, <1>3, <1>4, <1>5

LEMMA FreshSection ==
  ASSUME spec \in Specs, NEW b \in BOOLEAN, NEW c
  PROVE  /\ SectionOK(Fresh(spec, b)) /\ Fit(c, Fresh(spec, b)) /\ InLayout(c, Fresh(spec, b))
         /\ ~Fresh(spec, b).building /\ Fresh(spec, b).blind = b
  <1>1. Fresh(spec, b) \in Sections
    BY ConstantsAssumption DEF Fresh, Sections, Pages, PastEnd
  <1> QED
    BY <1>1, ConstantsAssumption DEF Fresh, SectionOK, Fit, FromFile, InLayout

LEMMA LoadedSection ==
  ASSUME NEW c, CardOK(c), Stored(c) # NoFile, Stored(c).spec = spec
  PROVE  /\ SectionOK(Loaded(Stored(c))) /\ Fit(c, Loaded(Stored(c))) /\ InLayout(c, Loaded(Stored(c)))
         /\ ~Loaded(Stored(c)).building
         /\ ~Stored(c).whole => Loaded(Stored(c)).partial > 0
  <1> DEFINE f == Stored(c)
             t == Loaded(f)
  <1>1. f \in Caches /\ f.spec \in Specs /\ f.pages \in 1..Total /\ f.whole \in BOOLEAN
    BY CardFields, CacheFields DEF Files
  <1>2. Fresh(f.spec, FALSE) \in Sections
    BY <1>1, ConstantsAssumption DEF Fresh, Sections, Pages, PastEnd
  <1>3. f.pages \in 0..Total /\ (IF f.whole THEN 0 ELSE f.pages) \in 0..Total
    BY <1>1, ConstantsAssumption
  <1>4. t = [[Fresh(f.spec, FALSE) EXCEPT !.avail = f.pages] EXCEPT !.partial = IF f.whole THEN 0 ELSE f.pages]
    BY DEF Loaded
  <1>5. [Fresh(f.spec, FALSE) EXCEPT !.avail = f.pages] \in Sections
    BY <1>2, <1>3, SectionUpdates
  <1>6. t \in Sections
    BY <1>3, <1>4, <1>5, SectionUpdates
  <1>7. /\ t.avail = f.pages /\ t.partial = (IF f.whole THEN 0 ELSE f.pages) /\ t.built = 0
        /\ ~t.building /\ t.blind = FALSE /\ t.spec = f.spec
    BY DEF Loaded, Fresh
  <1> HIDE DEF t
  <1>8. SectionOK(t)
    BY <1>1, <1>6, <1>7, ConstantsAssumption DEF SectionOK
  <1>9. Fit(c, t) /\ InLayout(c, t)
    BY <1>1, <1>7, ConstantsAssumption DEF Fit, FromFile, InLayout
  <1> QED
    BY <1>1, <1>7, <1>8, <1>9, ConstantsAssumption DEF t

-----------------------------------------------------------------------------
(* The actions.                                                            *)

\* Where only the control moves on, and the section at most to another page.
LEMMA SectionStays ==
  ASSUME SectionInv, UNCHANGED <<card, spec>>, relayout => relayout',
         \/ sec' = sec \/ sec' = NoSection
         \/ sec # NoSection /\ \E p \in Pages : sec' = [sec EXCEPT !.page = p]
  PROVE  CardMoves /\ SectionFits'
  <1>1. CardMoves
    BY KeptCard DEF SectionInv
  <1>2. CASE sec' = sec \/ sec' = NoSection
    <2>1. CASE sec' = sec
      <3>1. SectionFits /\ Fit(card', sec') = Fit(card, sec)
        BY <2>1 DEF SectionInv
      <3> QED
        BY <1>1, <2>1, <3>1 DEF SectionFits, InLayout
    <2>2. CASE sec' = NoSection
      BY <1>1, <2>2 DEF SectionFits
    <2> QED
      BY <1>2, <2>1, <2>2
  <1>3. CASE sec # NoSection /\ \E p \in Pages : sec' = [sec EXCEPT !.page = p]
    <2>1. PICK p \in Pages : sec' = [sec EXCEPT !.page = p]
      BY <1>3
    <2>2. /\ SectionOK(sec') /\ Fit(card, sec')
          /\ InLayout(card, sec) => InLayout(card, [sec EXCEPT !.page = p])
      BY <1>3, <2>1, PageMoves DEF SectionInv, SectionFits
    <2> QED
      BY <1>1, <1>3, <2>1, <2>2 DEF SectionInv, SectionFits, InLayout
  <1> QED
    BY <1>1, <1>2, <1>3

LEMMA RenderBeginsOK == SectionInv /\ RenderBegins => SectionInv' /\ CardMoves
  <1> SUFFICES ASSUME SectionInv, RenderBegins PROVE SectionInv' /\ CardMoves
    OBVIOUS
  <1>1. CardMoves /\ SectionFits'
    BY SectionStays DEF RenderBegins, settings
  <1>2. Control'
    BY DEF SectionInv, Control, ControlOK, NoneYet, TurnedAway, NoDeadMessage, RenderBegins,
           settings, aim, stops, Busy
  <1> QED
    BY <1>1, <1>2 DEF SectionInv, CardMoves

LEMMA TurnPageOK == SectionInv /\ TurnPage => SectionInv' /\ CardMoves
  <1> SUFFICES ASSUME SectionInv, TurnPage PROVE SectionInv' /\ CardMoves
    OBVIOUS
  <1>0. sec # NoSection => sec.page \in Pages /\ sec.page \in Nat
    BY ConstantsAssumption DEF SectionInv, SectionFits, SectionOK, Sections, Pages, PastEnd
  <1>1. \/ sec' = sec
        \/ sec # NoSection /\ \E p \in Pages : sec' = [sec EXCEPT !.page = p]
    <2>1. CASE sec # NoSection /\ sec.page < LastTurn /\ sec' = [sec EXCEPT !.page = @ + 1]
      <3>1. sec.page + 1 \in Pages
        BY <1>0, <2>1, ConstantsAssumption DEF Pages, PastEnd, LastTurn
      <3> QED
        BY <2>1, <3>1
    <2>2. CASE sec # NoSection /\ sec.page > 0 /\ sec' = [sec EXCEPT !.page = @ - 1]
      BY <1>0, <2>2, ConstantsAssumption DEF Pages, PastEnd
    <2>3. CASE sec' = sec
      BY <2>3
    <2> QED
      BY <2>1, <2>2, <2>3 DEF TurnPage
  <1>2. CardMoves /\ SectionFits'
    BY <1>1, SectionStays DEF TurnPage, settings
  <1>3. sec' = NoSection <=> sec = NoSection
    BY <1>1, <1>2, NoFileIsNone, SectionUpdates DEF SectionInv, SectionFits, SectionOK
  <1>4. Control'
    BY <1>3, ConstantsAssumption
       DEF SectionInv, Control, ControlOK, NoneYet, TurnedAway, NoDeadMessage, TurnPage, Loop,
           settings, aim, stops, Busy
  <1> QED
    BY <1>2, <1>4 DEF SectionInv, CardMoves

LEMMA JumpWithinOK == SectionInv /\ JumpWithin => SectionInv' /\ CardMoves
  <1> SUFFICES ASSUME SectionInv, JumpWithin PROVE SectionInv' /\ CardMoves
    OBVIOUS
  <1>1. PICK p \in 0..(Total - 1) : sec' = [sec EXCEPT !.page = p] /\ nextPage' = p
    BY DEF JumpWithin
  <1>2. p \in Pages
    BY ConstantsAssumption DEF Pages, PastEnd
  <1>3. CardMoves /\ SectionFits'
    BY <1>1, <1>2, SectionStays DEF JumpWithin, settings
  <1>4. Control'
    BY <1>1, <1>2, NoFileIsNone
       DEF SectionInv, Control, ControlOK, NoneYet, TurnedAway, NoDeadMessage, JumpWithin, Locks,
           Loop, settings, aim, stops, Busy
  <1> QED
    BY <1>3, <1>4 DEF SectionInv, CardMoves

LEMMA ControlOnlyOK ==
  SectionInv /\ (ReturnToChapter \/ BackWhileBusy \/ MenuCloses) => SectionInv' /\ CardMoves
  <1> SUFFICES ASSUME SectionInv, ReturnToChapter \/ BackWhileBusy \/ MenuCloses
               PROVE  SectionInv' /\ CardMoves
    OBVIOUS
  <1>1. CardMoves /\ SectionFits'
    <2>1. CASE ReturnToChapter \/ BackWhileBusy
      BY <2>1, SectionStays DEF ReturnToChapter, BackWhileBusy, settings
    <2>2. CASE MenuCloses
      BY <2>2, KeptCard DEF SectionInv, SectionFits, MenuCloses
    <2> QED
      BY <2>1, <2>2
  <1>2. CASE ReturnToChapter
    BY <1>1, <1>2, ConstantsAssumption
       DEF SectionInv, Control, ControlOK, NoneYet, TurnedAway, NoDeadMessage, ReturnToChapter,
           Loop, settings, stops, CardMoves, Pages, PastEnd, Busy
  <1>3. CASE BackWhileBusy
    BY <1>1, <1>3
       DEF SectionInv, Control, ControlOK, NoneYet, TurnedAway, NoDeadMessage, BackWhileBusy,
           Loop, settings, aim, stops, CardMoves, Busy
  <1>4. CASE MenuCloses
    BY <1>1, <1>4
       DEF SectionInv, Control, ControlOK, NoneYet, TurnedAway, NoDeadMessage, MenuCloses,
           Locks, Loop, aim, stops, CardMoves, Busy
  <1> QED
    BY <1>2, <1>3, <1>4

LEMMA EnterOK == SectionInv /\ Enter => SectionInv' /\ UNCHANGED card
  <1> SUFFICES ASSUME SectionInv, Enter PROVE SectionInv' /\ UNCHANGED card
    OBVIOUS
  <1>1. UNCHANGED <<card, sec>> /\ sec = NoSection
    BY DEF Enter, SectionInv, Control, NoneYet
  <1>2. Control'
    BY <1>1, ConstantsAssumption
       DEF SectionInv, Control, ControlOK, NoneYet, TurnedAway, NoDeadMessage, Enter, stops,
           Pages, PastEnd, Busy
  <1> QED
    BY <1>1, <1>2 DEF SectionInv, SectionFits

LEMMA FaultCounts ==
  ASSUME SectionInv, NEW n \in Nat, Fault(n)
  PROVE  faults' \in 0..MaxFaults
  BY ConstantsAssumption DEF SectionInv, Control, ControlOK, Fault

LEMMA LandsCard ==
  ASSUME NEW o, Lands(o), card' = o.card, pc' # "off" \/ restarted'
  PROVE  CardMoves
  BY DEF Lands, CardMoves

LEMMA DownOK ==
  ASSUME SectionInv, NEW again \in BOOLEAN, NEW target \in Pages, faults' \in 0..MaxFaults,
         Down(again, target)
  PROVE  SectionFits' /\ Control'
  <1>1. SectionFits'
    BY DEF SectionFits, Down
  <1>2. ControlOK'
    <2>1. /\ spec' \in Specs /\ nextPage' \in Pages /\ pc' = "off" /\ retries' \in 0..MaxRetries
          /\ faults' \in 0..MaxFaults
      BY ConstantsAssumption DEF SectionInv, Control, ControlOK, Down
    <2>2. /\ full' \in BOOLEAN /\ relayout' \in BOOLEAN /\ lastPage' \in BOOLEAN /\ moves' \in BOOLEAN
          /\ pending' \in BOOLEAN /\ cancel' \in BOOLEAN /\ startFailed' \in BOOLEAN
          /\ lowStop' \in BOOLEAN /\ restarted' \in BOOLEAN
      BY DEF SectionInv, Control, ControlOK, Down
    <2> QED
      BY <2>1, <2>2 DEF ControlOK
  <1>3. NoneYet' /\ TurnedAway' /\ NoDeadMessage'
    BY DEF NoneYet, TurnedAway, NoDeadMessage, Down, Message
  <1> QED
    BY <1>1, <1>2, <1>3 DEF Control

LEMMA FailsOK ==
  ASSUME SectionInv, pc # "off", faults' \in 0..MaxFaults, Fails
  PROVE  SectionFits' /\ Control'
  BY DEF SectionInv, SectionFits, Control, ControlOK, NoneYet, TurnedAway, NoDeadMessage, Fails,
         Message, settings, aim, stops, Busy

LEMMA OpensOK ==
  ASSUME SectionInv, NEW s, SectionOK(s), Fit(card', s), ~relayout => InLayout(card', s),
         faults' \in 0..MaxFaults, lowStop' \in BOOLEAN, Opens(s)
  PROVE  SectionFits' /\ Control'
  <1>1. Target \in Pages
    BY TargetIsPage DEF SectionInv, Control
  <1>2. /\ SectionOK(sec') /\ Fit(card', sec')
        /\ InLayout(card', s) => InLayout(card', [s EXCEPT !.page = Target])
        /\ sec' = [s EXCEPT !.page = Target]
    BY <1>1, PageMoves DEF Opens
  <1>3. SectionFits'
    BY <1>2 DEF SectionFits, InLayout, Opens, settings
  <1>4. sec' # NoSection
    BY <1>2, NoFileIsNone DEF SectionOK
  <1>5. Control'
    BY <1>4 DEF SectionInv, Control, ControlOK, NoneYet, TurnedAway, NoDeadMessage, Opens,
                settings, Busy
  <1> QED
    BY <1>3, <1>5

\* Wherever the place is found to be, it is a page of the section.
LEMMA RepositionsOK ==
  ASSUME NEW s, SectionOK(s), Fit(card', s), ~relayout => InLayout(card', s),
         moves \in BOOLEAN, Repositions(s)
  PROVE  /\ SectionOK(sec') /\ Fit(card', sec') /\ (~relayout => InLayout(card', sec'))
         /\ (s.avail > 0 => s.page < s.avail) => (sec'.avail > 0 => sec'.page < sec'.avail)
         /\ moves' \in BOOLEAN
  <1>1. s.avail \in Nat /\ s.avail \in 0..Total /\ s \in Sections
    BY ConstantsAssumption DEF SectionOK, Sections
  <1>2. CASE sec' = s /\ moves' \in {s.building /\ moves, FALSE}
    BY <1>2
  <1>3. CASE moves' = FALSE /\ \E p \in 0..s.avail : (p < s.avail \/ p = 0) /\ sec' = [s EXCEPT !.page = p]
    <2>1. PICK p \in 0..s.avail : (p < s.avail \/ p = 0) /\ sec' = [s EXCEPT !.page = p]
      BY <1>3
    <2>2. p \in Pages
      BY <1>1, <2>1, ConstantsAssumption DEF Pages, PastEnd
    <2>3. /\ SectionOK(sec') /\ Fit(card', sec')
          /\ InLayout(card', s) => InLayout(card', sec')
      BY <2>1, <2>2, PageMoves
    <2>4. sec'.page = p /\ sec'.avail = s.avail
      BY <1>1, <2>1 DEF Sections
    <2> QED
      BY <1>1, <1>3, <2>1, <2>3, <2>4
  <1> QED
    BY <1>2, <1>3 DEF Repositions

LEMMA ToShowOK ==
  ASSUME SectionInv, NEW s, SectionOK(s), Fit(card', s), ~relayout => InLayout(card', s),
         s.building => s.page < s.avail, faults' \in 0..MaxFaults, lowStop' \in BOOLEAN, ToShow(s)
  PROVE  SectionFits' /\ Control'
  <1> DEFINE t == Clamped(s)
  <1>1. /\ SectionOK(t) /\ Fit(card', t)
        /\ InLayout(card', s) => InLayout(card', t)
        /\ t.avail > 0 => t.page < t.avail
    BY ClampedFits
  <1>2. Repositions(t) /\ moves \in BOOLEAN
    BY DEF ToShow, SectionInv, Control, ControlOK
  <1> HIDE DEF t
  <1>3. /\ SectionOK(sec') /\ Fit(card', sec') /\ (~relayout => InLayout(card', sec'))
        /\ sec'.avail > 0 => sec'.page < sec'.avail
        /\ moves' \in BOOLEAN
    BY <1>1, <1>2, RepositionsOK
  <1>4. SectionFits'
    BY <1>3 DEF SectionFits, InLayout, ToShow, settings
  <1>5. sec' # NoSection
    BY <1>3, NoFileIsNone DEF SectionOK
  <1>6. sec'.avail \in Nat /\ sec'.page \in Nat
    BY <1>3, ConstantsAssumption DEF SectionOK, Sections, Pages, PastEnd
  <1>7. Control'
    BY <1>3, <1>5, <1>6
       DEF SectionInv, Control, ControlOK, NoneYet, TurnedAway, NoDeadMessage, ToShow,
           settings, Busy
  <1> QED
    BY <1>4, <1>7

LEMMA BuildFailsOK ==
  ASSUME SectionInv, pc # "off", NEW o, Lands(o), NEW inLoop \in BOOLEAN, BuildFails(o, inLoop)
  PROVE  SectionInv' /\ CardMoves
  <1> DEFINE restart == MayRestart(o.sec) /\ ~lastPage
  <1>0. Target \in Pages /\ o.cost \in Nat /\ o.cost + 1 \in Nat /\ card' = o.card
    BY TargetIsPage DEF SectionInv, Control, Lands, BuildFails
  <1>1. CASE Restarts(Target, o.cost)
    <2>1. faults' \in 0..MaxFaults /\ Down(TRUE, Target)
      BY <1>0, <1>1, FaultCounts DEF Restarts
    <2>2. SectionFits' /\ Control'
      BY <1>0, <2>1, DownOK
    <2>3. CardMoves
      BY <1>0, <2>1, LandsCard DEF Down
    <2> QED
      BY <2>2, <2>3 DEF SectionInv, CardMoves
  <1>2. CASE (Fault(o.cost) \/ Fault(o.cost + 1))
             /\ Opens(o.sec) /\ (lowStop' = TRUE \/ UNCHANGED lowStop)
    <2>1. faults' \in 0..MaxFaults /\ lowStop' \in BOOLEAN
      BY <1>0, <1>2, FaultCounts DEF SectionInv, Control, ControlOK
    <2>2. SectionFits' /\ Control'
      BY <1>0, <1>2, <2>1, OpensOK DEF Lands
    <2>3. CardMoves
      BY <1>0, <1>2, LandsCard DEF Opens
    <2> QED
      BY <2>2, <2>3 DEF SectionInv, CardMoves
  <1>3. CASE (Fault(o.cost) \/ Fault(o.cost + 1)) /\ Fails
    <2>1. faults' \in 0..MaxFaults
      BY <1>0, <1>3, FaultCounts
    <2>2. SectionFits' /\ Control'
      BY <1>3, <2>1, FailsOK
    <2>3. CardMoves
      BY <1>0, <1>3, LandsCard DEF Fails
    <2> QED
      BY <2>2, <2>3 DEF SectionInv, CardMoves
  <1>4. CASE Fault(IF restart THEN o.cost + 1 ELSE o.cost)
             /\ IF o.sec.low /\ o.sec.partial > 0 /\ ~moves
                THEN Opens(o.sec) /\ lowStop' = TRUE
                ELSE Fails
    BY <1>2, <1>3, <1>4
  <1> QED
    BY <1>1, <1>2, <1>4 DEF BuildFails

-----------------------------------------------------------------------------
(* render() without a section.                                             *)

LEMMA LoadClearsOK == SectionInv /\ LoadClears => SectionInv' /\ CardMoves
  <1> SUFFICES ASSUME SectionInv, LoadClears PROVE SectionInv' /\ CardMoves
    OBVIOUS
  <1>1. sec = NoSection /\ UNCHANGED sec /\ card' = Cleared /\ pc' # "off"
    BY DEF LoadClears, SectionInv, Control, NoneYet
  <1>2. PICK r \in Recovers(card) : Fault(r.cost) \/ Fault(r.cost + 1)
    BY DEF LoadClears
  <1>3. r.cost \in Nat /\ r.cost + 1 \in Nat
    BY RecoversCard DEF SectionInv
  <1>4. faults' \in 0..MaxFaults
    BY <1>2, <1>3, FaultCounts
  <1>5. CardMoves
    BY <1>1 DEF CardMoves, Cleared, CardOK, Drops, Stored, Spare
  <1>6. Control'
    BY <1>1, <1>4 DEF SectionInv, Control, ControlOK, NoneYet, TurnedAway, NoDeadMessage, LoadClears,
                      settings, aim, stops, Busy
  <1> QED
    BY <1>1, <1>5, <1>6 DEF SectionInv, SectionFits, CardMoves

LEMMA OpenCachedOK == SectionInv /\ OpenCached => SectionInv' /\ CardMoves
  <1> SUFFICES ASSUME SectionInv, OpenCached PROVE SectionInv' /\ CardMoves
    OBVIOUS
  <1>1. PICK l \in Loads(card) :
          /\ l.file # NoFile /\ card' = l.card /\ Fault(l.cost)
          /\ Opens(Loaded(l.file)) /\ UNCHANGED lowStop
    BY DEF OpenCached
  <1>2. /\ CardOK(l.card) /\ Same(card, l.card) /\ l.cost \in Nat
        /\ l.file \in Caches /\ l.file = Stored(l.card) /\ l.file.spec = spec
    BY <1>1, LoadsFile DEF SectionInv
  <1>3. SectionOK(Loaded(l.file)) /\ Fit(card', Loaded(l.file)) /\ InLayout(card', Loaded(l.file))
    BY <1>1, <1>2, LoadedSection
  <1>4. faults' \in 0..MaxFaults /\ lowStop' \in BOOLEAN
    BY <1>1, <1>2, FaultCounts DEF SectionInv, Control, ControlOK
  <1>5. SectionFits' /\ Control'
    BY <1>1, <1>3, <1>4, OpensOK
  <1>6. CardMoves
    BY <1>1, <1>2 DEF CardMoves, Keeps
  <1> QED
    BY <1>5, <1>6 DEF SectionInv, CardMoves

LEMMA OpenBuildsOK == SectionInv /\ OpenBuilds => SectionInv' /\ CardMoves
  <1> SUFFICES ASSUME SectionInv, OpenBuilds PROVE SectionInv' /\ CardMoves
    OBVIOUS
  <1> DEFINE From(l) == IF l.file = NoFile THEN Fresh(spec, l.blind) ELSE Loaded(l.file)
  <1>1. PICK l \in Loads(card) :
          \E r \in (IF l.file = NoFile THEN Recovers(l.card) ELSE {Outcome(l.card, TRUE, 0)}) :
            /\ l.file # NoFile => ~l.file.whole
            /\ \E o \in Starts(r.card, From(l)) :
                 LET all == [o EXCEPT !.cost = @ + l.cost + r.cost] IN
                 \/ /\ o.ok
                    /\ card' = o.card /\ sec' = o.sec /\ Fault(all.cost) /\ pc' = "build"
                    /\ UNCHANGED <<settings, aim, pending, shown, cancel, stops, restarted, retries>>
                 \/ ~o.ok /\ BuildFails(all, FALSE)
    BY DEF OpenBuilds
  <1>2. PICK r \in (IF l.file = NoFile THEN Recovers(l.card) ELSE {Outcome(l.card, TRUE, 0)}) :
          /\ l.file # NoFile => ~l.file.whole
          /\ \E o \in Starts(r.card, From(l)) :
               LET all == [o EXCEPT !.cost = @ + l.cost + r.cost] IN
               \/ /\ o.ok
                  /\ card' = o.card /\ sec' = o.sec /\ Fault(all.cost) /\ pc' = "build"
                  /\ UNCHANGED <<settings, aim, pending, shown, cancel, stops, restarted, retries>>
               \/ ~o.ok /\ BuildFails(all, FALSE)
    BY <1>1
  <1>3. PICK o \in Starts(r.card, From(l)) :
          LET all == [o EXCEPT !.cost = @ + l.cost + r.cost] IN
          \/ /\ o.ok
             /\ card' = o.card /\ sec' = o.sec /\ Fault(all.cost) /\ pc' = "build"
             /\ UNCHANGED <<settings, aim, pending, shown, cancel, stops, restarted, retries>>
          \/ ~o.ok /\ BuildFails(all, FALSE)
    BY <1>2
  <1> DEFINE all == [o EXCEPT !.cost = @ + l.cost + r.cost]
  <1>4. pc = "open" /\ sec = NoSection /\ spec \in Specs
    BY DEF OpenBuilds, SectionInv, Control, ControlOK, NoneYet
  <1>5. /\ CardOK(l.card) /\ Same(card, l.card) /\ l.cost \in Nat /\ l.blind \in BOOLEAN
        /\ l.file # NoFile => /\ l.file \in Caches /\ l.file = Stored(l.card)
                              /\ l.file.spec = spec /\ ~l.blind
        /\ l.file = NoFile /\ ~l.blind => Stored(l.card) = NoFile
    BY LoadsFile DEF SectionInv
  <1>6. CardOK(r.card) /\ Same(l.card, r.card) /\ r.cost \in Nat
    <2>1. CASE l.file = NoFile
      BY <1>5, <2>1, RecoversCard
    <2>2. CASE l.file # NoFile
      BY <1>5, <2>2 DEF Outcome, Same
    <2> QED
      BY <2>1, <2>2
  <1>7. /\ SectionOK(From(l)) /\ Fit(r.card, From(l)) /\ InLayout(r.card, From(l))
        /\ ~From(l).building
        /\ From(l).partial > 0 \/ From(l).blind \/ Stored(r.card) = NoFile
    <2>1. CASE l.file = NoFile
      <3>1. From(l) = Fresh(spec, l.blind)
        BY <2>1
      <3> HIDE DEF From
      <3>2. l.blind \/ Stored(r.card) = NoFile
        BY <1>5, <1>6, <2>1 DEF Same
      <3> QED
        BY <1>4, <1>5, <3>1, <3>2, FreshSection
    <2>2. CASE l.file # NoFile
      <3>1. Stored(r.card) = l.file /\ From(l) = Loaded(l.file)
        BY <1>5, <1>6, <2>2 DEF Same
      <3> HIDE DEF From
      <3> QED
        BY <1>1, <1>5, <1>6, <2>2, <3>1, LoadedSection
    <2> QED
      BY <2>1, <2>2
  <1> HIDE DEF From
  <1>8. /\ Good(r.card, From(l), o, TRUE) /\ (Same(r.card, o.card) \/ Drops(r.card, o.card))
        /\ o.ok => o.sec.building
    BY <1>4, <1>6, <1>7, StartsGood
  <1>9. Same(card, o.card) \/ Drops(card, o.card)
    BY <1>5, <1>6, <1>8 DEF Same, Drops
  <1>10. o = [card |-> o.card, sec |-> o.sec, ok |-> o.ok, cost |-> o.cost]
    <2>1. \E a, b, d, e : o = Step(a, b, d, e)
      BY DEF Starts, Abandoned
    <2> QED
      BY <2>1 DEF Step
  <1>11. /\ all.card = o.card /\ all.sec = o.sec /\ all.ok = o.ok
         /\ all.cost = o.cost + l.cost + r.cost
    BY <1>10
  <1> HIDE DEF all
  <1>12. Lands(all)
    BY <1>5, <1>6, <1>7, <1>8, <1>9, <1>11 DEF Lands, Good, Keeps
  <1>13. CASE /\ o.ok
              /\ card' = o.card /\ sec' = o.sec /\ Fault(all.cost) /\ pc' = "build"
              /\ UNCHANGED <<settings, aim, pending, shown, cancel, stops, restarted, retries>>
    <2>1. faults' \in 0..MaxFaults
      BY <1>12, <1>13, FaultCounts DEF Lands
    <2>2. SectionFits' /\ sec' # NoSection
      BY <1>11, <1>12, <1>13, NoFileIsNone DEF Lands, SectionFits, SectionOK, InLayout, settings
    <2>3. Control'
      BY <1>4, <1>13, <2>1, <2>2
         DEF SectionInv, Control, ControlOK, NoneYet, TurnedAway, NoDeadMessage, settings, aim, stops, Busy
    <2>4. CardMoves
      BY <1>11, <1>12, <1>13, LandsCard
    <2> QED
      BY <2>2, <2>3, <2>4 DEF SectionInv, CardMoves
  <1>14. CASE ~o.ok /\ BuildFails(all, FALSE)
    BY <1>4, <1>12, <1>14, BuildFailsOK
  <1> QED
    BY <1>3, <1>13, <1>14 DEF all

LEMMA OpenIndexesOK == SectionInv /\ OpenIndexes => SectionInv' /\ CardMoves
  <1> SUFFICES ASSUME SectionInv, OpenIndexes PROVE SectionInv' /\ CardMoves
    OBVIOUS
  <1> DEFINE FallsBack(l) == IF l.file # NoFile /\ Target < l.file.pages /\ ~moves
                             THEN Opens(Loaded(l.file)) /\ UNCHANGED lowStop
                             ELSE Fails
             Lays(l, r, o) ==
               /\ card' = o.card /\ Fault(l.cost + r.cost + o.cost)
               /\ IF o.ok
                  THEN Opens([Fresh(spec, FALSE) EXCEPT !.avail = Total]) /\ UNCHANGED lowStop
                  ELSE FallsBack(l)
             NoMemory(l, r, low) ==
               LET restart == low /\ ~restarted /\ ~lastPage IN
               /\ card' = r.card
               /\ \/ restart /\ Restarts(Target, l.cost + r.cost)
                  \/ Fault(IF restart THEN l.cost + r.cost + 1 ELSE l.cost + r.cost) /\ FallsBack(l)
  <1>0. PICK l \in Loads(card) : \E r \in Recovers(l.card) :
          \/ \E o \in Commits(r.card, Cache(spec, Total, TRUE)) : Lays(l, r, o)
          \/ \E low \in BOOLEAN : NoMemory(l, r, low)
    BY DEF OpenIndexes
  <1>1. PICK r \in Recovers(l.card) :
          \/ \E o \in Commits(r.card, Cache(spec, Total, TRUE)) : Lays(l, r, o)
          \/ \E low \in BOOLEAN : NoMemory(l, r, low)
    BY <1>0
  <1>2. pc = "open" /\ sec = NoSection /\ spec \in Specs
    BY DEF OpenIndexes, SectionInv, Control, ControlOK, NoneYet
  <1>3. /\ CardOK(l.card) /\ Same(card, l.card) /\ l.cost \in Nat
        /\ l.file # NoFile => /\ l.file \in Caches /\ l.file = Stored(l.card) /\ l.file.spec = spec
    BY LoadsFile DEF SectionInv
  <1>4. CardOK(r.card) /\ Same(card, r.card) /\ r.cost \in Nat /\ Stored(r.card) = Stored(l.card)
    BY <1>3, RecoversCard DEF Same
  <1>5. ASSUME FallsBack(l), CardOK(card'), Same(card, card'), faults' \in 0..MaxFaults
        PROVE  SectionInv' /\ CardMoves
    <2>1. CardMoves
      BY <1>5 DEF CardMoves, Keeps
    <2>2. CASE l.file # NoFile /\ Opens(Loaded(l.file)) /\ UNCHANGED lowStop
      <3>1. Stored(card') = l.file /\ l.file.spec = spec
        BY <1>3, <1>5, <2>2 DEF Same
      <3>2. /\ SectionOK(Loaded(l.file)) /\ Fit(card', Loaded(l.file))
            /\ InLayout(card', Loaded(l.file))
        BY <1>5, <2>2, <3>1, LoadedSection
      <3>3. lowStop' \in BOOLEAN
        BY <2>2 DEF SectionInv, Control, ControlOK
      <3>4. SectionFits' /\ Control'
        BY <1>5, <2>2, <3>2, <3>3, OpensOK
      <3> QED
        BY <1>5, <2>1, <3>4 DEF SectionInv
    <2>3. CASE Fails
      <3>1. SectionFits' /\ Control'
        BY <1>2, <1>5, <2>3, FailsOK
      <3> QED
        BY <1>5, <2>1, <3>1 DEF SectionInv
    <2> QED
      BY <1>5, <2>2, <2>3
  <1> HIDE DEF FallsBack
  <1>6. ASSUME NEW o \in Commits(r.card, Cache(spec, Total, TRUE)), Lays(l, r, o)
        PROVE  SectionInv' /\ CardMoves
    <2>1. Cache(spec, Total, TRUE) \in Caches
      BY <1>2, MakesCache
    <2>2. /\ CardOK(o.card) /\ o.cost \in Nat /\ o.ok \in BOOLEAN
          /\ o.ok => Puts(r.card, o.card, Cache(spec, Total, TRUE))
          /\ ~o.ok => Same(r.card, o.card)
      BY <1>4, <2>1, CommitsCard
    <2>3. faults' \in 0..MaxFaults
      BY <1>3, <1>4, <1>6, <2>2, FaultCounts
    <2>4. CASE ~o.ok
      <3>1. Same(card, card') /\ CardOK(card') /\ FallsBack(l)
        BY <1>4, <1>6, <2>2, <2>4 DEF Same
      <3> QED
        BY <1>5, <2>3, <3>1
    <2>5. CASE o.ok
      <3> DEFINE s == [Fresh(spec, FALSE) EXCEPT !.avail = Total]
      <3>1. Opens(s) /\ UNCHANGED lowStop /\ card' = o.card
        BY <1>6, <2>5
      <3>2. /\ s.spec = spec /\ s.partial = 0 /\ s.avail = Total /\ ~s.building /\ s.built = 0
        BY DEF Fresh
      <3>3. s \in Sections
        <4>1. Fresh(spec, FALSE) \in Sections
          BY <1>2, FreshSection DEF SectionOK
        <4>2. Total \in 0..Total
          BY ConstantsAssumption
        <4> QED
          BY <4>1, <4>2, SectionUpdates
      <3> HIDE DEF s
      <3>4. SectionOK(s)
        BY <3>2, <3>3, ConstantsAssumption DEF SectionOK
      <3>5. /\ Stored(card') # NoFile /\ Stored(card').pages = Total /\ Stored(card').spec = spec
        BY <2>1, <2>2, <2>5, <3>1, CacheFields DEF Puts, Cache
      <3>6. Fit(card', s) /\ InLayout(card', s)
        BY <3>2, <3>5, ConstantsAssumption DEF Fit, FromFile, InLayout
      <3>7. lowStop' \in BOOLEAN
        BY <3>1 DEF SectionInv, Control, ControlOK
      <3>8. SectionFits' /\ Control'
        BY <2>3, <3>1, <3>4, <3>6, <3>7, OpensOK
      <3>9. Keeps(r.card, card', Unseen)
        BY <1>2, <1>4, <2>2, <2>5, <3>1, WholeCovers
      <3>10. CardMoves
        BY <1>4, <2>2, <3>1, <3>9, SameThen DEF CardMoves
      <3> QED
        BY <2>2, <3>1, <3>8, <3>10 DEF SectionInv
    <2> QED
      BY <2>2, <2>4, <2>5
  <1>7. ASSUME NEW low \in BOOLEAN, NoMemory(l, r, low)
        PROVE  SectionInv' /\ CardMoves
    <2>1. CASE Restarts(Target, l.cost + r.cost)
      <3>1. Target \in Pages
        BY TargetIsPage DEF SectionInv, Control
      <3>2. faults' \in 0..MaxFaults /\ Down(TRUE, Target)
        <4>1. l.cost + r.cost \in Nat
          BY <1>3, <1>4
        <4> QED
          BY <2>1, <4>1, FaultCounts DEF Restarts
      <3>3. SectionFits' /\ Control'
        BY <3>1, <3>2, DownOK
      <3>4. card' = r.card
        BY <1>7
      <3> QED
        BY <1>4, <3>3, <3>4 DEF SectionInv, CardMoves, Keeps
    <2>2. CASE FallsBack(l) /\ \/ Fault(l.cost + r.cost + 1)
                               \/ Fault(l.cost + r.cost)
      <3>1. faults' \in 0..MaxFaults
        BY <1>3, <1>4, <2>2, FaultCounts
      <3>2. card' = r.card
        BY <1>7
      <3> QED
        BY <1>4, <1>5, <2>2, <3>1, <3>2
    <2> QED
      BY <1>7, <2>1, <2>2
  <1> QED
    BY <1>1, <1>6, <1>7

LEMMA BuildStepOK == SectionInv /\ BuildStep => SectionInv' /\ CardMoves
  <1> SUFFICES ASSUME SectionInv, BuildStep PROVE SectionInv' /\ CardMoves
    OBVIOUS
  <1>1. pc = "build" /\ sec # NoSection /\ sec.building
    BY DEF BuildStep, SectionInv, Control, ControlOK
  <1>2. PICK o \in Advances(card, sec) :
          \/ /\ o.ok
             /\ card' = o.card /\ sec' = o.sec /\ Fault(o.cost)
             /\ UNCHANGED <<settings, aim, pc, pending, shown, cancel, stops, restarted, retries>>
          \/ ~o.ok /\ BuildFails(o, TRUE)
    BY DEF BuildStep
  <1>3. Lands(o)
    BY <1>1, AdvancesGood, GoodLands DEF SectionInv, SectionFits
  <1>4. CASE ~o.ok /\ BuildFails(o, TRUE)
    BY <1>1, <1>3, <1>4, BuildFailsOK
  <1>5. CASE /\ o.ok
             /\ card' = o.card /\ sec' = o.sec /\ Fault(o.cost)
             /\ UNCHANGED <<settings, aim, pc, pending, shown, cancel, stops, restarted, retries>>
    <2>1. faults' \in 0..MaxFaults
      BY <1>3, <1>5, FaultCounts DEF Lands
    <2>2. SectionFits' /\ sec' # NoSection
      BY <1>3, <1>5, NoFileIsNone DEF Lands, SectionFits, SectionOK, InLayout, settings
    <2>3. Control'
      BY <1>1, <1>5, <2>1, <2>2
         DEF SectionInv, Control, ControlOK, NoneYet, TurnedAway, NoDeadMessage, settings, aim, stops, Busy
    <2>4. CardMoves
      BY <1>1, <1>3, <1>5, LandsCard
    <2> QED
      BY <2>2, <2>3, <2>4 DEF SectionInv, CardMoves
  <1> QED
    BY <1>2, <1>4, <1>5

LEMMA CancelledOK ==
  SectionInv /\ (BuildCancelled \/ CatchCancelled) => SectionInv' /\ CardMoves
  <1> SUFFICES ASSUME SectionInv, BuildCancelled \/ CatchCancelled PROVE SectionInv' /\ CardMoves
    OBVIOUS
  <1>1. pc \in {"build", "catch"} /\ sec # NoSection /\ Cancelled /\ cancel
    BY DEF BuildCancelled, CatchCancelled, CatchingUp, SectionInv, Control, ControlOK
  <1>2. PICK o \in Suspends(card, sec) : card' = o.card /\ sec' = o.sec /\ Fault(o.cost)
    BY <1>1 DEF Cancelled
  <1>3. Lands(o)
    BY <1>1, SuspendsGood, GoodLands DEF SectionInv, SectionFits
  <1>4. faults' \in 0..MaxFaults
    BY <1>2, <1>3, FaultCounts DEF Lands
  <1>5. SectionFits'
    BY <1>1, <1>2, <1>3 DEF Lands, SectionFits, InLayout, Cancelled, settings
  <1>6. Control'
    BY <1>1, <1>4
       DEF SectionInv, Control, ControlOK, NoneYet, TurnedAway, NoDeadMessage, Cancelled,
           settings, aim, stops, Busy
  <1>7. CardMoves
    BY <1>1, <1>2, <1>3, LandsCard DEF Cancelled
  <1> QED
    BY <1>5, <1>6, <1>7 DEF SectionInv, CardMoves

LEMMA BuildReachedOK == SectionInv /\ BuildReached => SectionInv' /\ CardMoves
  <1> SUFFICES ASSUME SectionInv, BuildReached PROVE SectionInv' /\ CardMoves
    OBVIOUS
  <1>1. sec # NoSection /\ UNCHANGED <<card, lowStop, faults>> /\ Opens(sec)
    BY DEF BuildReached, SectionInv, Control, ControlOK
  <1>2. SectionOK(sec) /\ Fit(card', sec) /\ (~relayout => InLayout(card', sec))
    BY <1>1 DEF SectionInv, SectionFits
  <1>3. faults' \in 0..MaxFaults /\ lowStop' \in BOOLEAN
    BY <1>1 DEF SectionInv, Control, ControlOK
  <1>4. SectionFits' /\ Control'
    BY <1>1, <1>2, <1>3, OpensOK
  <1>5. CardMoves
    BY <1>1, KeptCard DEF SectionInv
  <1> QED
    BY <1>4, <1>5 DEF SectionInv, CardMoves

-----------------------------------------------------------------------------
(* render() with a section.                                                *)

LEMMA StoppedOK == SectionInv /\ Stopped => SectionInv' /\ CardMoves
  <1> SUFFICES ASSUME SectionInv, Stopped PROVE SectionInv' /\ CardMoves
    OBVIOUS
  <1> DEFINE s == [sec EXCEPT !.page = sec.avail - 1]
             restart == MayRestart(sec) /\ sec.page = sec.avail
  <1>1. /\ sec # NoSection /\ SectionOK(sec) /\ Fit(card, sec) /\ (~relayout => InLayout(card, sec))
        /\ UNCHANGED card
    BY DEF Stopped, SectionInv, SectionFits, Control, ControlOK
  <1>2. sec.avail \in Nat /\ sec.avail > 0 /\ sec.avail \in Pages /\ sec.avail - 1 \in Pages
    BY <1>1, ConstantsAssumption DEF Stopped, SectionOK, Sections, Pages, PastEnd
  <1>3. CardMoves
    BY <1>1, KeptCard DEF SectionInv
  <1>4. CASE Restarts(sec.avail, 0)
    <2>1. faults' \in 0..MaxFaults /\ Down(TRUE, sec.avail)
      BY <1>4, FaultCounts DEF Restarts
    <2> QED
      BY <1>2, <1>3, <2>1, DownOK DEF SectionInv, CardMoves
  <1>5. CASE Fault(IF restart THEN 1 ELSE 0) /\ UNCHANGED lowStop /\ ToShow(s)
    <2>1. faults' \in 0..MaxFaults /\ lowStop' \in BOOLEAN
      BY <1>5, FaultCounts DEF SectionInv, Control, ControlOK
    <2>2. /\ SectionOK(s) /\ Fit(card, s) /\ (~relayout => InLayout(card, s))
          /\ s.avail = sec.avail /\ s.page = sec.avail - 1
      BY <1>1, <1>2, PageMoves
    <2>3. s.page < s.avail
      BY <1>2, <2>2
    <2> HIDE DEF s
    <2>4. SectionFits' /\ Control'
      BY <1>1, <1>5, <2>1, <2>2, <2>3, ToShowOK
    <2> QED
      BY <1>3, <2>4 DEF SectionInv, CardMoves
  <1> QED
    BY <1>4, <1>5 DEF Stopped

LEMMA FitsOK == SectionInv /\ (Fits \/ CatchDone) => SectionInv' /\ CardMoves
  <1> SUFFICES ASSUME SectionInv, Fits \/ CatchDone PROVE SectionInv' /\ CardMoves
    OBVIOUS
  <1>1. /\ sec # NoSection /\ SectionOK(sec) /\ Fit(card, sec) /\ (~relayout => InLayout(card, sec))
        /\ UNCHANGED <<card, lowStop, faults>>
    BY DEF Fits, CatchDone, SectionInv, SectionFits, Control, ControlOK
  <1>2. CardMoves
    BY <1>1, KeptCard DEF SectionInv
  <1>3. CASE ToShow(sec) /\ ~(sec.page >= sec.avail /\ sec.building)
    <2>1. sec.building => sec.page < sec.avail
      BY <1>1, <1>3, ConstantsAssumption DEF SectionOK, Sections, Pages, PastEnd
    <2>2. faults' \in 0..MaxFaults /\ lowStop' \in BOOLEAN
      BY <1>1 DEF SectionInv, Control, ControlOK
    <2>3. SectionFits' /\ Control'
      BY <1>1, <1>3, <2>1, <2>2, ToShowOK
    <2> QED
      BY <1>2, <2>3 DEF SectionInv, CardMoves
  <1>4. CASE Fits /\ pc' = "catch"
             /\ UNCHANGED <<sec, settings, aim, pending, shown, cancel, startFailed, restarted, retries>>
    <2>1. SectionFits'
      BY <1>1, <1>2, <1>4, SectionStays DEF settings
    <2>2. Control'
      BY <1>1, <1>4 DEF SectionInv, Control, ControlOK, NoneYet, TurnedAway, NoDeadMessage,
                        settings, aim, Busy
    <2> QED
      BY <1>2, <2>1, <2>2 DEF SectionInv, CardMoves
  <1> QED
    BY <1>3, <1>4 DEF Fits, CatchDone, CatchingUp

LEMMA CatchFailsOK ==
  ASSUME SectionInv, pc = "catch", NEW o, Lands(o), ~o.ok, CatchFails(o)
  PROVE  SectionInv' /\ CardMoves
  <1> DEFINE restart == MayRestart(o.sec) /\ o.sec.page = o.sec.avail
  <1>1. /\ card' = o.card /\ SectionOK(o.sec) /\ Fit(card', o.sec) /\ ~o.sec.building
        /\ ~relayout => InLayout(card', o.sec)
        /\ o.cost \in Nat /\ o.cost + 1 \in Nat
    BY DEF Lands, CatchFails
  <1>2. o.sec.avail \in Pages
    BY <1>1, ConstantsAssumption DEF SectionOK, Sections, Pages, PastEnd
  <1>3. CASE Restarts(o.sec.avail, o.cost)
    <2>1. faults' \in 0..MaxFaults /\ Down(TRUE, o.sec.avail)
      BY <1>1, <1>3, FaultCounts DEF Restarts
    <2>2. SectionFits' /\ Control'
      BY <1>2, <2>1, DownOK
    <2>3. CardMoves
      BY <1>1, <2>1, LandsCard DEF Down
    <2> QED
      BY <2>2, <2>3 DEF SectionInv, CardMoves
  <1>4. CASE Fault(IF restart THEN o.cost + 1 ELSE o.cost) /\ lowStop' = TRUE /\ ToShow(Clamped(o.sec))
    <2>1. faults' \in 0..MaxFaults
      BY <1>1, <1>4, FaultCounts
    <2>2. /\ SectionOK(Clamped(o.sec)) /\ Fit(card', Clamped(o.sec))
          /\ ~relayout => InLayout(card', Clamped(o.sec))
      BY <1>1, ClampedFits
    <2>3. ~Clamped(o.sec).building
      <3>1. Clamped(o.sec) = o.sec \/ Clamped(o.sec) = [o.sec EXCEPT !.page = o.sec.avail - 1]
        BY DEF Clamped
      <3> QED
        BY <1>1, <3>1 DEF SectionOK, Sections
    <2>4. SectionFits' /\ Control'
      BY <1>4, <2>1, <2>2, <2>3, ToShowOK
    <2>5. CardMoves
      BY <1>1, <1>4, LandsCard DEF ToShow
    <2> QED
      BY <2>4, <2>5 DEF SectionInv, CardMoves
  <1>5. CASE Fault(o.cost) /\ Fails
    <2>1. faults' \in 0..MaxFaults
      BY <1>1, <1>5, FaultCounts
    <2>2. SectionFits' /\ Control'
      BY <1>5, <2>1, FailsOK
    <2>3. CardMoves
      BY <1>1, <1>5, LandsCard DEF Fails
    <2> QED
      BY <2>2, <2>3 DEF SectionInv, CardMoves
  <1> QED
    BY <1>3, <1>4, <1>5 DEF CatchFails

LEMMA CatchStepOK == SectionInv /\ CatchStep => SectionInv' /\ CardMoves
  <1> SUFFICES ASSUME SectionInv, CatchStep PROVE SectionInv' /\ CardMoves
    OBVIOUS
  <1>1. /\ pc = "catch" /\ sec # NoSection /\ (sec.building \/ sec.partial > 0) /\ spec \in Specs
        /\ SectionOK(sec) /\ Fit(card, sec) /\ CardOK(card)
    BY DEF CatchStep, CatchingUp, SectionInv, SectionFits, Control, ControlOK
  <1>2. PICK o \in (IF sec.building THEN Advances(card, sec) ELSE Starts(card, sec)) :
          \/ /\ o.ok
             /\ card' = o.card /\ sec' = o.sec /\ Fault(o.cost)
             /\ UNCHANGED <<settings, aim, pc, pending, shown, cancel, stops, restarted, retries>>
          \/ ~o.ok /\ CatchFails(o)
    BY DEF CatchStep
  <1>3. Good(card, sec, o, TRUE)
    <2>1. CASE sec.building
      BY <1>1, <2>1, AdvancesGood
    <2>2. CASE ~sec.building
      BY <1>1, <2>2, StartsGood
    <2> QED
      BY <2>1, <2>2
  <1>4. Lands(o)
    BY <1>1, <1>3, GoodLands
  <1>5. CASE ~o.ok /\ CatchFails(o)
    BY <1>1, <1>4, <1>5, CatchFailsOK
  <1>6. CASE /\ o.ok
             /\ card' = o.card /\ sec' = o.sec /\ Fault(o.cost)
             /\ UNCHANGED <<settings, aim, pc, pending, shown, cancel, stops, restarted, retries>>
    <2>1. faults' \in 0..MaxFaults
      BY <1>4, <1>6, FaultCounts DEF Lands
    <2>2. SectionFits' /\ sec' # NoSection
      BY <1>4, <1>6, NoFileIsNone DEF Lands, SectionFits, SectionOK, InLayout, settings
    <2>3. Control'
      BY <1>1, <1>6, <2>1, <2>2
         DEF SectionInv, Control, ControlOK, NoneYet, TurnedAway, NoDeadMessage, settings, aim, stops, Busy
    <2>4. CardMoves
      BY <1>1, <1>4, <1>6, LandsCard
    <2> QED
      BY <2>2, <2>3, <2>4 DEF SectionInv, CardMoves
  <1> QED
    BY <1>2, <1>5, <1>6

LEMMA ShowOK ==
  SectionInv /\ (ShowNothing \/ ShowChecks \/ ShowPage \/ ShowFails) => SectionInv' /\ CardMoves
  <1> SUFFICES ASSUME SectionInv, ShowNothing \/ ShowChecks \/ ShowPage \/ ShowFails
               PROVE SectionInv' /\ CardMoves
    OBVIOUS
  <1>1. pc \in {"show", "read"} /\ sec # NoSection /\ sec.avail \in Nat
    BY ConstantsAssumption
       DEF ShowNothing, ShowChecks, ShowPage, ShowFails, SectionInv, SectionFits, Control, ControlOK,
           SectionOK, Sections
  <1>2. CASE ShowNothing
    <2>1. CardMoves /\ SectionFits'
      BY <1>2, SectionStays DEF ShowNothing, Drawn, settings
    <2>2. Control'
      BY <1>1, <1>2 DEF SectionInv, Control, ControlOK, NoneYet, TurnedAway, NoDeadMessage,
                        ShowNothing, Drawn, Message, settings, aim, stops, Busy
    <2> QED
      BY <2>1, <2>2 DEF SectionInv, CardMoves
  <1>0. CASE ShowChecks
    <2>1. CardMoves /\ SectionFits'
      BY <1>0, SectionStays DEF ShowChecks, settings
    <2>2. Control'
      BY <1>1, <1>0, ConstantsAssumption
         DEF SectionInv, Control, ControlOK, NoneYet, TurnedAway, NoDeadMessage,
             ShowChecks, settings, aim, stops, Busy
    <2> QED
      BY <2>1, <2>2 DEF SectionInv, CardMoves
  <1>3. CASE ShowPage
    <2>1. CardMoves /\ SectionFits'
      BY <1>3, SectionStays DEF ShowPage, Drawn, settings
    <2>2. Control'
      BY <1>1, <1>3, ConstantsAssumption
         DEF SectionInv, Control, ControlOK, NoneYet, TurnedAway, NoDeadMessage,
             ShowPage, Drawn, Page, settings, aim, stops, Busy
    <2> QED
      BY <2>1, <2>2 DEF SectionInv, CardMoves
  <1>4. CASE ShowFails
    <2>1. faults' \in 0..MaxFaults
      <3>1. Fault(0) \/ Fault(1)
        BY <1>4 DEF ShowFails
      <3> QED
        BY <3>1, FaultCounts
    <2>2. CASE /\ retries = MaxRetries /\ retries' = 0
               /\ Drawn(Message("unreadable"))
      <3>1. CardMoves /\ SectionFits'
        BY <2>2, SectionStays DEF Drawn, settings
      <3>2. Control'
        BY <1>1, <2>1, <2>2, ConstantsAssumption
           DEF SectionInv, Control, ControlOK, NoneYet, TurnedAway, NoDeadMessage,
               Drawn, Message, settings, aim, stops, Busy
      <3> QED
        BY <3>1, <3>2 DEF SectionInv, CardMoves
    <2>3. CASE /\ retries < MaxRetries /\ retries' = retries + 1
               /\ card' = Cleared /\ sec' = NoSection /\ pending' = TRUE /\ pc' = "free"
               /\ UNCHANGED <<settings, aim, shown, cancel, stops, restarted>>
      <3>1. CardMoves
        BY <2>3 DEF CardMoves, Cleared, CardOK, Drops, Stored, Spare
      <3>2. Control'
        BY <1>1, <2>1, <2>3, ConstantsAssumption
           DEF SectionInv, Control, ControlOK, NoneYet, TurnedAway, NoDeadMessage,
               settings, aim, stops, Busy
      <3> QED
        BY <2>3, <3>1, <3>2 DEF SectionInv, SectionFits, CardMoves
    <2> QED
      BY <1>4, <2>2, <2>3 DEF ShowFails
  <1> QED
    BY <1>0, <1>2, <1>3, <1>4

-----------------------------------------------------------------------------
(* The main task.                                                          *)

LEMMA ResetsOK ==
  ASSUME SectionInv, Resets, pc # "off"
  PROVE  /\ SectionFits' /\ faults' \in 0..MaxFaults /\ sec' = NoSection
         /\ CardOK(card') /\ Keeps(card, card', Unseen)
  <1>1. PICK o \in (IF sec = NoSection THEN {Step(card, sec, TRUE, 0)} ELSE Suspends(card, sec)) :
          card' = o.card /\ Fault(o.cost)
    BY DEF Resets
  <1>2. CASE sec = NoSection
    <2>1. o.card = card /\ o.cost = 0
      BY <1>1, <1>2 DEF Step
    <2> QED
      BY <1>1, <2>1, FaultCounts DEF SectionInv, SectionFits, Resets, Keeps, Same
  <1>3. CASE sec # NoSection
    <2>1. Good(card, sec, o, FALSE)
      BY <1>1, <1>3, SuspendsGood DEF SectionInv, SectionFits
    <2>2. o.cost \in Nat /\ CardOK(o.card) /\ Keeps(card, o.card, sec.blind)
      BY <2>1 DEF Good
    <2> QED
      BY <1>1, <1>3, <2>2, FaultCounts DEF SectionFits, Resets, Keeps, Unseen
  <1> QED
    BY <1>2, <1>3

LEMMA LeavesOK ==
  SectionInv /\ (LeaveChapter \/ Jump \/ GoHome \/ Relayout) => SectionInv' /\ CardMoves
  <1> SUFFICES ASSUME SectionInv, LeaveChapter \/ Jump \/ GoHome \/ Relayout
               PROVE  SectionInv' /\ CardMoves
    OBVIOUS
  <1>1. Resets /\ pc \in {"free", "away"}
    BY DEF LeaveChapter, Jump, GoHome, Relayout, Locks
  <1>2. /\ SectionFits' /\ faults' \in 0..MaxFaults /\ sec' = NoSection
        /\ CardOK(card') /\ CardMoves
    BY <1>1, ResetsOK DEF CardMoves
  <1>3. CASE LeaveChapter
    <2>1. ControlOK'
      <3>1. /\ spec' \in Specs /\ nextPage' \in Pages /\ pc' = "away" /\ retries' \in 0..MaxRetries
        BY <1>3, ConstantsAssumption DEF SectionInv, Control, ControlOK, LeaveChapter, settings, aim
      <3>2. /\ full' \in BOOLEAN /\ relayout' \in BOOLEAN /\ lastPage' \in BOOLEAN /\ moves' \in BOOLEAN
            /\ pending' \in BOOLEAN /\ cancel' \in BOOLEAN /\ startFailed' \in BOOLEAN
            /\ lowStop' \in BOOLEAN /\ restarted' \in BOOLEAN
        BY <1>3 DEF SectionInv, Control, ControlOK, LeaveChapter, settings, aim
      <3> QED
        BY <1>2, <3>1, <3>2 DEF ControlOK
    <2>2. NoneYet' /\ TurnedAway' /\ NoDeadMessage'
      BY <1>2, <1>3 DEF NoneYet, TurnedAway, NoDeadMessage, LeaveChapter, Message
    <2> QED
      BY <1>2, <2>1, <2>2 DEF SectionInv, Control
  <1>4. CASE Jump
    <2>1. nextPage' \in Pages
      BY <1>4, ConstantsAssumption DEF Jump, Pages, PastEnd
    <2>2. Control'
      BY <1>1, <1>2, <1>4, <2>1, ConstantsAssumption
         DEF SectionInv, Control, ControlOK, NoneYet, TurnedAway, NoDeadMessage, Jump, Locks,
             settings, stops, Busy
    <2> QED
      BY <1>2, <2>2 DEF SectionInv
  <1>5. CASE GoHome
    <2>1. ControlOK'
      <3>1. /\ spec' \in Specs /\ nextPage' \in Pages /\ pc' = "off" /\ retries' \in 0..MaxRetries
        BY <1>5, ConstantsAssumption DEF SectionInv, Control, ControlOK, GoHome, settings, Pages, PastEnd
      <3>2. /\ full' \in BOOLEAN /\ relayout' \in BOOLEAN /\ lastPage' \in BOOLEAN /\ moves' \in BOOLEAN
            /\ pending' \in BOOLEAN /\ cancel' \in BOOLEAN /\ startFailed' \in BOOLEAN
            /\ lowStop' \in BOOLEAN /\ restarted' \in BOOLEAN
        BY <1>5 DEF SectionInv, Control, ControlOK, GoHome, settings
      <3> QED
        BY <1>2, <3>1, <3>2 DEF ControlOK
    <2>2. NoneYet' /\ TurnedAway' /\ NoDeadMessage'
      BY <1>2, <1>5 DEF NoneYet, TurnedAway, NoDeadMessage, GoHome, Message
    <2> QED
      BY <1>2, <2>1, <2>2 DEF SectionInv, Control
  <1>6. CASE Relayout
    <2>1. nextPage' \in Pages
      BY <1>6 DEF Relayout, SectionInv, SectionFits, SectionOK, Sections, Control, ControlOK
    <2>2. Control'
      BY <1>1, <1>2, <1>6, <2>1
         DEF SectionInv, Control, ControlOK, NoneYet, TurnedAway, NoDeadMessage, Relayout,
             stops, Busy
    <2> QED
      BY <1>2, <2>2 DEF SectionInv
  <1> QED
    BY <1>3, <1>4, <1>5, <1>6

LEMMA PrefetchOK == SectionInv /\ Prefetch => SectionInv' /\ CardMoves
  <1> SUFFICES ASSUME SectionInv, Prefetch PROVE SectionInv' /\ CardMoves
    OBVIOUS
  <1>1. /\ pc = "away" /\ sec = NoSection /\ spec \in Specs
        /\ UNCHANGED <<sec, settings, aim, pc, pending, shown, cancel, stops, restarted, retries>>
    BY DEF Prefetch, SectionInv, Control, ControlOK, NoneYet
  <1>2. PICK l \in Loads(card) :
          \/ card' = l.card /\ Fault(l.cost)
          \/ \E r \in Recovers(l.card) : card' = r.card /\ Fault(l.cost + r.cost)
          \/ \E o \in Commits(l.card, Cache(spec, Total, TRUE)) :
               card' = o.card /\ Fault(l.cost + o.cost)
    BY DEF Prefetch
  <1>3. CardOK(l.card) /\ Same(card, l.card) /\ l.cost \in Nat
    BY LoadsFile DEF SectionInv
  <1>4. CardMoves /\ faults' \in 0..MaxFaults
    <2>1. CASE card' = l.card /\ Fault(l.cost)
      BY <1>3, <2>1, FaultCounts DEF CardMoves, Keeps
    <2>2. CASE \E r \in Recovers(l.card) : card' = r.card /\ Fault(l.cost + r.cost)
      <3>1. PICK r \in Recovers(l.card) : card' = r.card /\ Fault(l.cost + r.cost)
        BY <2>2
      <3>2. CardOK(r.card) /\ Same(l.card, r.card) /\ r.cost \in Nat /\ l.cost + r.cost \in Nat
        BY <1>3, RecoversCard
      <3> QED
        BY <1>3, <3>1, <3>2, FaultCounts DEF CardMoves, Keeps, Same
    <2>3. CASE \E o \in Commits(l.card, Cache(spec, Total, TRUE)) :
                 card' = o.card /\ Fault(l.cost + o.cost)
      <3>1. PICK o \in Commits(l.card, Cache(spec, Total, TRUE)) :
              card' = o.card /\ Fault(l.cost + o.cost)
        BY <2>3
      <3>2. Cache(spec, Total, TRUE) \in Caches
        BY <1>1, MakesCache
      <3>3. /\ CardOK(o.card) /\ o.cost \in Nat
            /\ Same(l.card, o.card) \/ Puts(l.card, o.card, Cache(spec, Total, TRUE))
        BY <1>3, <3>2, CommitsCard
      <3>4. Keeps(l.card, o.card, Unseen)
        BY <1>1, <1>3, <3>3, WholeCovers
      <3>5. l.cost + o.cost \in Nat
        BY <1>3, <3>3
      <3> QED
        BY <1>3, <3>1, <3>3, <3>4, <3>5, SameThen, FaultCounts DEF CardMoves
    <2> QED
      BY <1>2, <2>1, <2>2, <2>3
  <1>5. Control'
    BY <1>1, <1>4 DEF SectionInv, Control, ControlOK, NoneYet, TurnedAway, NoDeadMessage,
                      settings, aim, stops, Busy
  <1> QED
    BY <1>1, <1>4, <1>5 DEF SectionInv, SectionFits, CardMoves

LEMMA LazyStartOK == SectionInv /\ LazyStart => SectionInv' /\ CardMoves
  <1> SUFFICES ASSUME SectionInv, LazyStart PROVE SectionInv' /\ CardMoves
    OBVIOUS
  <1>1. /\ pc = "free" /\ sec # NoSection /\ ~sec.building /\ sec.partial > 0 /\ spec \in Specs
        /\ SectionOK(sec) /\ Fit(card, sec) /\ CardOK(card)
    BY DEF LazyStart, Locks, SectionInv, SectionFits, Control, ControlOK
  <1>2. PICK o \in Starts(card, sec) :
          card' = o.card /\ sec' = o.sec /\ Fault(o.cost) /\ startFailed' = ~o.ok
    BY DEF LazyStart
  <1>3. Lands(o)
    BY <1>1, StartsGood, GoodLands
  <1>4. faults' \in 0..MaxFaults /\ startFailed' \in BOOLEAN
    BY <1>2, <1>3, FaultCounts DEF Lands
  <1>5. SectionFits'
    BY <1>2, <1>3 DEF Lands, SectionFits, InLayout, LazyStart, settings
  <1>6. Control'
    BY <1>1, <1>4
       DEF SectionInv, Control, ControlOK, NoneYet, TurnedAway, NoDeadMessage, LazyStart,
           settings, aim, Busy
  <1>7. CardMoves
    BY <1>1, <1>2, <1>3, LandsCard DEF LazyStart
  <1> QED
    BY <1>5, <1>6, <1>7 DEF SectionInv, CardMoves

LEMMA TickOK == SectionInv /\ Tick => SectionInv' /\ CardMoves
  <1> SUFFICES ASSUME SectionInv, Tick PROVE SectionInv' /\ CardMoves
    OBVIOUS
  <1>1. /\ pc = "free" /\ pc' = "free" /\ sec # NoSection /\ sec.building
        /\ SectionOK(sec) /\ Fit(card, sec) /\ CardOK(card)
    BY DEF Tick, Locks, WantsTick, SectionInv, SectionFits
  <1>2. PICK o \in Advances(card, sec) :
          /\ card' = o.card /\ Fault(o.cost)
          /\ IF o.ok \/ (o.sec.low /\ o.sec.avail > 0)
             THEN /\ lowStop' = (lowStop \/ ~o.ok)
                  /\ IF o.ok /\ ~o.sec.building /\ moves THEN Repositions(o.sec) /\ pending' = TRUE
                     ELSE sec' = o.sec /\ UNCHANGED <<moves, pending>>
             ELSE sec' = NoSection /\ pending' = TRUE /\ UNCHANGED <<moves, lowStop>>
    BY DEF Tick
  <1>3. Lands(o)
    BY <1>1, AdvancesGood, GoodLands
  <1>4. faults' \in 0..MaxFaults
    BY <1>2, <1>3, FaultCounts DEF Lands
  <1>5. SectionFits' /\ moves' \in BOOLEAN
    <2>1. CASE sec' = NoSection /\ UNCHANGED moves
      BY <2>1 DEF SectionInv, Control, ControlOK, SectionFits
    <2>2. CASE sec' = o.sec /\ UNCHANGED moves
      BY <1>2, <1>3, <2>2 DEF Lands, SectionInv, Control, ControlOK, SectionFits, InLayout, Tick, settings
    <2>3. CASE Repositions(o.sec) /\ moves
      <3>1. /\ SectionOK(o.sec) /\ Fit(card', o.sec) /\ (~relayout => InLayout(card', o.sec))
            /\ moves \in BOOLEAN
        BY <1>2, <1>3 DEF Lands, SectionInv, Control, ControlOK
      <3>2. /\ SectionOK(sec') /\ Fit(card', sec') /\ (~relayout => InLayout(card', sec'))
            /\ moves' \in BOOLEAN
        BY <2>3, <3>1, RepositionsOK
      <3> QED
        BY <3>2 DEF SectionFits, InLayout, Tick, settings
    <2> QED
      BY <1>2, <2>1, <2>2, <2>3
  <1>6. lowStop' \in BOOLEAN /\ pending' \in BOOLEAN /\ (pending => pending')
    BY <1>2 DEF SectionInv, Control, ControlOK
  <1>7. Control'
    BY <1>1, <1>4, <1>5, <1>6
       DEF SectionInv, Control, ControlOK, NoneYet, TurnedAway, NoDeadMessage, Tick,
           settings, Busy
  <1>8. CardMoves
    BY <1>1, <1>2, <1>3, LandsCard
  <1> QED
    BY <1>5, <1>7, <1>8 DEF SectionInv, CardMoves

LEMMA CrashOK == SectionInv /\ Crash => SectionInv' /\ CardMoves
  <1> SUFFICES ASSUME SectionInv, Crash PROVE SectionInv' /\ CardMoves
    OBVIOUS
  <1>1. faults' \in 0..MaxFaults
    BY ConstantsAssumption DEF Crash, SectionInv, Control, ControlOK
  <1>2. SectionFits' /\ Control'
    <2>1. 0 \in Pages
      BY ConstantsAssumption DEF Pages, PastEnd
    <2> QED
      BY <1>1, <2>1, DownOK DEF Crash
  <1>3. CASE card' = card
    BY <1>2, <1>3, KeptCard DEF SectionInv
  <1>4. CASE sec # NoSection /\ sec.building /\ \E new \in Committing(sec) : card' \in Halfway(card, new)
    <2>1. PICK new \in Committing(sec) : card' \in Halfway(card, new)
      BY <1>4
    <2>2. SectionOK(sec) /\ Fit(card, sec) /\ CardOK(card) /\ sec.spec \in Specs
      BY <1>4 DEF SectionInv, SectionFits, SectionOK, Sections
    <2>3. CASE new = Cache(sec.spec, Total, TRUE)
      <3>1. new \in Caches
        BY <2>2, <2>3, MakesCache
      <3>2. CardOK(card') /\ (Same(card, card') \/ Puts(card, card', new))
        BY <2>1, <2>2, <3>1, HalfwayCard
      <3>3. Keeps(card, card', Unseen)
        BY <2>2, <2>3, <3>2, WholeCovers
      <3> QED
        BY <1>2, <3>2, <3>3 DEF SectionInv, CardMoves
    <2>4. CASE new = Cache(sec.spec, sec.built, FALSE) /\ sec.built > sec.partial
      <3>1. sec.built \in 1..Total
        BY <2>2, <2>4, ConstantsAssumption DEF SectionOK, Sections
      <3>2. new \in Caches
        BY <2>2, <2>4, <3>1, MakesCache
      <3>3. CardOK(card') /\ (Same(card, card') \/ Puts(card, card', new))
        BY <2>1, <2>2, <3>2, HalfwayCard
      <3>4. Keeps(card, card', sec.blind)
        BY <1>4, <2>2, <2>4, <3>3, PartialCovers
      <3>5. Keeps(card, card', Unseen)
        BY <1>4, <3>4 DEF Keeps, Unseen
      <3> QED
        BY <1>2, <3>3, <3>5 DEF SectionInv, CardMoves
    <2> QED
      BY <2>1, <2>3, <2>4 DEF Committing
  <1>5. CASE \E l \in Loads(card) : card' \in Halfway(l.card, Cache(spec, Total, TRUE))
    <2>1. PICK l \in Loads(card) : card' \in Halfway(l.card, Cache(spec, Total, TRUE))
      BY <1>5
    <2>2. CardOK(l.card) /\ Same(card, l.card)
      BY LoadsFile DEF SectionInv
    <2>3. spec \in Specs /\ Cache(spec, Total, TRUE) \in Caches
      BY MakesCache DEF SectionInv, Control, ControlOK
    <2>4. CardOK(card') /\ (Same(l.card, card') \/ Puts(l.card, card', Cache(spec, Total, TRUE)))
      BY <2>1, <2>2, <2>3, HalfwayCard
    <2>5. Keeps(l.card, card', Unseen)
      BY <2>2, <2>3, <2>4, WholeCovers
    <2> QED
      BY <1>2, <2>2, <2>4, <2>5, SameThen DEF SectionInv, CardMoves
  <1> QED
    BY <1>3, <1>4, <1>5 DEF Crash

LEMMA StepOK == SectionInv /\ Next => SectionInv' /\ (CardMoves \/ (Enter /\ UNCHANGED card))
  <1> SUFFICES ASSUME SectionInv, Next
               PROVE  SectionInv' /\ (CardMoves \/ (Enter /\ UNCHANGED card))
    OBVIOUS
  <1>1. CASE RenderBegins
    BY <1>1, RenderBeginsOK
  <1>2. CASE RenderStep
    BY <1>2, LoadClearsOK, OpenCachedOK, OpenBuildsOK, OpenIndexesOK, BuildStepOK, CancelledOK,
       BuildReachedOK, StoppedOK, FitsOK, CatchStepOK, ShowOK DEF RenderStep
  <1>3. CASE Main
    BY <1>3, TurnPageOK, LeavesOK, ControlOnlyOK, PrefetchOK, JumpWithinOK, EnterOK, LazyStartOK,
       TickOK DEF Main
  <1>4. CASE Crash
    BY <1>4, CrashOK
  <1> QED
    BY <1>1, <1>2, <1>3, <1>4 DEF Next

-----------------------------------------------------------------------------
(* Theorems.                                                               *)

LEMMA InitOK == Init => SectionInv
  <1> SUFFICES ASSUME Init PROVE SectionInv
    OBVIOUS
  <1>1. CardOK(card)
    BY DEF Init, Cleared, CardOK
  <1>2. Control
    <2>1. /\ spec \in Specs /\ nextPage \in Pages /\ pc = "off" /\ retries \in 0..MaxRetries
          /\ faults \in 0..MaxFaults
      BY ConstantsAssumption DEF Init, Pages, PastEnd
    <2>2. /\ full \in BOOLEAN /\ relayout \in BOOLEAN /\ lastPage \in BOOLEAN /\ moves \in BOOLEAN
          /\ pending \in BOOLEAN /\ cancel \in BOOLEAN /\ startFailed \in BOOLEAN
          /\ lowStop \in BOOLEAN /\ restarted \in BOOLEAN
      BY DEF Init
    <2>3. NoneYet /\ TurnedAway /\ NoDeadMessage
      BY DEF Init, NoneYet, TurnedAway, NoDeadMessage, Message
    <2> QED
      BY <2>1, <2>2, <2>3 DEF Control, ControlOK
  <1> QED
    BY <1>1, <1>2 DEF Init, SectionInv, SectionFits

\* The inductive invariant: whatever runs, the section never offers more than
\* it has built or the file holds (Section::loadSectionFile, buildUpTo,
\* suspendBuild, commitBuildFile).
THEOREM SectionAlwaysFits == Spec => []SectionInv
  <1>1. SectionInv /\ [Next]_vars => SectionInv'
    <2>1. SectionInv /\ UNCHANGED vars => SectionInv'
      BY DEF SectionInv, SectionFits, Control, ControlOK, NoneYet, TurnedAway, NoDeadMessage,
             InLayout, vars, settings, aim, stops
    <2> QED
      BY <2>1, StepOK
  <1> QED
    BY <1>1, InitOK, PTL DEF Spec

\* Every variable keeps its type, and what the section says of its pages adds up.
THEOREM TypeCorrect == Spec => []TypeOK
  <1>1. SectionInv => TypeOK
    BY DEF SectionInv, SectionFits, Control, TypeOK
  <1> QED
    BY <1>1, SectionAlwaysFits, PTL

\* The pages a section offers are there, whatever was built, suspended,
\* thrown away or cut off before (Section::loadPage).
THEOREM OfferedPagesReadable == Spec => []PagesReadable
  <1>1. SectionInv => PagesReadable
    <2> SUFFICES ASSUME SectionInv, sec # NoSection, NEW p \in 0..(sec.avail - 1)
                 PROVE  \/ Reads(sec, p) # {}
                        \/ card.bin = NoFile /\ card.bak # NoFile /\ p < card.bak.pages
      BY DEF PagesReadable
    <2>1. /\ SectionOK(sec) /\ Fit(card, sec) /\ CardOK(card) /\ sec.spec \in Specs
          /\ sec.avail \in Nat /\ sec.built \in Nat /\ sec.partial \in Nat /\ p \in Nat /\ p < sec.avail
      BY ConstantsAssumption DEF SectionInv, SectionFits, SectionOK, Sections
    <2>2. CASE sec.building /\ p < sec.built
      <3>1. sec.spec \in Reads(sec, p)
        BY <2>1, <2>2 DEF Reads
      <3> QED
        BY <3>1
    <2>3. CASE ~(sec.building /\ p < sec.built)
      <3>1. p < FromFile(sec)
        <4>1. sec.building => sec.avail = IF sec.built >= sec.partial THEN sec.built ELSE sec.partial
          BY <2>1, MaxOfTwo DEF SectionOK
        <4> QED
          BY <2>1, <2>3, <4>1 DEF FromFile
      <3>2. Stored(card) # NoFile /\ Stored(card).pages >= FromFile(sec) /\ Stored(card) \in Caches
        BY <2>1, <3>1, CardFields DEF Fit, Files, FromFile
      <3>3. p < Stored(card).pages /\ Stored(card).spec \in Specs
        BY <2>1, <3>1, <3>2, CacheFields, ConstantsAssumption DEF FromFile
      <3>4. CASE card.bin # NoFile
        <4>1. card.bin.spec \in Reads(sec, p)
          BY <2>3, <3>1, <3>3, <3>4 DEF Reads, FromFile, Stored
        <4> QED
          BY <4>1
      <3>5. CASE card.bin = NoFile
        BY <3>2, <3>3, <3>5 DEF Stored
      <3> QED
        BY <3>4, <3>5
    <2> QED
      BY <2>2, <2>3
  <1> QED
    BY <1>1, SectionAlwaysFits, PTL

\* The bounds message, which a turn during the draw brings up, always has a
\* draw behind it (pageTurn and the end of render()).
THEOREM MessageNotLast == Spec => []NoDeadMessage
  <1>1. SectionInv => NoDeadMessage
    BY DEF SectionInv, Control
  <1> QED
    BY <1>1, SectionAlwaysFits, PTL

\* A page is drawn in the layout that the settings ask for.
THEOREM DrawnAsAsked == Spec => RightLayout
  <1> DEFINE Draws == pc = "read" /\ pc' = "free" /\ sec' # NoSection /\ shown'.kind = "page" /\ ~relayout
  <1>1. SectionInv /\ [Next]_vars => [Draws => shown'.spec = spec]_vars
    <2> SUFFICES ASSUME SectionInv, Next, Draws PROVE shown'.spec = spec
      OBVIOUS
    <2>1. /\ sec # NoSection /\ SectionOK(sec) /\ Fit(card, sec) /\ InLayout(card, sec)
          /\ CardOK(card) /\ pc = "read" /\ pc' = "free" /\ sec' # NoSection /\ shown'.kind = "page"
      BY DEF SectionInv, SectionFits, Control, ControlOK
    <2>2. ShowPage
      BY <2>1 DEF Next, RenderBegins, RenderStep, Main, Crash, LoadClears, OpenCached, OpenBuilds,
             OpenIndexes, BuildStep, BuildCancelled, BuildReached, Stopped, Fits, CatchStep,
             CatchCancelled, CatchDone, CatchingUp, ShowNothing, ShowChecks, ShowFails, Drawn, Message,
             TurnPage, LeaveChapter, ReturnToChapter, Prefetch, Jump, JumpWithin, BackWhileBusy,
             GoHome, Enter, MenuCloses, Relayout, LazyStart, Tick, Locks, Down
    <2>3. PICK sp \in Reads(sec, sec.page) : shown' = Page(sp)
      BY <2>2 DEF ShowPage, Drawn
    <2>4. CASE sec.building /\ sec.page < sec.built
      BY <2>1, <2>3, <2>4 DEF Reads, Page, InLayout
    <2>5. CASE ~(sec.building /\ sec.page < sec.built)
      <3>1. sec.page < FromFile(sec) /\ card.bin # NoFile /\ sp = card.bin.spec
        BY <2>3, <2>5 DEF Reads, FromFile
      <3>2. FromFile(sec) > 0
        BY <2>1, <3>1, ConstantsAssumption DEF FromFile, SectionOK, Sections, Pages, PastEnd
      <3> QED
        BY <2>1, <2>3, <3>1, <3>2 DEF InLayout, Stored, Page
    <2> QED
      BY <2>4, <2>5
  <1> QED
    BY <1>1, SectionAlwaysFits, PTL DEF Spec, RightLayout

LEMMA NothingLost ==
  ASSUME NEW c, CardOK(c), NEW s, SectionOK(s), Fit(c, s), s.avail > 0,
         NEW o \in Suspends(c, s), o.cost = 0
  PROVE  Stored(o.card) # NoFile /\ Stored(o.card).pages >= s.avail
  <1>1. /\ s.avail \in Nat /\ s.built \in Nat /\ s.partial \in Nat /\ s.built \in 0..Total
        /\ s.spec \in Specs
    BY ConstantsAssumption DEF SectionOK, Sections
  <1>2. s.building => s.avail = IF s.built >= s.partial THEN s.built ELSE s.partial
    BY <1>1, MaxOfTwo DEF SectionOK
  <1>3. CASE s.building /\ s.built > s.partial
    <2>1. PICK p \in Commits(c, Cache(s.spec, s.built, FALSE)) :
            o = Step(p.card, NotBuilding(s, IF p.ok THEN s.built ELSE s.partial), p.ok, p.cost)
      BY <1>3 DEF Suspends
    <2>2. s.built \in 1..Total
      BY <1>1, <1>3
    <2>3. Cache(s.spec, s.built, FALSE) \in Caches
      BY <1>1, <2>2, MakesCache
    <2>4. o.card = p.card /\ p.cost = 0
      BY <2>1 DEF Step
    <2>5. Stored(o.card) = Cache(s.spec, s.built, FALSE)
      <3>1. /\ p.ok => Puts(c, p.card, Cache(s.spec, s.built, FALSE))
            /\ ~p.ok => p.cost > 0
        BY <2>3, CommitsCard
      <3>2. p.ok
        BY <2>4, <3>1
      <3> QED
        BY <2>4, <3>1, <3>2 DEF Puts
    <2>6. /\ Cache(s.spec, s.built, FALSE) # NoFile
          /\ Cache(s.spec, s.built, FALSE).pages = s.built
      BY <2>3, CacheFields DEF Cache
    <2>7. s.avail = s.built
      BY <1>1, <1>2, <1>3
    <2>8. Stored(o.card) # NoFile /\ Stored(o.card).pages = s.built
      BY <2>5, <2>6
    <2> QED
      BY <1>1, <2>7, <2>8
  <1>4. CASE ~(s.building /\ s.built > s.partial)
    <2>1. o.card = c
      <3>1. \E t : o = Step(c, t, TRUE, 0)
        BY <1>4 DEF Suspends
      <3> QED
        BY <3>1 DEF Step
    <2>2. FromFile(s) = s.avail
      BY <1>1, <1>2, <1>4 DEF FromFile
    <2> QED
      BY <2>1, <2>2 DEF Fit
  <1> QED
    BY <1>3, <1>4

\* Whoever leaves a chapter leaves the pages he had on the card, if the card
\* works (Section::suspendBuild and the destructor).
THEOREM LeavingKeepsWork == Spec => WorkIsKept
  <1> DEFINE Left == sec # NoSection /\ Leaves /\ faults' = faults /\ sec.avail > 0
             Kept == Stored(card') # NoFile /\ Stored(card').pages >= sec.avail
  <1>1. SectionInv /\ [Next]_vars => [Left => Kept]_vars
    <2> SUFFICES ASSUME SectionInv, Left PROVE Kept
      OBVIOUS
    <2>1. SectionOK(sec) /\ Fit(card, sec) /\ CardOK(card) /\ faults \in Nat
      BY ConstantsAssumption DEF SectionInv, SectionFits, Control, ControlOK
    <2>2. PICK o \in Suspends(card, sec) : card' = o.card /\ Fault(o.cost)
      BY DEF Leaves, LeaveChapter, Jump, GoHome, Relayout, Resets, BuildCancelled, CatchCancelled, Cancelled
    <2>3. o.cost = 0
      <3>1. o.cost \in Nat
        BY <2>1, SuspendsGood DEF Good
      <3> QED
        BY <2>1, <2>2, <3>1 DEF Fault
    <2> QED
      BY <2>1, <2>2, <2>3, NothingLost
  <1> QED
    BY <1>1, SectionAlwaysFits, PTL DEF Spec, WorkIsKept

LEMMA StoreStep ==
  ASSUME SectionInv, pc # "off", CardMoves
  PROVE  [Store!Next]_(Store!vars)
  <1>1. CASE Same(card, card')
    BY <1>1 DEF Same, Spare, Store!Next, Store!Keep
  <1>2. CASE \E new \in Caches : Puts(card, card', new)
               /\ (Stored(card) = NoFile \/ Unseen \/ Store!Covers(new, Stored(card)))
    <2>1. PICK new \in Caches : Puts(card, card', new)
                 /\ (Stored(card) = NoFile \/ Unseen \/ Store!Covers(new, Stored(card)))
      BY <1>2
    <2>2. /\ Stored(card') \in Caches
          /\ Stored(card) = NoFile \/ Unseen \/ Store!Covers(Stored(card'), Stored(card))
          /\ Spare(card') \in {NoFile, Spare(card), Stored(card)}
      BY <2>1 DEF Puts
    <2> QED
      BY <2>2 DEF Unseen, Spare, Store!Next, Store!Commit
  <1>3. CASE Drops(card, card') /\ (pc' # "off" \/ restarted')
    BY <1>3 DEF Drops, Spare, Store!Next, Store!Discard
  <1> QED
    BY <1>1, <1>2, <1>3 DEF CardMoves, Keeps

\* The card keeps the promise of SectionStore: a cache is replaced as a whole,
\* by one that covers it, and no loss of power takes it away
\* (Section::commitBuildFile, promoteSectionCache, recoverSectionCacheBackup).
THEOREM StoreKept == Spec => StoreRefined
  <1>1. Init => Store!Init
    BY DEF Init, Store!Init, Stored, Cleared
  <1>2. SectionInv /\ [Next]_vars => [Store!Next]_(Store!vars)
    <2> SUFFICES ASSUME SectionInv, [Next]_vars PROVE [Store!Next]_(Store!vars)
      OBVIOUS
    <2>1. CASE UNCHANGED vars
      BY <2>1 DEF vars, Store!vars
    <2>2. CASE Enter /\ UNCHANGED card
      BY <2>2 DEF Store!Next, Store!Keep
    <2>3. CASE Next /\ CardMoves
      <3>1. CASE pc = "off"
        <4>1. Enter
          BY <2>3, <3>1 DEF Next, RenderBegins, RenderStep, Main, Crash, LoadClears, OpenCached, OpenBuilds,
             OpenIndexes, BuildStep, BuildCancelled, BuildReached, Stopped, Fits, CatchStep,
             CatchCancelled, CatchDone, CatchingUp, ShowNothing, ShowChecks, ShowPage, ShowFails,
             TurnPage, LeaveChapter, ReturnToChapter, Prefetch, Jump, JumpWithin, BackWhileBusy,
             GoHome, MenuCloses, Relayout, LazyStart, Tick, Locks, Loop, Busy
        <4> QED
          BY <4>1 DEF Enter, Store!Next, Store!Keep
      <3>2. CASE pc # "off"
        BY <2>3, <3>2, StoreStep
      <3> QED
        BY <3>1, <3>2
    <2> QED
      BY <2>1, <2>2, <2>3, StepOK
  <1> QED
    BY <1>1, <1>2, SectionAlwaysFits, PTL DEF Spec, StoreRefined, Store!Spec
=============================================================================
