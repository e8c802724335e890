--------------------------- MODULE ConsoleProofs ---------------------------
(***************************************************************************)
(* The console: what its lists show and its export contains, what its      *)
(* campaign screen decides on, and what the stores of a tab hold, for any  *)
(* number of pages, requests, sessions and projects. One inductive         *)
(* invariant each.                                                         *)
(***************************************************************************)
EXTENDS MCConsole, SequenceTheorems, FiniteSetTheorems, NaturalsInduction,
        WellFoundedInduction, TLAPS

-----------------------------------------------------------------------------
(* ConsoleLists: what a table shows is what was asked last                 *)

\* A screen whose effect cleans up waits for the query it displays, and for no
\* other; what was asked is what was chosen; and rows stay behind only while an
\* answer is awaited or after an error
Fetches == [query : Queries, live : BOOLEAN]
FetchesSound ==
    /\ fetches \subseteq Fetches
    /\ screen.cancels =>
         \A f \in fetches : f.live => fetching /\ f.query = asked
ListInv ==
    /\ fetching \in BOOLEAN /\ asked \in Queries /\ FetchesSound
    /\ asked.page # 1 => asked = chosen
    /\ RowsAreOfQuery

LEMMA ListInvSound == ListInv => RowsAreSound
BY DEF ListInv, RowsAreSound, RowsAreOfQuery, PageWasChosen

\* Cleaned
LEMMA CleanedSound ==
    ASSUME NEW fs \in SUBSET Fetches
    PROVE  /\ Cleaned(fs) \subseteq Fetches
           /\ screen.cancels => \A f \in Cleaned(fs) : ~f.live
<1>1. ASSUME NEW f \in fs
      PROVE  [f EXCEPT !.live = FALSE] \in Fetches /\ ~[f EXCEPT !.live = FALSE].live
  BY DEF Fetches
<1> QED
  BY <1>1 DEF Cleaned

LEMMA FetchSound ==
    ASSUME NEW q \in Queries
    PROVE  Fetch(q) \in Fetches /\ Fetch(q).query = q
BY DEF Fetch, Fetches

LEMMA ListInitCorrect == ListInit => ListInv
<1> SUFFICES ASSUME ListInit PROVE ListInv
  OBVIOUS
<1>1. asked \in Queries /\ asked.page = 1
  BY ListAssumption DEF ListInit, Queries
<1>2. FetchesSound
  BY <1>1, FetchSound DEF ListInit, FetchesSound
<1> QED
  BY <1>1, <1>2 DEF ListInit, ListInv, RowsAreOfQuery

\* The effect runs: it cleans up and fetches what is asked now
LEMMA RefetchCorrect ==
    ASSUME ListInv, UNCHANGED screen, asked' \in Queries, Refetch(asked'),
           asked'.page # 1 => asked' = chosen'
    PROVE  ListInv'
<1>1. fetching' = TRUE
  BY DEF Refetch
<1>2. fetches \subseteq Fetches
  BY DEF ListInv, FetchesSound
<1>3. fetches' \subseteq Cleaned(fetches) \cup {Fetch(asked')}
  BY DEF Refetch
<1>4. FetchesSound'
  BY <1>1, <1>2, <1>3, CleanedSound, FetchSound DEF FetchesSound
<1> QED
  BY <1>1, <1>4 DEF ListInv, RowsAreOfQuery

LEMMA ChangeFilterCorrect ==
    ASSUME ListInv, NEW v \in Filters, ChangeFilter(v)
    PROVE  ListInv'
<1>1. asked' \in Queries /\ asked'.page = 1
  BY ListAssumption DEF ChangeFilter, ListInv, Queries
<1> QED
  BY <1>1, RefetchCorrect DEF ChangeFilter

LEMMA ChangePageCorrect ==
    ASSUME ListInv, NEW p \in Pages, ChangePage(p)
    PROVE  ListInv'
<1>1. asked' \in Queries
  BY DEF ChangePage, ListInv, Queries
<1> QED
  BY <1>1, RefetchCorrect DEF ChangePage

\* The fetch of the old page number is cleaned up with the others
LEMMA ChangeSelectionCorrect ==
    ASSUME ListInv, NEW s \in Selections, ChangeSelection(s)
    PROVE  ListInv'
<1>1. asked' \in Queries /\ asked'.page = 1
  BY ListAssumption DEF ChangeSelection, ListInv, Queries
<1>2. [asked EXCEPT !.selection = s] \in Queries
  BY DEF ListInv, Queries
<1>3. PICK early \in SUBSET Fetches :
        fetches' = Cleaned(fetches \cup early) \cup {Fetch(asked')}
  BY <1>2, FetchSound DEF ChangeSelection
<1>4. fetches \cup early \in SUBSET Fetches
  BY <1>3 DEF ListInv, FetchesSound
<1>5. screen' = screen /\ fetching' = TRUE
  BY DEF ChangeSelection
<1>6. FetchesSound'
  BY <1>1, <1>3, <1>4, <1>5, CleanedSound, FetchSound DEF FetchesSound
<1> QED
  BY <1>1, <1>5, <1>6 DEF ListInv, RowsAreOfQuery

LEMMA ReloadCodesCorrect ==
    ASSUME ListInv, ReloadCodes
    PROVE  ListInv'
<1>1. ~screen.cancels /\ screen' = screen
  BY DEF ReloadCodes, CodesTab
<1>2. PICK q \in Queries : Refetch(q)
  BY DEF ReloadCodes
<1>3. fetches \subseteq Fetches
  BY DEF ListInv, FetchesSound
<1>4. fetches' \subseteq Fetches /\ fetching' = TRUE
  BY <1>2, <1>3, CleanedSound, FetchSound DEF Refetch
<1> QED
  BY <1>1, <1>4 DEF ReloadCodes, ListInv, FetchesSound, RowsAreOfQuery

\* Of the fetches that count there is one, so none is left once it has come back
LEMMA ComesBack ==
    ASSUME ListInv, NEW f \in fetches, fetches' = fetches \ {f}, UNCHANGED <<screen, asked>>,
           fetching' = (fetching /\ ~f.live)
    PROVE  FetchesSound' /\ fetching' \in BOOLEAN
<1>1. ASSUME screen.cancels, NEW g \in fetches', g.live PROVE fetching' /\ g.query = asked
  <2>1. g \in Fetches /\ f \in Fetches /\ g # f
    BY DEF ListInv, FetchesSound
  <2>2. fetching /\ g.query = asked /\ (f.live => f.query = asked)
    BY <1>1 DEF ListInv, FetchesSound
  <2>3. ASSUME f.live PROVE FALSE
    <3>1. f.live = g.live
      BY <1>1, <2>1, <2>3 DEF Fetches
    <3>2. f.query = g.query
      BY <2>2, <2>3
    <3> QED
      BY <2>1, <3>1, <3>2 DEF Fetches
  <2> QED
    BY <2>2, <2>3
<1> QED
  BY <1>1 DEF ListInv, FetchesSound

LEMMA AnswerCorrect ==
    ASSUME ListInv, NEW f \in fetches, Answer(f) \/ Error(f)
    PROVE  ListInv'
<1>1. UNCHANGED <<screen, asked, chosen>> /\ FetchesSound' /\ fetching' \in BOOLEAN
  BY ComesBack DEF Answer, Error
<1>2. ASSUME screen.cancels, ~fetching', ~failed' PROVE rows' = asked
  <2>1. f.live => f.query = asked
    BY <1>2 DEF ListInv, FetchesSound
  <2>2. ~f.live => rows = asked
    BY <1>2 DEF Answer, Error, ListInv, RowsAreOfQuery
  <2>3. CASE f.live
    BY <1>2, <2>1, <2>3 DEF Answer, Error
  <2>4. CASE ~f.live
    BY <2>2, <2>4 DEF Answer, Error
  <2> QED
    BY <2>3, <2>4
<1> QED
  BY <1>1, <1>2 DEF ListInv, RowsAreOfQuery

LEMMA ListNextCorrect == ListInv /\ [ListNext]_listVars => ListInv'
<1> SUFFICES ASSUME ListInv, [ListNext]_listVars PROVE ListInv'
  OBVIOUS
<1>1. CASE UNCHANGED listVars
  BY <1>1 DEF listVars, ListInv, FetchesSound, RowsAreOfQuery
<1> QED
  BY <1>1, ChangeFilterCorrect, ChangePageCorrect, ChangeSelectionCorrect, ReloadCodesCorrect,
     AnswerCorrect DEF ListNext

\* A list that has stopped loading without an error shows the answer to the
\* query on display, and no later page of it than was chosen, in whatever order
\* the answers come (the effects of the list pages and their cleanups).
THEOREM ListsCorrect == ListSpec => []RowsAreSound
BY ListInitCorrect, ListNextCorrect, ListInvSound, PTL DEF ListSpec

\* While a screen that cleans up shows itself loading, the fetch that will end
\* it is under way
Awaited == screen.cancels /\ fetching => \E f \in fetches : f.live
ListTyped ==
    /\ screen \in Screens /\ chosen \in Queries /\ rows \in Queries \cup {NULL}
    /\ failed \in BOOLEAN /\ Awaited
ListTypeInv == ListInv /\ ListTyped

LEMMA AwaitedNow ==
    ASSUME NEW q, Fetch(q) \in fetches'
    PROVE  Awaited'
BY DEF Awaited, Fetch

LEMMA ListTypesStart == ListInit => ListTyped
<1> SUFFICES ASSUME ListInit PROVE ListTyped
  OBVIOUS
<1>1. asked \in Queries
  BY ListAssumption DEF ListInit, Queries
<1> QED
  BY <1>1 DEF ListInit, ListTyped, Awaited, Fetch

LEMMA ListTypesStay == ListTypeInv /\ [ListNext]_listVars => ListTyped'
<1> SUFFICES ASSUME ListTypeInv, [ListNext]_listVars PROVE ListTyped'
  OBVIOUS
<1>1. ListInv' /\ ListInv /\ ListTyped
  BY ListNextCorrect DEF ListTypeInv
<1>2. CASE UNCHANGED listVars
  BY <1>1, <1>2 DEF listVars, ListTyped, Awaited
<1>3. ASSUME NEW v \in Filters, ChangeFilter(v) PROVE ListTyped'
  <2>1. Awaited'
    BY <1>3, AwaitedNow DEF ChangeFilter, Refetch
  <2> QED
    BY <1>1, <1>3, <2>1 DEF ListTyped, ChangeFilter, Refetch
<1>4. ASSUME NEW p \in Pages, ChangePage(p) PROVE ListTyped'
  <2>1. Awaited'
    BY <1>4, AwaitedNow DEF ChangePage, Refetch
  <2>2. chosen' \in Queries
    BY <1>1, <1>4 DEF ListInv, ChangePage
  <2> QED
    BY <1>1, <1>4, <2>1, <2>2 DEF ListTyped, ChangePage, Refetch
<1>5. ASSUME NEW s \in Selections, ChangeSelection(s) PROVE ListTyped'
  <2>1. Awaited'
    BY <1>5, AwaitedNow DEF ChangeSelection
  <2> QED
    BY <1>1, <1>5, <2>1 DEF ListTyped, ChangeSelection
<1>6. CASE ReloadCodes
  <2>1. Awaited'
    BY <1>6, AwaitedNow DEF ReloadCodes, Refetch
  <2> QED
    BY <1>1, <1>6, <2>1 DEF ListTyped, ReloadCodes, Refetch
<1>7. ASSUME NEW f \in fetches, Answer(f) \/ Error(f) PROVE ListTyped'
  <2>1. f.query \in Queries
    BY <1>1 DEF ListInv, FetchesSound, Fetches
  <2>2. Awaited'
    BY <1>1, <1>7 DEF ListTyped, Awaited, Answer, Error
  <2>3. rows' \in Queries \cup {NULL} /\ failed' \in BOOLEAN
    <3>1. f.live \in BOOLEAN
      BY <1>1 DEF ListInv, FetchesSound, Fetches
    <3> QED
      BY <1>1, <1>7, <2>1, <3>1 DEF ListTyped, Answer, Error
  <2> QED
    BY <1>1, <1>7, <2>2, <2>3 DEF ListTyped, Answer, Error
<1> QED
  BY <1>2, <1>3, <1>4, <1>5, <1>6, <1>7 DEF ListNext

\* The variables of a list keep their types, and a screen that cleans up waits
\* for exactly one answer while it shows itself loading (the cleanup of each
\* effect): it neither loads for ever nor stops before its answer is there.
THEOREM ListsTyped == ListSpec => []ListTypeOK
<1>1. ListTypeInv => ListTypeOK
  <2> SUFFICES ASSUME ListTypeInv PROVE ListTypeOK
    OBVIOUS
  <2>1. ListInv /\ ListTyped
    BY DEF ListTypeInv
  <2> DEFINE live == {f \in fetches : f.live}
  <2>2. ASSUME screen.cancels, fetching PROVE Cardinality(live) = 1
    <3>1. PICK f \in fetches : f.live
      BY <2>1, <2>2 DEF ListTyped, Awaited
    <3>2. ASSUME NEW g \in live PROVE g = f
      <4>1. f \in Fetches /\ g \in Fetches /\ f.query = asked /\ g.query = asked
        BY <2>1, <2>2, <3>1 DEF ListInv, FetchesSound
      <4>2. f.live = g.live
        BY <3>1, <4>1 DEF Fetches
      <4> QED
        BY <4>1, <4>2 DEF Fetches
    <3>3. live = {f}
      BY <3>1, <3>2
    <3> QED
      BY <3>3, FS_Singleton
  <2>3. ASSUME screen.cancels, ~fetching PROVE Cardinality(live) = 0
    <3>1. live = {}
      BY <2>1, <2>3 DEF ListInv, FetchesSound
    <3> QED
      BY <3>1, FS_EmptySet
  <2>4. screen.cancels => Cardinality(live) = IF fetching THEN 1 ELSE 0
    BY <2>1, <2>2, <2>3 DEF ListInv
  <2> QED
    BY <2>1, <2>4 DEF ListInv, FetchesSound, Fetches, ListTyped, ListTypeOK
<1>2. ListInit => ListTypeInv
  BY ListInitCorrect, ListTypesStart DEF ListTypeInv
<1>3. ListTypeInv /\ [ListNext]_listVars => ListTypeInv'
  BY ListNextCorrect, ListTypesStay DEF ListTypeInv
<1> QED
  BY <1>1, <1>2, <1>3, PTL DEF ListSpec

-----------------------------------------------------------------------------
(* CodeExport: the file of an export without a filter has every code       *)

\* The codes up to the n-th, in order
Upto(n) == [i \in 1..n |-> i]

\* As long as the loop runs, every page it has read was full. It ends with all
\* codes there are, or is abandoned without a file.
ExportInv ==
    /\ codes \in Seq({Unused, Used}) /\ filter \in {Unused, Used, Everything}
    /\ next \in Nat \ {0} /\ before \in Nat /\ before <= Len(codes)
    /\ exporting \in BOOLEAN
    /\ filter = Everything =>
         \E n \in Nat : /\ file = Upto(n)
                        /\ exporting => n = (next - 1) * PageSize
                        /\ (~exporting /\ n # 0) => before <= n

LEMMA UptoIs ==
    ASSUME NEW n \in Nat
    PROVE  Upto(n) \in Seq(Nat) /\ Len(Upto(n)) = n /\ \A i \in 1..n : Upto(n)[i] = i
BY DEF Upto

\* After n codes and one page there are j, and these are all unless the page is full
Continued(n, m, k, slice) ==
    /\ slice = << >> => m <= n \/ k = n
    /\ \E j \in Nat : Upto(n) \o slice = Upto(j) /\ n <= j /\ (j < m => j = k)

\* One page after n codes: the next ones, up to the last, follow them
LEMMA NextCodes ==
    ASSUME NEW n \in Nat, NEW m \in Nat, NEW k \in Nat, n <= k,
           NEW slice, slice = SubSeq(Upto(m), n + 1, IF k > m THEN m ELSE k)
    PROVE  Continued(n, m, k, slice)
<1>1. PICK hi \in Nat : hi = (IF k > m THEN m ELSE k) /\ hi <= m /\ hi <= k
  OBVIOUS
<1>2. PICK all \in Seq(Nat) : all = Upto(m) /\ Len(all) = m /\ \A i \in 1..m : all[i] = i
  BY UptoIs
<1>3. PICK old \in Seq(Nat) : old = Upto(n) /\ Len(old) = n /\ \A i \in 1..n : old[i] = i
  BY UptoIs
<1>4. /\ slice \in Seq(Nat) /\ Len(slice) = IF n + 1 <= hi THEN hi - (n + 1) + 1 ELSE 0
      /\ \A i \in 1..(hi - (n + 1) + 1) : slice[i] = all[(n + 1) + i - 1]
  <2>1. PICK lo \in Int : lo = n + 1
    OBVIOUS
  <2>2. slice = SubSeq(all, lo, hi)
    BY <1>1, <1>2, <2>1
  <2>3. hi \in Int /\ \A i \in lo..hi : all[i] \in Nat
    BY <1>1, <1>2, <2>1
  <2>4. /\ SubSeq(all, lo, hi) \in Seq(Nat)
        /\ Len(SubSeq(all, lo, hi)) = IF lo <= hi THEN hi - lo + 1 ELSE 0
        /\ \A i \in 1..(hi - lo + 1) : SubSeq(all, lo, hi)[i] = all[lo + i - 1]
    BY <2>3, SubSeqProperties
  <2> QED
    BY <2>1, <2>2, <2>4
<1>5. PICK whole : whole = old \o slice
  OBVIOUS
<1>6. /\ whole \in Seq(Nat) /\ Len(whole) = n + Len(slice)
      /\ \A i \in 1..(n + Len(slice)) : whole[i] = IF i <= n THEN old[i] ELSE slice[i - n]
  <2>1. /\ old \o slice \in Seq(Nat) /\ Len(old \o slice) = Len(old) + Len(slice)
        /\ \A i \in 1..Len(old) + Len(slice) :
             (old \o slice)[i] = IF i <= Len(old) THEN old[i] ELSE slice[i - Len(old)]
    BY <1>4, ConcatProperties
  <2> QED
    BY <1>3, <1>5, <2>1
<1>7. CASE hi <= n
  <2>1. Len(slice) = 0
    BY <1>1, <1>4, <1>7
  <2>2. slice = << >>
    BY <1>4, <2>1, EmptySeq
  <2>3. whole = old
    BY <1>5, <2>2, ConcatEmptySeq
  <2>4. m <= n \/ k = n
    BY <1>1, <1>7
  <2>5. Upto(n) \o slice = Upto(n) /\ n <= n /\ (n < m => n = k)
    BY <1>3, <1>5, <2>3, <2>4
  <2> QED
    BY <2>4, <2>5 DEF Continued
<1>8. CASE n < hi
  <2>1. Len(slice) = hi - n /\ Len(whole) = hi
    BY <1>1, <1>4, <1>6, <1>8
  <2>2. \A i \in 1..(hi - n) : slice[i] = n + i
    <3> SUFFICES ASSUME NEW i \in 1..(hi - n)
                 PROVE  slice[i] = n + i
      OBVIOUS
    <3>1. i \in 1..(hi - (n + 1) + 1) /\ (n + 1) + i - 1 = n + i /\ n + i \in 1..m
      BY <1>1
    <3> QED
      BY <1>2, <1>4, <3>1
  <2>3. \A i \in 1..hi : whole[i] = i
    <3> SUFFICES ASSUME NEW i \in 1..hi
                 PROVE  whole[i] = i
      OBVIOUS
    <3>1. i \in 1..(n + Len(slice))
      BY <1>1, <2>1
    <3>2. CASE i <= n
      BY <1>3, <1>6, <3>1, <3>2
    <3>3. CASE i > n
      <4>1. PICK j \in 1..(hi - n) : j = i - n /\ n + j = i
        BY <1>1, <3>3
      <4>2. slice[j] = i
        BY <2>2, <4>1
      <4>3. whole[i] = slice[j]
        BY <1>6, <3>1, <3>3, <4>1
      <4> QED
        BY <4>2, <4>3
    <3> QED
      BY <3>2, <3>3
  <2>4. PICK new \in Seq(Nat) : new = Upto(hi) /\ Len(new) = hi /\ \A i \in 1..hi : new[i] = i
    BY <1>1, UptoIs
  <2>5. whole = new
    BY <1>6, <2>1, <2>3, <2>4, SeqEqual
  <2>6. slice # << >>
    <3>1. Len(slice) # 0
      BY <1>1, <1>8, <2>1
    <3> QED
      BY <3>1, EmptySeq
  <2>7. n <= hi /\ (hi < m => hi = k)
    BY <1>1, <1>8
  <2> QED
    BY <1>1, <1>3, <1>5, <2>4, <2>5, <2>6, <2>7 DEF Continued
<1> QED
  BY <1>1, <1>7, <1>8

\* The file of such an export has no code twice
LEMMA UptoInjective ==
    ASSUME NEW n \in Nat
    PROVE  IsInjective(Upto(n)) /\ {Upto(n)[i] : i \in DOMAIN Upto(n)} = 1..n
BY DEF Upto, IsInjective

\* There are n numbers up to n
LEMMA UptoCard ==
    ASSUME NEW n \in Nat
    PROVE  IsFiniteSet(1..n) /\ Cardinality(1..n) = n
<1>1. n \in Int /\ 1 \in Int
  OBVIOUS
<1>2. IsFiniteSet(1..n) /\ Cardinality(1..n) = IF 1 > n THEN 0 ELSE n - 1 + 1
  BY ONLY <1>1, FS_Interval
<1> QED
  BY <1>2

\* Without a filter the n-th listed code is the n-th
LEMMA AllListed ==
    ASSUME filter = Everything, Len(codes) \in Nat
    PROVE  Listed = Upto(Len(codes))
<1>1. PICK m \in Nat : m = Len(codes)
  OBVIOUS
<1>2. Matching = 1..m
  BY <1>1 DEF Matching
<1>3. ASSUME NEW i \in 1..m
      PROVE  Cardinality(MatchingTo(i)) = i
  <2>1. MatchingTo(i) = 1..i
    BY <1>2 DEF MatchingTo
  <2>2. i \in Nat /\ Cardinality(1..i) = i
    BY UptoCard
  <2> QED
    BY <2>1, <2>2
<1>4. Cardinality(Matching) = m
  BY <1>2, UptoCard
<1>5. ASSUME NEW n \in 1..m
      PROVE  (CHOOSE i \in Matching : Cardinality(MatchingTo(i)) = n) = n
  BY <1>2, <1>3
<1> QED
  BY <1>1, <1>4, <1>5 DEF Listed, Upto

LEMMA ExportStarts == ExportInit => ExportInv
<1> SUFFICES ASSUME ExportInit
             PROVE  ExportInv
  OBVIOUS
<1>1. PICK n \in 0..MaxCodes : codes = [i \in 1..n |-> Unused]
  BY DEF ExportInit
<1>2. codes \in Seq({Unused, Used}) /\ Len(codes) \in Nat
  BY <1>1
<1>3. file = Upto(0)
  BY DEF ExportInit, Upto
<1>4. /\ filter \in {Unused, Used, Everything} /\ next \in Nat \ {0} /\ before \in Nat
      /\ before <= Len(codes) /\ exporting = FALSE /\ before = 0
  BY <1>2 DEF ExportInit
<1> QED
  BY <1>2, <1>3, <1>4 DEF ExportInv

LEMMA ExportGoesOn == ExportInv /\ [ExportNext]_exportVars => ExportInv'
<1> SUFFICES ASSUME ExportInv, [ExportNext]_exportVars
             PROVE  ExportInv'
  OBVIOUS
<1>1. CASE UNCHANGED exportVars
  BY <1>1 DEF exportVars, ExportInv
<1>2. CASE Generate
  <2>1. /\ codes' = Append(codes, Unused)
        /\ UNCHANGED <<filter, file, next, total, before, exporting>>
    BY <1>2 DEF Generate
  <2>2. codes' \in Seq({Unused, Used}) /\ Len(codes') = Len(codes) + 1 /\ Len(codes) \in Nat
    BY <2>1 DEF ExportInv
  <2> QED
    BY <2>1, <2>2 DEF ExportInv
<1>3. ASSUME NEW i \in 1..Len(codes), Redeem(i)
      PROVE  ExportInv'
  <2>1. /\ codes' = [codes EXCEPT ![i] = Used]
        /\ UNCHANGED <<filter, file, next, total, before, exporting>>
    BY <1>3 DEF Redeem
  <2>2. codes' \in Seq({Unused, Used}) /\ Len(codes') = Len(codes)
    BY <2>1, ExceptSeq DEF ExportInv
  <2> QED
    BY <2>1, <2>2 DEF ExportInv
<1>4. ASSUME NEW f \in {Unused, Used, Everything}, StartExport(f)
      PROVE  ExportInv'
  <2>1. file' = Upto(0) /\ 0 = (1 - 1) * PageSize
    BY <1>4, ExportAssumption DEF StartExport, Upto
  <2>2. Len(codes) \in Nat
    BY DEF ExportInv
  <2> QED
    BY <1>4, <2>1, <2>2 DEF StartExport, ExportInv
<1>5. CASE FailExport
  <2>1. file' = Upto(0)
    BY <1>5 DEF FailExport, Upto
  <2> QED
    BY <1>5, <2>1 DEF FailExport, ExportInv
<1>6. CASE FetchPage
  <2>1. PICK slice : slice = PageOf(next)
    OBVIOUS
  <2>2. /\ exporting /\ file' = file \o slice /\ total' = Len(Listed) /\ next' = next + 1
        /\ exporting' = (slice # << >> /\ Len(file') < total')
        /\ UNCHANGED <<codes, filter, before>>
    BY <1>6, <2>1 DEF FetchPage
  <2>3. next' \in Nat \ {0} /\ exporting' \in BOOLEAN
    BY <2>2 DEF ExportInv
  <2>4. ASSUME filter = Everything
        PROVE  \E n \in Nat : /\ file' = Upto(n)
                              /\ exporting' => n = (next' - 1) * PageSize
                              /\ (~exporting' /\ n # 0) => before' <= n
    <3>1. PICK m \in Nat : m = Len(codes) /\ before <= m
      BY DEF ExportInv
    <3>2. Listed = Upto(m)
      BY <2>4, <3>1, AllListed
    <3>3. PICK n \in Nat : file = Upto(n) /\ n = (next - 1) * PageSize
      BY <2>2, <2>4 DEF ExportInv
    <3>4. PICK k \in Nat : k = next * PageSize /\ k - PageSize = n
      BY <3>3, ExportAssumption DEF ExportInv
    <3>5. n <= k /\ n # k /\ k = (next' - 1) * PageSize /\ k - PageSize + 1 = n + 1
      BY <2>2, <3>4, ExportAssumption DEF ExportInv
    <3>6. Len(Upto(m)) = m
      BY UptoIs
    <3>7. slice = SubSeq(Upto(m), n + 1, IF k > m THEN m ELSE k)
      BY <2>1, <3>2, <3>4, <3>5, <3>6 DEF PageOf, Slice
    <3>8. Continued(n, m, k, slice)
      BY <3>1, <3>3, <3>4, <3>5, <3>7, NextCodes
    <3>9. PICK j \in Nat : Upto(n) \o slice = Upto(j) /\ n <= j /\ (j < m => j = k)
      BY <3>8 DEF Continued
    <3>10. file' = Upto(j) /\ Len(file') = j /\ total' = m
      BY <2>2, <3>2, <3>3, <3>6, <3>9, UptoIs
    <3>11. exporting' => j = (next' - 1) * PageSize
      BY <2>2, <3>5, <3>9, <3>10
    <3>12. ~exporting' => before' <= j
      <4>1. before' = before /\ before \in Nat
        BY <2>2 DEF ExportInv
      <4>2. slice = << >> => m <= n
        BY <3>5, <3>8 DEF Continued
      <4>3. ~exporting' => slice = << >> \/ ~(Len(file') < total')
        BY <2>2
      <4>4. ~exporting' => slice = << >> \/ ~(j < m)
        BY <3>10, <4>3
      <4>5. ~exporting' => m <= j
        BY <3>1, <3>3, <3>9, <4>2, <4>4
      <4> QED
        BY <3>1, <4>1, <4>5
    <3> QED
      BY <3>10, <3>11, <3>12
  <2> QED
    BY <2>2, <2>3, <2>4 DEF ExportInv
<1> QED
  BY <1>1, <1>2, <1>3, <1>4, <1>5, <1>6 DEF ExportNext

\* A file without a status filter has every code there was at its beginning, and
\* none twice, whatever is generated and redeemed between the pages
\* (CampaignCodesTab.handleExportCsv, SP_CAMPAIGN_CODE_LIST).
THEOREM ExportCorrect == ExportSpec => []ExportIsComplete
<1>1. ExportInv => ExportIsComplete
  <2> SUFFICES ASSUME ExportInv, filter = Everything
               PROVE  /\ IsInjective(file)
                      /\ (~exporting /\ file # << >>) =>
                            1..before \subseteq {file[i] : i \in DOMAIN file}
    BY DEF ExportIsComplete
  <2>1. PICK n \in Nat : file = Upto(n) /\ ((~exporting /\ n # 0) => before <= n)
    BY DEF ExportInv
  <2>2. n = 0 => file = << >>
    BY <2>1 DEF Upto
  <2>3. IsInjective(file) /\ {file[i] : i \in DOMAIN file} = 1..n
    BY <2>1, UptoInjective
  <2>4. ~exporting /\ file # << >> => 1..before \subseteq 1..n
    BY <2>1, <2>2 DEF ExportInv
  <2> QED
    BY <2>3, <2>4
<1>2. ExportSpec => []ExportInv
  BY ExportStarts, ExportGoesOn, PTL DEF ExportSpec
<1> QED
  BY <1>1, <1>2, PTL
-----------------------------------------------------------------------------
(* CodeExport: the types                                                   *)

\* The file has room for every page read so far, and each of them was full
ExportTyped ==
    /\ Len(codes) <= MaxCodes /\ file \in Seq(1..MaxCodes)
    /\ exporting => Len(file) = (next - 1) * PageSize /\ Len(file) <= MaxCodes
ExportTypeInv == ExportInv /\ ExportTyped

\* Ids take the places of a list without a gap: the place of an id in the list is
\* the number of those up to it
LEMMA ListedTyped ==
    ASSUME Len(codes) \in Nat
    PROVE  Listed \in Seq(1..Len(codes)) /\ Len(Listed) <= Len(codes)
<1>1. PICK m \in Nat : m = Len(codes)
  OBVIOUS
<1>2. Matching \subseteq 1..m
  BY <1>1 DEF Matching
<1>3. PICK c \in Nat : c = Cardinality(Matching) /\ c <= m /\ IsFiniteSet(Matching)
  <2>1. IsFiniteSet(1..m) /\ Cardinality(1..m) = m
    BY UptoCard
  <2>2. IsFiniteSet(Matching) /\ Cardinality(Matching) <= Cardinality(1..m)
    BY <1>2, <2>1, FS_Subset
  <2> QED
    BY <2>1, <2>2, FS_CardinalityType
<1>4. ASSUME NEW i \in Matching
      PROVE  IsFiniteSet(MatchingTo(i)) /\ Cardinality(MatchingTo(i)) \in 1..c
  <2>1. MatchingTo(i) \subseteq Matching
    BY DEF MatchingTo
  <2>2. IsFiniteSet(MatchingTo(i)) /\ Cardinality(MatchingTo(i)) <= c
    BY <1>3, <2>1, FS_Subset
  <2>3. i \in MatchingTo(i)
    BY <1>2 DEF MatchingTo
  <2>4. Cardinality(MatchingTo(i)) \in Nat /\ Cardinality(MatchingTo(i)) # 0
    BY <2>2, <2>3, FS_CardinalityType, FS_EmptySet
  <2> QED
    BY <1>3, <2>2, <2>4
<1>5. ASSUME NEW i \in Matching, NEW j \in Matching, i < j
      PROVE  Cardinality(MatchingTo(i)) # Cardinality(MatchingTo(j))
  <2>1. MatchingTo(i) \subseteq MatchingTo(j)
    <3> SUFFICES ASSUME NEW k \in MatchingTo(i)
                 PROVE  k \in MatchingTo(j)
      OBVIOUS
    <3>1. k \in Matching /\ k <= i
      BY DEF MatchingTo
    <3>2. k \in Nat /\ i \in Nat /\ j \in Nat
      BY <1>2, <3>1
    <3>3. k <= j
      BY <1>5, <3>1, <3>2
    <3> QED
      BY <3>1, <3>3 DEF MatchingTo
  <2>2. j \in MatchingTo(j) /\ j \notin MatchingTo(i)
    BY <1>2, <1>5 DEF MatchingTo
  <2> QED
    BY <1>4, <2>1, <2>2, FS_Subset
<1> DEFINE place == [i \in Matching |-> Cardinality(MatchingTo(i))]
<1>6. place \in Injection(Matching, 1..c)
  <2>1. place \in [Matching -> 1..c]
    BY <1>4
  <2>2. ASSUME NEW i \in Matching, NEW j \in Matching, place[i] = place[j]
        PROVE  i = j
    <3>1. i \in Nat /\ j \in Nat
      BY <1>2
    <3>2. ~(i < j) /\ ~(j < i)
      BY <1>5, <2>2
    <3> QED
      BY <3>1, <3>2
  <2> HIDE DEF place
  <2> QED
    BY <2>1, <2>2 DEF Injection, IsInjective
<1>7. place \in Surjection(Matching, 1..c)
  <2> HIDE DEF place
  <2>1. IsFiniteSet(1..c) /\ Cardinality(1..c) = c
    BY UptoCard
  <2> QED
    BY <1>3, <1>6, <2>1, FS_Injection
<1>8. ASSUME NEW n \in 1..c
      PROVE  \E i \in Matching : Cardinality(MatchingTo(i)) = n
  <2>1. \E i \in Matching : place[i] = n
    <3> HIDE DEF place
    <3> QED
      BY <1>7 DEF Surjection
  <2> QED
    BY <2>1
<1>9. ASSUME NEW n \in 1..c
      PROVE  (CHOOSE i \in Matching : Cardinality(MatchingTo(i)) = n) \in 1..m
  BY <1>2, <1>8
<1>10. Listed \in [1..c -> 1..m]
  BY <1>3, <1>9 DEF Listed
<1>11. Listed \in Seq(1..m)
  BY <1>10, SeqDef
<1>12. Len(Listed) = c
  BY <1>10, <1>11, LenProperties
<1> QED
  BY <1>1, <1>3, <1>11, <1>12

\* A page that is not full is the end of the list
LEMMA SliceTyped ==
    ASSUME NEW S, NEW s \in Seq(S), NEW k \in Nat, NEW n \in Nat,
           k = next * PageSize, n = k - PageSize,
           NEW slice, slice = Slice(s, next)
    PROVE  /\ slice \in Seq(S)
           /\ k <= Len(s) => Len(slice) = PageSize
           /\ k > Len(s) => slice = << >> \/ n + Len(slice) = Len(s)
<1>1. PICK l \in Nat : l = Len(s)
  OBVIOUS
<1>2. PICK j \in Nat : j = IF k > l THEN l ELSE k
  OBVIOUS
<1>3. PageSize \in Nat /\ PageSize >= 1 /\ k - PageSize + 1 = n + 1 /\ k = n + PageSize
  BY ExportAssumption
<1>4. slice = SubSeq(s, n + 1, j)
  BY <1>1, <1>2, <1>3 DEF Slice
<1>5. n + 1 \in Int /\ j \in Int /\ j <= l
  BY <1>2
<1>6. \A i \in n + 1 .. j : i \in 1..l
  BY <1>5
<1>7. \A i \in n + 1 .. j : s[i] \in S
  BY <1>1, <1>6
<1>8. slice \in Seq(S) /\ Len(slice) = IF n + 1 <= j THEN j - (n + 1) + 1 ELSE 0
  BY <1>4, <1>5, <1>7, SubSeqProperties
<1>9. Len(slice) = 0 => slice = << >>
  BY <1>8
<1>10. CASE k <= l
  BY <1>1, <1>2, <1>3, <1>8, <1>10
<1>11. CASE k > l
  <2>1. CASE n + 1 <= j
    BY <1>1, <1>2, <1>8, <1>11, <2>1
  <2>2. CASE ~(n + 1 <= j)
    BY <1>1, <1>8, <1>9, <1>11, <2>2
  <2> QED
    BY <2>1, <2>2
<1> QED
  BY <1>1, <1>10, <1>11

LEMMA ExportTypesStart == ExportInit => ExportTyped
<1> SUFFICES ASSUME ExportInit
             PROVE  ExportTyped
  OBVIOUS
<1>1. PICK n \in 0..MaxCodes : codes = [i \in 1..n |-> Unused]
  BY DEF ExportInit
<1>2. Len(codes) = n /\ n <= MaxCodes
  BY <1>1, ExportAssumption
<1>3. file \in Seq(1..MaxCodes) /\ ~exporting
  BY DEF ExportInit
<1> QED
  BY <1>2, <1>3 DEF ExportTyped

LEMMA ExportTypesStay == ExportTypeInv /\ [ExportNext]_exportVars => ExportTyped'
<1> SUFFICES ASSUME ExportTypeInv, [ExportNext]_exportVars
             PROVE  ExportTyped'
  OBVIOUS
<1> USE DEF ExportTypeInv
<1>1. CASE UNCHANGED exportVars
  BY <1>1 DEF exportVars, ExportTyped
<1>2. CASE Generate
  <2>1. /\ Len(codes) < MaxCodes /\ codes' = Append(codes, Unused)
        /\ UNCHANGED <<filter, file, next, total, before, exporting>>
    BY <1>2 DEF Generate
  <2>2. Len(codes') = Len(codes) + 1 /\ Len(codes) \in Nat
    BY <2>1 DEF ExportInv
  <2>3. Len(codes') <= MaxCodes
    BY <2>1, <2>2, ExportAssumption
  <2> QED
    BY <2>1, <2>3 DEF ExportTyped
<1>3. ASSUME NEW i \in 1..Len(codes), Redeem(i)
      PROVE  ExportTyped'
  <2>1. /\ codes' = [codes EXCEPT ![i] = Used]
        /\ UNCHANGED <<filter, file, next, total, before, exporting>>
    BY <1>3 DEF Redeem
  <2>2. Len(codes') = Len(codes)
    BY <2>1, ExceptSeq DEF ExportInv
  <2> QED
    BY <2>1, <2>2 DEF ExportTyped
<1>4. ASSUME NEW f \in {Unused, Used, Everything}, StartExport(f)
      PROVE  ExportTyped'
  <2>1. file' = << >> /\ next' = 1 /\ UNCHANGED codes
    BY <1>4 DEF StartExport
  <2>2. Len(file') = (next' - 1) * PageSize /\ Len(file') <= MaxCodes
    BY <2>1, ExportAssumption
  <2>3. file' \in Seq(1..MaxCodes)
    BY <2>1
  <2> QED
    BY <2>1, <2>2, <2>3 DEF ExportTyped
<1>5. CASE FailExport
  <2>1. file' \in Seq(1..MaxCodes) /\ exporting' = FALSE /\ UNCHANGED codes
    BY <1>5 DEF FailExport
  <2> QED
    BY <2>1 DEF ExportTyped
<1>6. CASE FetchPage
  <2>1. PICK slice : slice = PageOf(next)
    OBVIOUS
  <2>2. PICK list : list = Listed
    OBVIOUS
  <2>3. /\ exporting /\ file' = file \o slice /\ total' = Len(list) /\ next' = next + 1
        /\ exporting' = (slice # << >> /\ Len(file') < total')
        /\ UNCHANGED <<codes, filter, before>>
    BY <1>6, <2>1, <2>2 DEF FetchPage
  <2>4. PICK m \in Nat : m = Len(codes) /\ m <= MaxCodes
    BY DEF ExportInv, ExportTyped
  <2>5. list \in Seq(1..m) /\ Len(list) <= m
    BY <2>2, <2>4, ListedTyped
  <2>6. 1..m \subseteq 1..MaxCodes
    BY <2>4, ExportAssumption
  <2>7. list \in Seq(1..MaxCodes) /\ Len(list) \in Nat
    BY <2>5, <2>6, ExportAssumption
  <2>8. next \in Nat \ {0} /\ PageSize \in Nat \ {0}
    BY ExportAssumption DEF ExportInv
  <2>9. PICK k \in Nat : k = next * PageSize /\ (next - 1) * PageSize = k - PageSize
                         /\ k - PageSize \in Nat
    BY <2>8
  <2>10. PICK n \in Nat : n = Len(file) /\ n = k - PageSize
    BY <2>3, <2>9 DEF ExportTyped
  <2>11. slice = Slice(list, next)
    BY <2>1, <2>2 DEF PageOf
  <2>12. /\ slice \in Seq(1..MaxCodes)
         /\ k <= Len(list) => Len(slice) = PageSize
         /\ k > Len(list) => slice = << >> \/ n + Len(slice) = Len(list)
    BY <2>7, <2>9, <2>10, <2>11, SliceTyped
  <2>13. file' \in Seq(1..MaxCodes) /\ Len(file') = n + Len(slice)
    BY <2>3, <2>10, <2>12, ConcatProperties DEF ExportTyped
  <2>14. ASSUME exporting'
         PROVE  Len(file') = (next' - 1) * PageSize /\ Len(file') <= MaxCodes
    <3>1. slice # << >> /\ n + Len(slice) < Len(list)
      BY <2>3, <2>13, <2>14
    <3>2. ~(k > Len(list))
      BY <2>7, <2>12, <3>1
    <3>3. k <= Len(list)
      BY <2>7, <3>2
    <3>4. Len(file') = k /\ k <= MaxCodes
      <4>1. Len(file') = n + PageSize
        BY <2>12, <2>13, <3>3
      <4>2. n + PageSize = k
        BY <2>8, <2>10
      <4>3. k <= m
        BY <2>5, <2>7, <3>3
      <4> QED
        BY <2>4, <4>1, <4>2, <4>3, ExportAssumption
    <3>5. next' - 1 = next
      BY <2>3, <2>8
    <3> QED
      BY <2>9, <3>4, <3>5
  <2> QED
    BY <2>3, <2>4, <2>13, <2>14 DEF ExportTyped
<1> QED
  BY <1>1, <1>2, <1>3, <1>4, <1>5, <1>6 DEF ExportNext

\* The variables of an export keep their types, and its loop comes to an end: the
\* page it asks for next begins within the codes there can be, although the list
\* grows and, under a filter, shrinks between two pages (the loop of
\* handleExportCsv, which stops at an empty page or at total_count).
THEOREM ExportTypes == ExportSpec => []ExportTypeOK
<1>1. ExportTypeInv => ExportTypeOK
  <2> SUFFICES ASSUME ExportTypeInv
               PROVE  exporting => (next - 1) * PageSize <= MaxCodes
    BY DEF ExportTypeInv, ExportInv, ExportTyped, ExportTypeOK
  <2> QED
    BY DEF ExportTypeInv, ExportTyped
<1>2. ExportInit => ExportTypeInv
  BY ExportStarts, ExportTypesStart DEF ExportTypeInv
<1>3. ExportTypeInv /\ [ExportNext]_exportVars => ExportTypeInv'
  BY ExportGoesOn, ExportTypesStay DEF ExportTypeInv
<1> QED
  BY <1>1, <1>2, <1>3, PTL DEF ExportSpec

-----------------------------------------------------------------------------
(* CampaignScreen: loads keep their order, decisions are on what is shown  *)

Requests ==
    [kind : {"load"} \cup Locked \cup Unlocked, id : Nat, edit : Nat, on : Contents \cup {NULL},
     to : Contents \cup CampaignStatuses \cup {NULL}, seen : SUBSET Contents,
     stage : {"sent", "done", "ROW", "CONFLICT", "GONE", "ERROR"}, answer : Rows \cup {NULL}]

\* An edit_count somebody holds is one the row has had, and as long as it is the
\* row's the content held with it is too
Told(edit, content) ==
    edit \in Nat /\ edit <= row.edit /\ (edit = row.edit => content = row.content)
Heard(r) == r \in Rows /\ r.rev <= row.rev /\ Told(r.edit, r.content)

\* The newest load brings nothing older than what was taken before
RequestSound(q) ==
    /\ q \in Requests
    /\ q.kind = "save" => q.to \in Contents
    /\ q.kind = "status" => q.to \in CampaignStatuses
    /\ q.kind = "load" => q.id <= latest
    /\ q.stage = "ROW" => Heard(q.answer)
    /\ (q.kind = "load" /\ q.stage = "ROW" /\ q.id = latest) => q.answer.rev >= applied
    /\ (q.kind \in Locked /\ q.stage = "sent") => Told(q.edit, q.on)

PageTyped == /\ me \in {"MANAGER", "OPERATOR"} /\ gone \in BOOLEAN /\ loading \in BOOLEAN
             /\ latest \in 1..MaxLoads
FormTyped == form = NULL \/ form \in [content : Contents, seen : SUBSET Contents]
RowTyped == row \in Rows /\ row.edit <= row.rev
LoadsNumbered ==
    \A p, q \in requests : (p.kind = "load" /\ q.kind = "load" /\ p.id = q.id) => p = q
Spinner == ~gone => (loading <=> \E q \in requests : q.kind = "load" /\ q.id = latest)

ScreenInv ==
    /\ PageTyped /\ FormTyped /\ RowTyped
    /\ applied \in 0..MaxRev /\ applied <= row.rev
    /\ shown = NULL \/ Heard(shown)
    /\ LoadsNumbered /\ Spinner
    /\ \A q \in requests : RequestSound(q)

\* What may happen to the row: nothing, or a change that counts itself
RowGrows == /\ RowTyped' /\ row'.rev >= row.rev /\ row'.edit >= row.edit
            /\ row'.edit = row.edit => row'.content = row.content

LEMMA HeldStays ==
    ASSUME ScreenInv, RowGrows
    PROVE  /\ \A e, c : Told(e, c) => Told(e, c)'
           /\ \A r : Heard(r) => Heard(r)'
<1>1. /\ row.rev \in Nat /\ row.edit \in Nat /\ row'.rev \in Nat /\ row'.edit \in Nat
      /\ row'.rev >= row.rev /\ row'.edit >= row.edit
      /\ row'.edit = row.edit => row'.content = row.content
  BY ScreenAssumption DEF ScreenInv, RowTyped, RowGrows, Rows
<1>2. \A e, c : Told(e, c) => Told(e, c)'
  BY <1>1 DEF Told
<1>3. ASSUME NEW r, Heard(r)
      PROVE  Heard(r)'
  <2>1. r \in Rows /\ r.rev \in Nat /\ r.rev <= row.rev /\ Told(r.edit, r.content)
    BY <1>3, ScreenAssumption DEF Heard, Rows
  <2> QED
    BY <1>1, <1>2, <2>1 DEF Heard
<1> QED
  BY <1>2, <1>3

LEMMA RequestStays ==
    ASSUME ScreenInv, RowGrows, latest' = latest, applied' = applied,
           NEW q, RequestSound(q)
    PROVE  RequestSound(q)'
BY HeldStays DEF RequestSound

\* A write is sent
LEMMA Added ==
    ASSUME ScreenInv, NEW n, RequestSound(n), n.kind # "load", requests' = requests \cup {n},
           UNCHANGED <<row, me, shown, gone, latest, loading, applied>>, FormTyped'
    PROVE  ScreenInv'
<1>1. LoadsNumbered' /\ Spinner'
  BY DEF ScreenInv, LoadsNumbered, Spinner
<1>2. \A q \in requests' : RequestSound(q)'
  BY DEF ScreenInv, RequestSound, Heard, Told
<1> QED
  BY <1>1, <1>2 DEF ScreenInv, PageTyped, RowTyped, Heard, Told

\* The backend gets on with a request
LEMMA Swapped ==
    ASSUME ScreenInv, NEW q \in requests, NEW stage, NEW answer,
           requests' = Swap(q, stage, answer), RowGrows, UNCHANGED page,
           RequestSound([q EXCEPT !.stage = stage, !.answer = answer])'
    PROVE  ScreenInv'
<1> DEFINE r == [q EXCEPT !.stage = stage, !.answer = answer]
<1>1. q \in Requests /\ r.kind = q.kind /\ r.id = q.id
  BY DEF ScreenInv, RequestSound, Requests
<1>2. requests' = (requests \ {q}) \cup {r} /\ RequestSound(r)'
  BY DEF Swap
<1> HIDE DEF r
<1>3. latest' = latest /\ applied' = applied /\ gone' = gone /\ loading' = loading
      /\ me' = me /\ shown' = shown /\ form' = form
  BY DEF page
<1>4. LoadsNumbered' /\ Spinner'
  BY <1>1, <1>2, <1>3 DEF ScreenInv, LoadsNumbered, Spinner
<1>a. \A p \in requests : RequestSound(p)'
  BY <1>3, RequestStays DEF ScreenInv
<1>5. \A p \in requests' : RequestSound(p)'
  BY <1>2, <1>a
<1>6. applied' \in 0..MaxRev /\ applied' <= row'.rev
  <2>1. row.rev \in Nat /\ row'.rev \in Nat /\ row'.rev >= row.rev
    BY ScreenAssumption DEF ScreenInv, RowGrows, RowTyped, Rows
  <2> QED
    BY <1>3, <2>1, ScreenAssumption DEF ScreenInv
<1>7. shown' = NULL \/ Heard(shown)'
  BY <1>3, HeldStays DEF ScreenInv
<1> QED
  BY <1>3, <1>4, <1>5, <1>6, <1>7 DEF ScreenInv, PageTyped, FormTyped, RowGrows

\* The answer of a write is taken
LEMMA Removed ==
    ASSUME ScreenInv, NEW q \in requests, q.kind # "load", requests' = requests \ {q},
           UNCHANGED <<row, me, gone, latest, loading, applied>>, FormTyped',
           shown' = shown \/ Heard(shown)'
    PROVE  ScreenInv'
<1>1. LoadsNumbered' /\ Spinner'
  BY DEF ScreenInv, LoadsNumbered, Spinner
<1>2. \A p \in requests' : RequestSound(p)'
  BY DEF ScreenInv, RequestSound, Heard, Told
<1> QED
  BY <1>1, <1>2 DEF ScreenInv, PageTyped, RowTyped, Heard, Told

\* The page asks for the campaign once more
LEMMA Asked ==
    ASSUME ScreenInv, NEW others \in SUBSET requests, StartLoad(others),
           UNCHANGED <<row, me, shown, gone, form, applied>>
    PROVE  ScreenInv'
<1> PICK n : n = [Request("load") EXCEPT !.id = latest + 1]
  OBVIOUS
<1>0. latest \in Nat /\ MaxLoads \in Nat /\ latest < MaxLoads
  BY ScreenAssumption DEF ScreenInv, PageTyped, StartLoad
<1>a. n = [kind |-> "load", id |-> latest + 1, edit |-> 0, on |-> NULL, to |-> NULL,
           seen |-> {}, stage |-> "sent", answer |-> NULL]
  BY DEF Request
<1>1. n \in Requests /\ n.kind = "load" /\ n.id = latest + 1 /\ n.stage = "sent"
  BY <1>0, <1>a DEF Requests
<1>2. requests' = others \cup {n} /\ latest' = latest + 1 /\ loading' = TRUE
  BY DEF StartLoad
<1>3. "load" \notin Locked
  BY DEF Locked
<1>4. \A p \in requests : p.id \in Nat /\ (p.kind = "load" => p.id <= latest)
  BY DEF ScreenInv, RequestSound, Requests
<1>5. RequestSound(n)'
  BY <1>0, <1>1, <1>2, <1>3 DEF RequestSound
<1>6. ASSUME NEW p \in requests
      PROVE  RequestSound(p)'
  <2>1. RequestSound(p) /\ p.id \in Nat /\ (p.kind = "load" => p.id # latest')
    <3>1. RequestSound(p) /\ p.id \in Nat /\ (p.kind = "load" => p.id <= latest)
      BY <1>4 DEF ScreenInv
    <3> QED
      BY <1>0, <1>2, <3>1
  <2>2. (p.kind = "load" => p.id <= latest')
    BY <1>0, <1>2, <1>4
  <2> QED
    BY <2>1, <2>2 DEF RequestSound, Heard, Told
<1>7. LoadsNumbered'
  <2>1. \A p \in others : p.kind = "load" => p.id # n.id
    BY <1>0, <1>1, <1>4
  <2> QED
    BY <1>2, <2>1 DEF ScreenInv, LoadsNumbered
<1>8. Spinner'
  BY <1>1, <1>2 DEF Spinner
<1>9. PageTyped'
  BY <1>0, <1>2 DEF ScreenInv, PageTyped
<1> QED
  BY <1>2, <1>5, <1>6, <1>7, <1>8, <1>9
  DEF ScreenInv, FormTyped, RowTyped, Heard, Told

LEMMA LoadTaken ==
    ASSUME ScreenInv, NEW q \in requests, TakeLoad(q)
    PROVE  ScreenInv' /\ applied' >= applied
<1>1. /\ q.kind = "load" /\ requests' = requests \ {q} /\ UNCHANGED <<row, me, latest, form>>
      /\ q.stage = "ROW" => Heard(q.answer)
      /\ (q.stage = "ROW" /\ q.id = latest) => q.answer.rev >= applied
  BY DEF TakeLoad, ScreenInv, RequestSound
<1>2. RowTyped' /\ FormTyped' /\ LoadsNumbered'
  BY <1>1 DEF ScreenInv, RowTyped, FormTyped, LoadsNumbered
<1>3. CASE q.id = latest /\ ~gone
  <2>1. /\ loading' = FALSE /\ gone' = (q.stage = "GONE")
        /\ shown' = IF q.stage = "ROW" THEN q.answer ELSE shown
        /\ applied' = IF q.stage = "ROW" THEN q.answer.rev ELSE applied
    BY <1>3 DEF TakeLoad, Current
  <2>2. applied' \in 0..MaxRev /\ applied' <= row'.rev /\ applied' >= applied
    <3>1. applied \in 0..MaxRev /\ applied <= row.rev /\ row' = row
      BY <1>1 DEF ScreenInv
    <3>2. CASE q.stage = "ROW"
      <4>1. /\ q.answer.rev \in 0..MaxRev /\ q.answer.rev <= row.rev
            /\ q.answer.rev >= applied /\ applied' = q.answer.rev
        BY <1>1, <1>3, <2>1, <3>2 DEF Heard, Rows
      <4> QED
        BY <3>1, <4>1
    <3>3. CASE q.stage # "ROW"
      BY <2>1, <3>1, <3>3, ScreenAssumption
    <3> QED
      BY <3>2, <3>3
  <2>3. \A p \in requests' : ~(p.kind = "load" /\ p.id = latest)
    BY <1>1, <1>3 DEF ScreenInv, LoadsNumbered
  <2>4. ASSUME NEW p \in requests'
        PROVE  RequestSound(p)'
    <3>1. RequestSound(p) /\ ~(p.kind = "load" /\ p.id = latest)
      BY <1>1, <2>3 DEF ScreenInv
    <3> QED
      BY <1>1, <3>1 DEF RequestSound, Heard, Told
  <2>5. shown' = NULL \/ Heard(shown)'
    BY <1>1, <2>1 DEF ScreenInv, Heard, Told
  <2> QED
    BY <1>1, <1>2, <2>1, <2>2, <2>3, <2>4, <2>5 DEF ScreenInv, PageTyped, Spinner
<1>4. CASE ~(q.id = latest /\ ~gone)
  <2>1. UNCHANGED <<loading, gone, shown, applied>>
    BY <1>4 DEF TakeLoad, Current
  <2>2. Spinner'
    BY <1>1, <1>4, <2>1 DEF ScreenInv, Spinner
  <2>3. \A p \in requests' : RequestSound(p)'
    BY <1>1, <2>1 DEF ScreenInv, RequestSound, Heard, Told
  <2>4. applied' >= applied
    BY <2>1, ScreenAssumption DEF ScreenInv
  <2> QED
    BY <1>1, <1>2, <2>1, <2>2, <2>3, <2>4 DEF ScreenInv, PageTyped, Heard, Told
<1> QED
  BY <1>3, <1>4

\* A save, a change of status, a decision, a start or an abort, sent with the
\* edit_count and the content of the campaign on the screen
LEMMA Written ==
    ASSUME ScreenInv, NEW kind \in Locked \cup Unlocked, NEW to, NEW noted \in SUBSET Contents,
           SendWrite(kind, to, noted), FormTyped',
           to \in Contents \cup CampaignStatuses \cup {NULL},
           kind = "save" => to \in Contents, kind = "status" => to \in CampaignStatuses
    PROVE  ScreenInv'
<1>1. shown # NULL /\ Heard(shown)
  BY DEF ScreenInv, SendWrite, Mounted
<1>2. shown.content \in Contents /\ Told(shown.edit, shown.content)
  BY <1>1 DEF Heard, Rows
<1>3. PICK n : n = [Request(kind) EXCEPT !.edit = shown.edit, !.on = shown.content,
                                         !.to = to, !.seen = noted]
  OBVIOUS
<1>4. n = [kind |-> kind, id |-> 0, edit |-> shown.edit, on |-> shown.content, to |-> to,
           seen |-> noted, stage |-> "sent", answer |-> NULL]
  BY <1>3 DEF Request
<1>5. n \in Requests
  BY <1>2, <1>4 DEF Requests, Told
<1>6. kind # "load"
  BY DEF Locked, Unlocked
<1>7. RequestSound(n)
  BY <1>2, <1>4, <1>5, <1>6 DEF RequestSound
<1>8. /\ requests' = requests \cup {n}
      /\ UNCHANGED <<row, me, shown, gone, latest, loading, applied>>
  BY <1>3 DEF SendWrite
<1>9. n.kind # "load"
  BY <1>4, <1>6
<1> QED
  BY <1>7, <1>8, <1>9, Added

\* A change counts itself; one of the content is counted by edit_count too
LEMMA Bumped ==
    ASSUME RowTyped, row.rev < MaxRev
    PROVE  /\ Bump(row) \in Rows
           /\ Bump(row).rev = row.rev + 1 /\ Bump(row).edit = row.edit + 1
<1>1. row \in Rows /\ MaxRev \in Nat /\ row.rev < MaxRev /\ row.edit <= row.rev
  BY ScreenAssumption DEF RowTyped
<1>2. row.rev + 1 \in 0..MaxRev /\ row.edit + 1 \in 0..MaxRev
  BY <1>1 DEF Rows
<1>3. [row EXCEPT !.rev = row.rev + 1, !.edit = row.edit + 1] \in Rows
  BY <1>1, <1>2 DEF Rows
<1> QED
  BY <1>1, <1>3 DEF Bump, Rows

LEMMA FieldsSet ==
    ASSUME NEW r \in Rows
    PROVE  /\ \A c \in Contents : LET n == [r EXCEPT !.content = c] IN
                n \in Rows /\ n.rev = r.rev /\ n.edit = r.edit
           /\ \A s \in CampaignStatuses : LET n == [r EXCEPT !.status = s] IN
                n \in Rows /\ n.rev = r.rev /\ n.edit = r.edit
           /\ \A a \in {"APPROVED", "REJECTED"} : LET n == [r EXCEPT !.approval = a] IN
                n \in Rows /\ n.rev = r.rev /\ n.edit = r.edit
           /\ \A c \in Contents, s \in CampaignStatuses :
                LET n == [r EXCEPT !.content = c, !.approval = "PENDING", !.status = s] IN
                n \in Rows /\ n.rev = r.rev /\ n.edit = r.edit
BY DEF Rows

LEMMA BumpGrows ==
    ASSUME RowTyped, row.rev < MaxRev,
           row' \in Rows, row'.rev = Bump(row).rev, row'.edit = Bump(row).edit
    PROVE  RowGrows
<1>1. row.rev \in Nat /\ row.edit \in Nat /\ row.edit <= row.rev
  BY ScreenAssumption DEF RowTyped, Rows
<1>2. row'.rev = row.rev + 1 /\ row'.edit = row.edit + 1
  BY Bumped
<1> QED
  BY <1>1, <1>2 DEF RowGrows, RowTyped

LEMMA GenerationGrows ==
    ASSUME RowTyped, row.rev < MaxRev, NEW g \in Generations,
           row' = [row EXCEPT !.rev = @ + 1, !.generation = g]
    PROVE  RowGrows
<1>1. row \in Rows /\ MaxRev \in Nat /\ row.rev < MaxRev /\ row.edit <= row.rev
  BY ScreenAssumption DEF RowTyped
<1>2. row.rev \in Nat /\ row.edit \in Nat /\ row.rev + 1 \in 0..MaxRev
  BY <1>1 DEF Rows
<1>3. row' \in Rows
  BY <1>1, <1>2 DEF Rows
<1>4. row'.rev = row.rev + 1 /\ row'.edit = row.edit /\ row'.content = row.content
  BY <1>1 DEF Rows
<1> QED
  BY <1>1, <1>2, <1>3, <1>4 DEF RowGrows, RowTyped

\* A write that takes effect; a locked one does on the content it was sent for
LEMMA Executed ==
    ASSUME ScreenInv, NEW q \in requests, Execute(q)
    PROVE  RowGrows
<1>1. /\ q \in Requests /\ q.kind \in Locked \cup Unlocked
      /\ q.kind = "save" => q.to \in Contents
      /\ q.kind = "status" => q.to \in CampaignStatuses
      /\ row' = Effect(q)
  BY DEF Execute, ScreenInv, RequestSound, Requests
<1>2. RowTyped /\ row.rev < MaxRev /\ Bump(row) \in Rows /\ row \in Rows
  BY Bumped DEF ScreenInv, Execute, RowTyped
<1>3. CASE q.kind = "save"
  <2>1. CASE me = "OPERATOR" /\ row.approval # "PENDING"
    <3>1. PICK s \in CampaignStatuses :
            row' = [Bump(row) EXCEPT !.content = q.to, !.approval = "PENDING", !.status = s]
      <4>1. Bump(row).status \in CampaignStatuses
        BY <1>2 DEF Rows
      <4>2. row' = [Bump(row) EXCEPT !.content = q.to, !.approval = "PENDING",
                                     !.status = IF @ = "ACTIVE" THEN "PAUSED" ELSE @]
        BY <1>1, <1>3, <2>1 DEF Effect
      <4>3. CASE Bump(row).status = "ACTIVE"
        BY <4>2, <4>3 DEF CampaignStatuses
      <4>4. CASE Bump(row).status # "ACTIVE"
        BY <4>1, <4>2, <4>4
      <4> QED
        BY <4>3, <4>4
    <3>2. q.to \in Contents /\ Bump(row) \in Rows
      BY <1>1, <1>2, <1>3
    <3>3. row' \in Rows /\ row'.rev = Bump(row).rev /\ row'.edit = Bump(row).edit
      BY <3>1, <3>2, FieldsSet
    <3> QED
      BY <1>2, <3>3, BumpGrows
  <2>2. CASE ~(me = "OPERATOR" /\ row.approval # "PENDING")
    <3>1. row' = [Bump(row) EXCEPT !.content = q.to]
      BY <1>1, <1>3, <2>2 DEF Effect
    <3>2. q.to \in Contents /\ Bump(row) \in Rows
      BY <1>1, <1>2, <1>3
    <3>3. row' \in Rows /\ row'.rev = Bump(row).rev /\ row'.edit = Bump(row).edit
      BY <3>1, <3>2, FieldsSet
    <3> QED
      BY <1>2, <3>3, BumpGrows
  <2> QED
    BY <2>1, <2>2
<1>4. CASE q.kind = "status"
  <2>1. row' = [Bump(row) EXCEPT !.status = q.to]
    BY <1>1, <1>4 DEF Effect
  <2>2. q.to \in CampaignStatuses /\ Bump(row) \in Rows
    BY <1>1, <1>2, <1>4
  <2>3. row' \in Rows /\ row'.rev = Bump(row).rev /\ row'.edit = Bump(row).edit
    BY <2>1, <2>2, FieldsSet
  <2> QED
    BY <1>2, <2>3, BumpGrows
<1>5. CASE q.kind \in {"approve", "reject"}
  <2>1. PICK a \in {"APPROVED", "REJECTED"} :
          row' = [Bump(row) EXCEPT !.approval = a]
    BY <1>1, <1>5 DEF Effect
  <2> QED
    BY <1>2, <2>1, FieldsSet, BumpGrows
<1>6. CASE q.kind \in Unlocked
  <2>1. PICK g \in Generations : row' = [row EXCEPT !.rev = @ + 1, !.generation = g]
    BY <1>1, <1>6 DEF Effect, Unlocked, Generations
  <2> QED
    BY <1>2, <2>1, GenerationGrows
<1> QED
  BY <1>1, <1>3, <1>4, <1>5, <1>6 DEF Locked

LEMMA LockedOnShown ==
    ASSUME ScreenInv, NEW q \in requests, Execute(q), q.kind \in Locked
    PROVE  q.on = row.content
BY DEF Execute, ScreenInv, RequestSound, Told

LEMMA ChangedElsewhere ==
    ASSUME ScreenInv, Elsewhere
    PROVE  RowGrows
<1>1. RowTyped /\ row.rev < MaxRev /\ Bump(row) \in Rows /\ row \in Rows
  BY Bumped DEF ScreenInv, Elsewhere, RowTyped
<1>2. CASE \E c \in Contents : row' = [Bump(row) EXCEPT !.content = c]
  <2>1. PICK c \in Contents : row' = [Bump(row) EXCEPT !.content = c]
    BY <1>2
  <2>2. row' \in Rows /\ row'.rev = Bump(row).rev /\ row'.edit = Bump(row).edit
    BY <1>1, <2>1, FieldsSet
  <2> QED
    BY <1>1, <2>2, BumpGrows
<1>3. CASE \E s \in Targets(row.status) : row' = [Bump(row) EXCEPT !.status = s]
  <2>0. row.status \in CampaignStatuses
    BY <1>1 DEF Rows
  <2>1. Targets(row.status) \subseteq CampaignStatuses
    BY <2>0 DEF Targets, CampaignStatuses
  <2>2. PICK s \in CampaignStatuses : row' = [Bump(row) EXCEPT !.status = s]
    BY <1>3, <2>1
  <2> QED
    BY <1>1, <2>2, FieldsSet, BumpGrows
<1>4. CASE \E g \in {"RUNNING", "DONE", "FAILED"} :
             row' = [row EXCEPT !.rev = @ + 1, !.generation = g]
  <2>1. PICK g \in Generations : row' = [row EXCEPT !.rev = @ + 1, !.generation = g]
    BY <1>4 DEF Generations
  <2> QED
    BY <1>1, <2>1, GenerationGrows
<1> QED
  BY <1>2, <1>3, <1>4 DEF Elsewhere

-----------------------------------------------------------------------------
LEMMA ScreenStarts == ScreenInit => ScreenInv
<1> SUFFICES ASSUME ScreenInit
             PROVE  ScreenInv
  OBVIOUS
<1> PICK n : n = [Request("load") EXCEPT !.id = 1]
  OBVIOUS
<1>0. MaxLoads \in Nat \ {0} /\ MaxRev \in Nat \ {0}
  BY ScreenAssumption
<1>1. n = [kind |-> "load", id |-> 1, edit |-> 0, on |-> NULL, to |-> NULL,
           seen |-> {}, stage |-> "sent", answer |-> NULL]
  BY DEF Request
<1>2. n \in Requests /\ n.kind = "load" /\ n.id = 1 /\ n.stage = "sent"
  BY <1>1 DEF Requests
<1>3. requests = {n} /\ latest = 1 /\ loading = TRUE
  BY DEF ScreenInit
<1>4. RequestSound(n)
  BY <1>2, <1>3 DEF RequestSound, Locked
<1>5. row \in Rows /\ row.edit = 0 /\ row.rev = 0
  <2>1. PICK c \in Contents, fresh \in BOOLEAN :
          row = [rev |-> 0, edit |-> 0, content |-> c,
                 status     |-> IF fresh THEN "PENDING" ELSE "ACTIVE",
                 approval   |-> IF fresh THEN "PENDING" ELSE "APPROVED",
                 generation |-> IF fresh THEN "WAITING" ELSE "RUNNING"]
    BY DEF ScreenInit
  <2>2. CASE fresh = TRUE
    BY <1>0, <2>1, <2>2 DEF Rows, CampaignStatuses, Generations
  <2>3. CASE fresh = FALSE
    BY <1>0, <2>1, <2>3 DEF Rows, CampaignStatuses, Generations
  <2> QED
    BY <2>2, <2>3
<1>6. PageTyped /\ FormTyped /\ RowTyped
  <2>1. me \in {"MANAGER", "OPERATOR"} /\ gone \in BOOLEAN /\ loading \in BOOLEAN
    BY <1>3 DEF ScreenInit
  <2>a. latest \in 1..MaxLoads
    BY <1>0, <1>3
  <2>2. PageTyped
    BY <2>1, <2>a DEF PageTyped
  <2> QED
    BY <1>5, <2>2 DEF ScreenInit, FormTyped, RowTyped
<1>7. applied \in 0..MaxRev /\ applied <= row.rev /\ shown = NULL
  BY <1>0, <1>5 DEF ScreenInit
<1>8. LoadsNumbered /\ Spinner
  BY <1>2, <1>3 DEF LoadsNumbered, Spinner
<1> QED
  BY <1>3, <1>4, <1>6, <1>7, <1>8 DEF ScreenInv

\* The backend gets on with a request of the screen
LEMMA BackendStep ==
    ASSUME ScreenInv, NEW q \in requests, Execute(q) \/ Conflict(q) \/ Read(q) \/ Fail(q)
    PROVE  ScreenInv'
<1>0. q \in Requests /\ RequestSound(q)
  BY DEF ScreenInv, RequestSound
<1>1. ASSUME NEW stage \in {"done", "CONFLICT", "GONE", "ERROR"},
             requests' = Swap(q, stage, NULL), RowGrows, UNCHANGED page
      PROVE  ScreenInv'
  <2>1. RequestSound(q)'
    BY <1>0, <1>1, RequestStays DEF page
  <2>2. PICK r : r = [q EXCEPT !.stage = stage, !.answer = NULL]
    OBVIOUS
  <2>3. /\ r \in Requests /\ r.kind = q.kind /\ r.id = q.id /\ r.to = q.to
        /\ r.stage # "ROW" /\ r.stage # "sent"
    BY <1>0, <2>2 DEF Requests
  <2>4. RequestSound(r)'
    BY <2>1, <2>3 DEF RequestSound
  <2> QED
    BY <1>1, <2>2, <2>4, Swapped
<1>2. CASE Execute(q)
  BY <1>1, <1>2, Executed DEF Execute
<1>3. ASSUME row' = row
      PROVE  RowGrows
  <2>1. row.rev \in Nat /\ row.edit \in Nat
    BY ScreenAssumption DEF ScreenInv, RowTyped, Rows
  <2> QED
    BY <1>3, <2>1 DEF ScreenInv, RowTyped, RowGrows
<1>4. CASE Conflict(q)
  BY <1>1, <1>3, <1>4 DEF Conflict
<1>5. CASE Fail(q)
  BY <1>1, <1>3, <1>5 DEF Fail
<1>6. CASE Read(q)
  <2>1. PICK now : now = row
    OBVIOUS
  <2>2. requests' = Swap(q, "ROW", now) /\ UNCHANGED <<row, page>> /\ RowGrows
    BY <1>3, <1>6, <2>1 DEF Read
  <2>3. PICK r : r = [q EXCEPT !.stage = "ROW", !.answer = now]
    OBVIOUS
  <2>4. now \in Rows /\ now.rev \in Nat /\ now.edit \in Nat /\ now.rev >= applied
    BY <2>1, ScreenAssumption DEF ScreenInv, RowTyped, Rows
  <2>5. /\ r \in Requests /\ r.kind = q.kind /\ r.id = q.id /\ r.to = q.to
        /\ r.stage = "ROW" /\ r.answer = now
    BY <1>0, <2>3, <2>4 DEF Requests
  <2>6. Heard(now)'
    BY <2>1, <2>2, <2>4 DEF Heard, Told
  <2>7. RequestSound(q)' /\ applied' = applied
    BY <1>0, <2>2, RequestStays DEF page
  <2>8. RequestSound(r)'
    BY <2>4, <2>5, <2>6, <2>7 DEF RequestSound
  <2> QED
    BY <2>2, <2>3, <2>8, Swapped
<1> QED
  BY <1>2, <1>4, <1>5, <1>6

\* Something comes back to the screen
LEMMA AnswerStep ==
    ASSUME ScreenInv, NEW q \in requests, TakeRow(q) \/ TakeReload(q) \/ TakeError(q)
    PROVE  ScreenInv' /\ applied' = applied
<1>0. RequestSound(q) /\ FormTyped
  BY DEF ScreenInv
<1>1. CASE TakeRow(q)
  <2>1. /\ q.kind # "load" /\ requests' = requests \ {q} /\ shown' = q.answer
        /\ UNCHANGED <<row, me, gone, latest, loading, applied>> /\ Heard(q.answer)
    BY <1>0, <1>1 DEF TakeRow, RequestSound, Locked
  <2>2. FormTyped'
    BY <1>0, <1>1 DEF TakeRow, FormTyped
  <2>3. Heard(shown)'
    BY <2>1 DEF Heard, Told
  <2> QED
    BY <2>1, <2>2, <2>3, Removed
<1>2. CASE TakeReload(q)
  BY <1>2, Asked DEF TakeReload
<1>3. CASE TakeError(q)
  BY <1>0, <1>3, Removed DEF TakeError, page, FormTyped
<1> QED
  BY <1>1, <1>2, <1>3

\* The administrator at the screen
LEMMA HandStep ==
    ASSUME ScreenInv, \/ StartEdit \/ CancelEdit \/ SubmitUpdate \/ ChangeStatus
                      \/ ClickApprove \/ SubmitReject \/ Issue \/ Abort
                      \/ \E c \in Contents : Type(c)
    PROVE  ScreenInv' /\ applied' = applied
<1>0. FormTyped /\ (shown # NULL => shown \in Rows)
  BY DEF ScreenInv, Heard
<1>1. CASE StartEdit \/ CancelEdit \/ \E c \in Contents : Type(c)
  <2>1. UNCHANGED <<row, me, shown, gone, latest, loading, requests, applied>>
    BY <1>1 DEF StartEdit, CancelEdit, Type
  <2>2. CASE StartEdit
    <3>1. shown.content \in Contents
      BY <1>0, <2>2 DEF StartEdit, Mounted, Rows
    <3>2. FormTyped'
      BY <2>2, <3>1 DEF StartEdit, FormTyped
    <3> QED
      BY <2>1, <3>2 DEF ScreenInv, PageTyped, RowTyped, Heard, Told, LoadsNumbered, Spinner,
                        RequestSound
  <2>3. CASE CancelEdit
    BY <2>1, <2>3 DEF CancelEdit, FormTyped, ScreenInv, PageTyped, RowTyped, Heard, Told,
                      LoadsNumbered, Spinner, RequestSound
  <2>4. CASE \E c \in Contents : Type(c)
    <3>1. FormTyped'
      BY <1>0, <2>4 DEF Type, FormTyped
    <3> QED
      BY <2>1, <3>1 DEF ScreenInv, PageTyped, RowTyped, Heard, Told, LoadsNumbered, Spinner,
                        RequestSound
  <2> QED
    BY <1>1, <2>2, <2>3, <2>4
<1>2. CASE SubmitUpdate
  <2>1. form \in [content : Contents, seen : SUBSET Contents]
    BY <1>0, <1>2 DEF SubmitUpdate, FormTyped
  <2>2. form.content \in Contents /\ form.seen \cup {form.content} \in SUBSET Contents
    BY <2>1
  <2>3. FormTyped'
    BY <1>2, <2>1, <2>2 DEF SubmitUpdate, FormTyped
  <2>4. SendWrite("save", form.content, form.seen \cup {form.content})
    BY <1>2 DEF SubmitUpdate
  <2> QED
    BY <2>2, <2>3, <2>4, Written DEF SendWrite, Locked
<1>3. CASE ChangeStatus
  <2>1. shown.status \in CampaignStatuses /\ UNCHANGED form
    BY <1>0, <1>3 DEF ChangeStatus, Mounted, Rows
  <2>2. Targets(shown.status) \subseteq CampaignStatuses
    BY <2>1 DEF Targets, CampaignStatuses
  <2>3. PICK s \in CampaignStatuses : SendWrite("status", s, {})
    BY <1>3, <2>2 DEF ChangeStatus
  <2>4. FormTyped' /\ applied' = applied
    BY <1>0, <2>1, <2>3 DEF FormTyped, SendWrite
  <2> QED
    BY <2>3, <2>4, Written DEF Locked
<1>4. CASE ClickApprove \/ SubmitReject \/ Issue \/ Abort
  <2>1. PICK kind \in {"approve", "reject", "generate", "abort"} : SendWrite(kind, NULL, {})
    BY <1>4 DEF ClickApprove, SubmitReject, Issue, Abort
  <2>2. UNCHANGED form /\ applied' = applied
    BY <1>4, <2>1 DEF ClickApprove, SubmitReject, Issue, Abort, SendWrite
  <2>3. FormTyped'
    BY <1>0, <2>2 DEF FormTyped
  <2>4. kind \in Locked \cup Unlocked /\ kind # "save" /\ kind # "status"
    BY DEF Locked, Unlocked
  <2> QED
    BY <2>1, <2>2, <2>3, <2>4, Written
<1> QED
  BY <1>1, <1>2, <1>3, <1>4

LEMMA ScreenStep == ScreenInv /\ [ScreenNext]_screenVars => ScreenInv' /\ applied' >= applied
<1> SUFFICES ASSUME ScreenInv, [ScreenNext]_screenVars
             PROVE  ScreenInv' /\ applied' >= applied
  OBVIOUS
<1>0. applied' = applied => applied' >= applied
  BY ScreenAssumption DEF ScreenInv
<1>1. CASE UNCHANGED screenVars
  BY <1>0, <1>1 DEF screenVars, ScreenInv, PageTyped, FormTyped, RowTyped, Heard, Told,
                    LoadsNumbered, Spinner, RequestSound
<1>2. CASE Poll
  BY <1>0, <1>2, Asked DEF Poll
<1>3. CASE \/ StartEdit \/ CancelEdit \/ SubmitUpdate \/ ChangeStatus
           \/ ClickApprove \/ SubmitReject \/ Issue \/ Abort
           \/ \E c \in Contents : Type(c)
  BY <1>0, <1>3, HandStep
<1>4. CASE Elsewhere
  <2>1. UNCHANGED <<requests, page>> /\ RowGrows
    BY <1>4, ChangedElsewhere DEF Elsewhere
  <2>2. \A q \in requests : RequestSound(q)'
    BY <2>1, RequestStays DEF ScreenInv, page
  <2>3. shown' = NULL \/ Heard(shown)'
    <3>1. \A r : Heard(r) => Heard(r)'
      BY <2>1, HeldStays
    <3>2. shown' = shown
      BY <2>1 DEF page
    <3> QED
      BY <3>1, <3>2 DEF ScreenInv, Heard, Told
  <2>4. applied' \in 0..MaxRev /\ applied' <= row'.rev
    <3>1. row.rev \in Nat /\ row'.rev \in Nat /\ row'.rev >= row.rev
      BY <2>1, ScreenAssumption DEF ScreenInv, RowGrows, RowTyped, Rows
    <3> QED
      BY <2>1, <3>1, ScreenAssumption DEF ScreenInv, page
  <2> QED
    BY <1>0, <2>1, <2>2, <2>3, <2>4
    DEF page, ScreenInv, PageTyped, FormTyped, RowGrows, LoadsNumbered, Spinner
<1>5. ASSUME NEW q \in requests,
             \/ Execute(q) \/ Conflict(q) \/ Read(q) \/ Fail(q)
             \/ TakeLoad(q) \/ TakeRow(q) \/ TakeReload(q) \/ TakeError(q)
      PROVE  ScreenInv' /\ applied' >= applied
  <2>1. CASE Execute(q) \/ Conflict(q) \/ Read(q) \/ Fail(q)
    BY <1>0, <2>1, BackendStep DEF Execute, Conflict, Read, Fail, page
  <2>2. CASE TakeLoad(q)
    BY <2>2, LoadTaken
  <2>3. CASE TakeRow(q) \/ TakeReload(q) \/ TakeError(q)
    BY <1>0, <2>3, AnswerStep
  <2> QED
    BY <1>5, <2>1, <2>2, <2>3
<1> QED
  BY <1>1, <1>2, <1>3, <1>4, <1>5 DEF ScreenNext

LEMMA ScreenInvariant == ScreenSpec => []ScreenInv
<1>1. ScreenInv /\ [ScreenNext]_screenVars => ScreenInv'
  BY ScreenStep
<1> QED
  BY <1>1, ScreenStarts, PTL DEF ScreenSpec

(* The screen never goes back behind a load it has taken, whatever the     *)
(* order in which the loads of page, poll and tabs are answered            *)
(* (requestIdRef of CampaignDetailPage).                                   *)
THEOREM ScreenLoadsInOrder == ScreenSpec => LoadsNeverGoBack
<1>1. ScreenInv /\ [ScreenNext]_screenVars => [applied' >= applied]_screenVars
  BY ScreenStep
<1> QED
  BY <1>1, ScreenInvariant, PTL DEF ScreenSpec, LoadsNeverGoBack

(* What is approved or rejected is the content that was on the screen when *)
(* the decision was sent: edit_count is taken from the campaign shown, and *)
(* a row whose content has changed no longer has it.                       *)
THEOREM DecisionsAreInformed == ScreenSpec => DecidedAsShown
<1>1. ScreenInv /\ [ScreenNext]_screenVars =>
        [\A q \in requests : (q.kind \in {"approve", "reject"} /\ Execute(q))
                               => q.on = row.content]_screenVars
  BY LockedOnShown DEF Locked
<1> QED
  BY <1>1, ScreenInvariant, PTL DEF ScreenSpec, DecidedAsShown

(* The variables have their types, and the spinner turns exactly while the *)
(* newest load is under way: the answer of an older one, which the screen  *)
(* ignores, does not stop it.                                              *)
THEOREM ScreenTyped == ScreenSpec => []ScreenTypeOK
<1>1. ScreenInv => ScreenTypeOK
  <2> SUFFICES ASSUME ScreenInv
               PROVE  ScreenTypeOK
    OBVIOUS
  <2>1. \A q \in requests :
          q.stage \in {"sent", "done", "ROW", "CONFLICT", "GONE", "ERROR"}
    BY DEF ScreenInv, RequestSound, Requests
  <2>2. /\ row \in Rows /\ me \in {"MANAGER", "OPERATOR"} /\ gone \in BOOLEAN
        /\ latest \in 1..MaxLoads /\ applied \in 0..MaxRev
        /\ shown \in Rows \cup {NULL}
    BY DEF ScreenInv, PageTyped, RowTyped, Heard
  <2>3. form = NULL \/ form \in [content : Contents, seen : SUBSET Contents]
    BY DEF ScreenInv, FormTyped
  <2>4. ~gone => (loading <=> \E q \in requests : q.kind = "load" /\ Current(q))
    BY DEF ScreenInv, Spinner, Current
  <2> QED
    BY <2>1, <2>2, <2>3, <2>4 DEF ScreenTypeOK
<1> QED
  BY <1>1, ScreenInvariant, PTL

LEMMA FirstExists ==
    ASSUME NEW S, S \subseteq Nat, S # {}
    PROVE  \E i \in S : \A j \in S : i <= j
<1> DEFINE R == OpToRel(<, Nat)
<1>1. PICK i \in S : \A j \in S : ~(<<j, i>> \in R)
  BY NatLessThanWellFounded, WFMin
<1> HIDE DEF R
<1>2. ASSUME NEW j \in S
      PROVE  i <= j
  <2>1. i \in Nat /\ j \in Nat
    OBVIOUS
  <2>2. j < i => <<j, i>> \in R
    BY <2>1 DEF R, OpToRel
  <2> QED
    BY <1>1, <2>1, <2>2
<1> QED
  BY <1>2

-----------------------------------------------------------------------------
(* ConsoleSession: the selection and its role, and the newest token        *)

Subjects == Users \cup Projects \cup {NULL, "boot", "login", "header", "account"}
CallStates == {"sent", "ok", "refused", "expired", "waiting"}
TabCalls == [kind : Kinds, of : Subjects, token : Tokens \cup {NULL}, retried : BOOLEAN,
             live : BOOLEAN, state : CallStates]
Renewals == [sess : Slots, live : BOOLEAN, state : {"sent", "ok", "failed"}, jti : 0..MaxJti]

\* A session somebody logged in to, and a token of one
Owned(s) == s \in Slots /\ session[s].user \in Users
Held(t) == t \in Tokens /\ Owned(t.sess)

\* A login that was answered brings the newest token, and no renewal touches it
CallSound(c) ==
    /\ c \in TabCalls
    /\ c.kind # "login" => Held(c.token)
    /\ c.kind = "login" => c.of \in Users /\ c.state \in {"sent", "ok", "refused"}
    /\ (c.kind = "login" /\ c.state = "ok") =>
         /\ Held(c.token) /\ session[c.token.sess].jti = c.token.jti
         /\ \A r \in refreshes : r.sess # c.token.sess
    /\ c.kind = "role" => c.of \in Projects
RoleCallLive(c) == c.kind = "role" /\ c.live

\* What a renewal of this page brought is the newest unless one that a reload
\* orphaned came after it
RenewalSound(r) ==
    /\ r \in Renewals /\ Owned(r.sess)
    /\ r.state = "ok" => r.jti \in 1..MaxJti
    /\ (r.live /\ r.state = "ok") =>
         \/ r.jti = session[r.sess].jti
         \/ \E q \in refreshes : ~q.live /\ q.state = "ok" /\ q.sess = r.sess

ServerTyped ==
    /\ session \in [Slots -> [user : Users \cup {NULL}, alive : BOOLEAN, jti : 1..MaxJti]]
    /\ expired \subseteq Tokens
AuthSound(a) ==
    /\ a \in [user : Users \cup {NULL}, access : Tokens \cup {NULL},
              refresh : Slots \cup {NULL}, role : Users \cup {NULL}]
    /\ a.access = NULL \/ Held(a.access)
    /\ a.refresh = NULL \/ Owned(a.refresh)
    /\ a.access = NULL => a.refresh = NULL
GlobalSound(g) ==
    /\ g \in [company : Nat \cup {NULL}, project : Projects \cup {NULL},
              role : [of : Users, at : Projects] \cup {NULL}, projects : Seq(Projects)]
    /\ g.role # NULL => g.role.at = g.project
    /\ g.project # NULL => g.project \in Offered(g)

SeenSound == seen = IF Screen = "app" THEN <<global.project, auth.role>> ELSE NULL
LoginsSound(cs, a) ==
    /\ \A c, d \in cs : (c.kind = "login" /\ d.kind = "login") => c = d
    /\ (\E c \in cs : c.kind = "login") => a.refresh = NULL
RoleCallsSound == \A c \in calls : RoleCallLive(c) => Screen = "app" /\ c.of = global.project
OneRenewal == \A q, r \in refreshes : (q.live /\ r.live) => q = r

ServerInv == /\ ServerTyped
             /\ \A c \in calls : CallSound(c)
             /\ \A r \in refreshes : RenewalSound(r)
             /\ OneRenewal
TabInv == /\ AuthSound(auth) /\ GlobalSound(global) /\ booting \in BOOLEAN
          /\ SeenSound /\ LoginsSound(calls, auth) /\ RoleCallsSound
TabSessionInv == ServerInv /\ TabInv

-----------------------------------------------------------------------------
\* A request as it is sent
LEMMA SentTyped ==
    ASSUME NEW kind \in Kinds, NEW of \in Subjects, NEW t \in Tokens \cup {NULL}
    PROVE  [kind |-> kind, of |-> of, token |-> t, retried |-> FALSE, live |-> TRUE,
            state |-> "sent"] \in TabCalls
<1>1. "sent" \in CallStates
  BY DEF CallStates
<1> QED
  BY <1>1 DEF TabCalls

Asking(kind, of, t) == [Call(kind, of) EXCEPT !.token = t]

LEMMA SentFields ==
    ASSUME NEW kind \in Kinds, NEW of \in Subjects, NEW t \in Tokens \cup {NULL},
           NEW n, n = Asking(kind, of, t)
    PROVE  n \in TabCalls /\ n.kind = kind /\ n.of = of /\ n.token = t /\ n.state = "sent"
<1>1. PICK x : x = auth.access
  OBVIOUS
<1>2. n = [[kind |-> kind, of |-> of, token |-> x, retried |-> FALSE, live |-> TRUE,
            state |-> "sent"] EXCEPT !.token = t]
  BY <1>1 DEF Call, Asking
<1>3. n = [kind |-> kind, of |-> of, token |-> t, retried |-> FALSE, live |-> TRUE,
           state |-> "sent"]
  BY <1>2
<1>4. PICK m : m = [kind |-> kind, of |-> of, token |-> t, retried |-> FALSE, live |-> TRUE,
                    state |-> "sent"] /\ m = n
  BY <1>3
<1>5. m \in TabCalls
  BY <1>4, SentTyped
<1>6. m.kind = kind /\ m.of = of /\ m.token = t /\ m.state = "sent"
  BY <1>4
<1> QED
  BY <1>4, <1>5, <1>6

\* A request of the page's own, with the token t
LEMMA AskedSound ==
    ASSUME NEW kind \in Kinds, kind # "login", NEW of \in Subjects,
           NEW t \in Tokens \cup {NULL}, Held(t),
           kind = "role" => of \in Projects,
           NEW n, n = Asking(kind, of, t)
    PROVE  CallSound(n) /\ n.kind = kind /\ n.of = of /\ n.token = t /\ n.state = "sent"
<1>1. n \in TabCalls /\ n.kind = kind /\ n.of = of /\ n.token = t /\ n.state = "sent"
  BY SentFields
<1> QED
  BY <1>1 DEF CallSound

\* What the effect of the header does to the requests
LEMMA Shown ==
    ASSUME NEW a, NEW spinner, NEW g, NEW cs, Show(a, spinner, g, cs)
    PROVE  LET app == ScreenOf(a, spinner) = "app" IN
           /\ auth' = a /\ booting' = spinner
           /\ seen' = IF app THEN <<g.project, a.role>> ELSE NULL
           /\ \/ global' = g
              \/ /\ app /\ g.project # NULL /\ a.role \in Admins
                 /\ global' = [g EXCEPT !.role = [of |-> a.role, at |-> g.project]]
              \/ global' = [g EXCEPT !.role = NULL]
           /\ \A d \in calls' :
                \/ d \in cs /\ (RoleCallLive(d) => seen' = seen)
                \/ \E c \in cs : c.kind = "role" /\ d = [c EXCEPT !.live = FALSE]
                \/ /\ app /\ g.project # NULL
                   /\ d = [Call("role", g.project) EXCEPT !.token = a.access]
<1> DEFINE app == ScreenOf(a, spinner) = "app"
           deps == IF app THEN <<g.project, a.role>> ELSE NULL
           stale == {IF c.kind = "role" THEN [c EXCEPT !.live = FALSE] ELSE c : c \in cs}
           known == g.project = NULL \/ a.role \in Admins
           role == IF g.project = NULL THEN NULL ELSE [of |-> a.role, at |-> g.project]
           sent == [Call("role", g.project) EXCEPT !.token = a.access]
<1>1. /\ auth' = a /\ booting' = spinner /\ seen' = deps
      /\ global' = IF deps # seen /\ app /\ known THEN [g EXCEPT !.role = role] ELSE g
      /\ calls' = IF deps = seen THEN cs
                  ELSE IF app /\ ~known THEN stale \cup {sent} ELSE stale
  BY DEF Show
<1>2. \A d \in stale : \/ d \in cs /\ ~RoleCallLive(d)
                       \/ \E c \in cs : c.kind = "role" /\ d = [c EXCEPT !.live = FALSE]
  BY DEF RoleCallLive
<1> HIDE DEF app, stale, sent
<1>3. \/ global' = g
      \/ /\ app /\ g.project # NULL /\ a.role \in Admins
         /\ global' = [g EXCEPT !.role = [of |-> a.role, at |-> g.project]]
      \/ global' = [g EXCEPT !.role = NULL]
  BY <1>1
<1>4. \A d \in calls' :
        \/ d \in cs /\ (RoleCallLive(d) => seen' = seen)
        \/ \E c \in cs : c.kind = "role" /\ d = [c EXCEPT !.live = FALSE]
        \/ app /\ g.project # NULL /\ d = sent
  BY <1>1, <1>2
<1> QED
  BY <1>1, <1>3, <1>4 DEF app, sent

\* The store, the header's store and the requests keep their invariant whenever
\* the header is shown anew with sound ones
LEMMA ShowSound ==
    ASSUME TabSessionInv, NEW a, NEW spinner \in BOOLEAN, NEW g, NEW cs,
           Show(a, spinner, g, cs), UNCHANGED server, refreshes' \subseteq refreshes,
           AuthSound(a), GlobalSound(g), LoginsSound(cs, a),
           \A c \in cs : CallSound(c),
           \A c \in cs : RoleCallLive(c) => Screen = "app" /\ c.of = global.project,
           \A r \in refreshes' : RenewalSound(r)'
    PROVE  TabSessionInv'
<1> DEFINE app == ScreenOf(a, spinner) = "app"
<1>0. /\ session' = session /\ expired' = expired /\ auth' = a /\ booting' = spinner
      /\ seen' = IF app THEN <<g.project, a.role>> ELSE NULL
  BY Shown DEF server
<1>1. \A s : Owned(s)' <=> Owned(s)
  BY <1>0 DEF Owned
<1>2. \A t : Held(t)' <=> Held(t)
  BY <1>1 DEF Held, Tokens
<1>3. \A c : CallSound(c) => CallSound(c)'
  BY <1>0, <1>2 DEF CallSound, TabCalls, CallStates, Tokens
<1>4. \A d \in calls' :
        \/ d \in cs /\ (RoleCallLive(d) => seen' = seen)
        \/ \E c \in cs : c.kind = "role" /\ d = [c EXCEPT !.live = FALSE]
        \/ /\ app /\ g.project # NULL
           /\ d = [Call("role", g.project) EXCEPT !.token = a.access]
  BY Shown
<1>5. app => a.access # NULL /\ Held(a.access)
  BY DEF ScreenOf, AuthSound
<1>6. g.project # NULL => g.project \in Projects
  BY DEF GlobalSound
<1> HIDE DEF app
<1>7. ASSUME NEW d \in calls'
      PROVE  /\ CallSound(d)
             /\ d.kind = "login" => d \in cs
             /\ RoleCallLive(d) => (d \in cs /\ seen' = seen) \/ (app /\ d.of = g.project)
  <2>1. CASE d \in cs /\ (RoleCallLive(d) => seen' = seen)
    BY <2>1
  <2>2. CASE \E c \in cs : c.kind = "role" /\ d = [c EXCEPT !.live = FALSE]
    <3>1. PICK c \in cs : c.kind = "role" /\ d = [c EXCEPT !.live = FALSE]
      BY <2>2
    <3>2. c \in TabCalls /\ CallSound(c)
      BY DEF CallSound
    <3>3. /\ d \in TabCalls /\ d.kind = "role" /\ d.of = c.of /\ d.token = c.token
          /\ d.live = FALSE
      BY <3>1, <3>2 DEF TabCalls
    <3> QED
      BY <3>1, <3>2, <3>3 DEF CallSound, RoleCallLive
  <2>3. CASE /\ app /\ g.project # NULL
             /\ d = [Call("role", g.project) EXCEPT !.token = a.access]
    <3>1. /\ g.project \in Projects /\ g.project \in Subjects /\ "role" \in Kinds
          /\ a.access \in Tokens \cup {NULL} /\ Held(a.access)
      BY <1>5, <1>6, <2>3 DEF Subjects, Kinds, Held
    <3>2. PICK p \in Projects, t \in Tokens \cup {NULL} :
            p = g.project /\ t = a.access /\ p \in Subjects /\ Held(t)
      BY <3>1
    <3>3. d = Asking("role", p, t)
      BY <2>3, <3>2 DEF Asking
    <3>4. CallSound(d) /\ d.kind = "role" /\ d.of = p
      <4>1. "role" \in Kinds /\ "role" # "login"
        BY DEF Kinds
      <4> QED
        BY <3>2, <3>3, <4>1, AskedSound
    <3> QED
      BY <2>3, <3>2, <3>4
  <2> QED
    BY <1>4, <2>1, <2>2, <2>3
<1>8. AuthSound(auth)'
  BY <1>0, <1>1, <1>2 DEF AuthSound, Tokens
<1>9. GlobalSound(global)'
  <2>1. \A h : GlobalSound(h)' <=> GlobalSound(h)
    BY DEF GlobalSound, Offered
  <2>2. CASE global' = g
    BY <2>1, <2>2 DEF GlobalSound, Offered
  <2>3. ASSUME NEW r, global' = [g EXCEPT !.role = r],
               r \in [of : Users, at : Projects] \cup {NULL}, r # NULL => r.at = g.project
        PROVE  GlobalSound(global)'
    <3>1. /\ global' \in [company : Nat \cup {NULL}, project : Projects \cup {NULL},
                 role : [of : Users, at : Projects] \cup {NULL}, projects : Seq(Projects)]
          /\ global'.role = r /\ global'.project = g.project
          /\ global'.company = g.company /\ global'.projects = g.projects
      BY <2>3 DEF GlobalSound
    <3> QED
      BY <2>3, <3>1 DEF GlobalSound, Offered
  <2>4. CASE global' = [g EXCEPT !.role = NULL]
    BY <2>3, <2>4
  <2>5. CASE /\ g.project # NULL /\ a.role \in Admins
             /\ global' = [g EXCEPT !.role = [of |-> a.role, at |-> g.project]]
    <3>1. PICK r : r = [of |-> a.role, at |-> g.project]
      OBVIOUS
    <3>2. r \in [of : Users, at : Projects] /\ r.at = g.project
      BY <1>6, <2>5, <3>1, ConsoleAssumption
    <3> QED
      BY <2>3, <2>5, <3>1, <3>2
  <2> QED
    BY <2>2, <2>4, <2>5, Shown
<1>10. global'.project = g.project
  BY Shown DEF GlobalSound
<1>11. SeenSound'
  BY <1>0, <1>10 DEF SeenSound, Screen, app
<1>12. LoginsSound(calls, auth)'
  BY <1>0, <1>7 DEF LoginsSound
<1>13. RoleCallsSound'
  <2> SUFFICES ASSUME NEW d \in calls', RoleCallLive(d)
               PROVE  Screen' = "app" /\ d.of = global'.project
    BY DEF RoleCallsSound, RoleCallLive
  <2>1. CASE app /\ d.of = g.project
    BY <1>0, <1>10, <2>1 DEF Screen, app
  <2>2. CASE d \in cs /\ seen' = seen
    <3>1. seen = <<global.project, auth.role>> /\ d.of = global.project
      BY <2>2 DEF TabSessionInv, TabInv, SeenSound
    <3>2. seen # NULL
      BY <3>1, ConsoleAssumption DEF TabSessionInv, TabInv, AuthSound, GlobalSound
    <3>3. app /\ g.project = global.project
      BY <1>0, <2>2, <3>1, <3>2
    <3> QED
      BY <1>0, <1>10, <3>1, <3>3 DEF Screen, app
  <2> QED
    BY <1>7, <2>1, <2>2
<1>14. ServerTyped' /\ OneRenewal'
  BY <1>0 DEF TabSessionInv, ServerInv, ServerTyped, OneRenewal, Tokens
<1>15. \A d \in calls' : CallSound(d)'
  BY <1>3, <1>7
<1> QED
  BY <1>0, <1>8, <1>9, <1>11, <1>12, <1>13, <1>14, <1>15
  DEF TabSessionInv, ServerInv, TabInv

-----------------------------------------------------------------------------
(* The backend and the network                                             *)

\* The tab does nothing, and no session loses its user
LEMMA TabRests ==
    ASSUME TabSessionInv, UNCHANGED client, \A s : Owned(s) => Owned(s)',
           LoginsSound(calls', auth),
           \A d \in calls' : RoleCallLive(d) => \E c \in calls : RoleCallLive(c) /\ c.of = d.of
    PROVE  TabInv'
<1>1. auth' = auth /\ global' = global /\ booting' = booting /\ seen' = seen
  BY DEF client
<1>2. \A t : Held(t) => Held(t)'
  BY DEF Held, Tokens
<1>3. AuthSound(auth)'
  BY <1>1, <1>2 DEF TabSessionInv, TabInv, AuthSound, Tokens
<1>4. GlobalSound(global)'
  BY <1>1 DEF TabSessionInv, TabInv, GlobalSound, Offered
<1>5. SeenSound' /\ LoginsSound(calls, auth)'
  BY <1>1 DEF TabSessionInv, TabInv, SeenSound, Screen, ScreenOf, LoginsSound
<1>6. RoleCallsSound'
  BY <1>1 DEF TabSessionInv, TabInv, RoleCallsSound, RoleCallLive, Screen, ScreenOf
<1> QED
  BY <1>1, <1>3, <1>4, <1>5, <1>6 DEF TabInv, TabSessionInv

\* One request is answered, whatever the answer
LEMMA Replaced ==
    ASSUME TabSessionInv, NEW c \in calls, NEW d, calls' = Replace(c, d),
           d.kind = c.kind, d.of = c.of, RoleCallLive(d) => RoleCallLive(c),
           UNCHANGED client, \A s : Owned(s) => Owned(s)'
    PROVE  TabInv'
<1>1. calls' = (calls \ {c}) \cup {d}
  BY DEF Replace
<1>2. LoginsSound(calls', auth)
  BY <1>1 DEF TabSessionInv, TabInv, LoginsSound
<1>3. \A e \in calls' : RoleCallLive(e) => \E b \in calls : RoleCallLive(b) /\ b.of = e.of
  BY <1>1
<1> QED
  BY <1>2, <1>3, TabRests

SessionRows == [user : Users \cup {NULL}, alive : BOOLEAN, jti : 1..MaxJti]

\* The backend ends a session: it keeps its user and its number
LEMMA SessionEnded ==
    ASSUME session \in [Slots -> SessionRows], NEW s \in Slots,
           session' = [session EXCEPT ![s].alive = FALSE]
    PROVE  /\ session' \in [Slots -> SessionRows]
           /\ \A z \in Slots : session'[z].user = session[z].user /\ session'[z].jti = session[z].jti
<1>1. PICK x : x = [session[s] EXCEPT !.alive = FALSE]
  OBVIOUS
<1>2. session[s] \in SessionRows
  OBVIOUS
<1>3. x \in SessionRows /\ x.user = session[s].user /\ x.jti = session[s].jti
  BY <1>1, <1>2 DEF SessionRows
<1>4. session' = [session EXCEPT ![s] = x]
  BY <1>1
<1>5. session' \in [Slots -> SessionRows] /\ session'[s] = x
  BY <1>3, <1>4
<1>6. \A z \in Slots : z # s => session'[z] = session[z]
  BY <1>4
<1> QED
  BY <1>3, <1>5, <1>6

\* What the backend's rows say of a call and of a renewal
LEMMA CallsRest ==
    ASSUME session \in [Slots -> SessionRows], session' \in [Slots -> SessionRows],
           refreshes' = refreshes,
           \A z \in Slots : session'[z].user = session[z].user /\ session'[z].jti = session[z].jti
    PROVE  /\ \A z : Owned(z)' <=> Owned(z)
           /\ \A c : CallSound(c)' <=> CallSound(c)
           /\ \A r : RenewalSound(r)' <=> RenewalSound(r)
<1>1. \A z : Owned(z)' <=> Owned(z)
  BY DEF Owned
<1>2. \A t : Held(t)' <=> Held(t)
  BY <1>1 DEF Held, Tokens
<1>3. \A t : Held(t) => session'[t.sess].jti = session[t.sess].jti
  BY DEF Held, Owned
<1>4. \A c : CallSound(c)' <=> CallSound(c)
  BY <1>2, <1>3 DEF CallSound, TabCalls, Tokens
<1>5. \A r : RenewalSound(r)' <=> RenewalSound(r)
  BY <1>1 DEF RenewalSound, Owned
<1> QED
  BY <1>1, <1>4, <1>5

LEMMA ServeStep ==
    ASSUME TabSessionInv, NEW c \in calls, Serve(c)
    PROVE  TabSessionInv'
<1>0. /\ c \in TabCalls /\ CallSound(c) /\ c.state = "sent" /\ UNCHANGED client
      /\ session \in [Slots -> [user : Users \cup {NULL}, alive : BOOLEAN, jti : 1..MaxJti]]
  BY DEF TabSessionInv, ServerInv, ServerTyped, CallSound, Serve
<1>1. CASE c.kind = "login"
  <2>1. PICK s \in FreeSlots :
          /\ session' = [session EXCEPT ![s] = [user |-> c.of, alive |-> TRUE, jti |-> 1]]
          /\ calls' = Replace(c, [c EXCEPT !.state = "ok", !.token = [sess |-> s, jti |-> 1]])
          /\ expired' = {t \in expired : t.sess # s}
          /\ refreshes' = {r \in refreshes : r.sess # s}
    BY <1>1 DEF Serve
  <2>2. PICK n : n = [sess |-> s, jti |-> 1]
    OBVIOUS
  <2>3. s \in Slots /\ n \in Tokens /\ n.sess = s /\ n.jti = 1 /\ 1 \in 1..MaxJti
    BY <2>2, ConsoleAssumption DEF FreeSlots, Tokens
  <2>4. PICK d : d = [c EXCEPT !.state = "ok", !.token = n]
    OBVIOUS
  <2>5. calls' = Replace(c, d) /\ c.of \in Users
    BY <1>0, <1>1, <2>1, <2>2, <2>4 DEF CallSound
  <2>6. /\ d \in TabCalls /\ d.kind = "login" /\ d.of = c.of /\ d.token = n /\ d.state = "ok"
    BY <1>0, <1>1, <2>3, <2>4 DEF TabCalls, CallStates
  <2>7. session' \in [Slots -> [user : Users \cup {NULL}, alive : BOOLEAN, jti : 1..MaxJti]]
    <3>1. PICK x : x = [user |-> c.of, alive |-> TRUE, jti |-> 1]
      OBVIOUS
    <3>2. x \in [user : Users \cup {NULL}, alive : BOOLEAN, jti : 1..MaxJti]
      BY <2>3, <2>5, <3>1
    <3> QED
      BY <1>0, <2>1, <3>1, <3>2
  <2>8. session'[s].user = c.of /\ session'[s].jti = 1
        /\ \A z \in Slots \ {s} : session'[z] = session[z]
    BY <1>0, <2>1, <2>3
  <2>9. \A z : Owned(z) => Owned(z)'
    BY <2>5, <2>8 DEF Owned
  <2>10. Owned(s)' /\ Held(n)' /\ (\A t : Held(t) => Held(t)')
    BY <2>3, <2>5, <2>8, <2>9 DEF Owned, Held, Tokens
  <2>11. CallSound(d)'
    BY <2>1, <2>3, <2>5, <2>6, <2>8, <2>10 DEF CallSound, TabCalls, Tokens
  <2>12. ASSUME NEW e \in calls, e # c
         PROVE  CallSound(e)'
    <3>1. e.kind # "login"
      BY <1>1, <2>12 DEF TabSessionInv, TabInv, LoginsSound
    <3> QED
      BY <2>10, <3>1 DEF TabSessionInv, ServerInv, CallSound, TabCalls, Tokens
  <2>13. ASSUME NEW r \in refreshes'
         PROVE  RenewalSound(r)'
    <3>1. r \in refreshes /\ r.sess # s /\ RenewalSound(r) /\ r.sess \in Slots
      BY <2>1 DEF TabSessionInv, ServerInv, RenewalSound, Owned
    <3>2. session'[r.sess] = session[r.sess]
      BY <2>8, <3>1
    <3> QED
      BY <2>1, <2>9, <3>1, <3>2 DEF RenewalSound, Renewals
  <2>14. OneRenewal'
    BY <2>1 DEF TabSessionInv, ServerInv, OneRenewal
  <2>15. ServerInv'
    BY <2>1, <2>5, <2>7, <2>11, <2>12, <2>13, <2>14
    DEF Replace, TabSessionInv, ServerInv, ServerTyped, Tokens
  <2>16. ~RoleCallLive(d)
    BY <2>6 DEF RoleCallLive
  <2> QED
    BY <1>0, <1>1, <2>5, <2>6, <2>9, <2>15, <2>16, Replaced DEF TabSessionInv
<1>2. CASE c.kind # "login"
  <2>1. PICK d : d = [c EXCEPT !.state = Verdict(c.token)]
    OBVIOUS
  <2>2. /\ calls' = Replace(c, d) /\ UNCHANGED <<expired, refreshes>>
        /\ \/ session' = session
           \/ session' = [session EXCEPT ![c.token.sess].alive = FALSE]
    BY <1>2, <2>1 DEF Serve
  <2>3. Verdict(c.token) \in CallStates
    BY DEF Verdict, CallStates
  <2>4. /\ d \in TabCalls /\ d.kind = c.kind /\ d.of = c.of /\ d.token = c.token
        /\ d.live = c.live
    BY <1>0, <2>1, <2>3 DEF TabCalls
  <2>5. c.token.sess \in Slots
    BY <1>0, <1>2 DEF CallSound, Held, Owned
  <2>6. /\ session' \in [Slots -> SessionRows]
        /\ \A z \in Slots : session'[z].user = session[z].user /\ session'[z].jti = session[z].jti
    <3>1. session \in [Slots -> SessionRows]
      BY <1>0 DEF SessionRows
    <3>2. CASE session' = session
      BY <3>1, <3>2
    <3>3. CASE session' = [session EXCEPT ![c.token.sess].alive = FALSE]
      BY <2>5, <3>1, <3>3, SessionEnded
    <3> QED
      BY <2>2, <3>2, <3>3
  <2>7. /\ \A z : Owned(z)' <=> Owned(z)
        /\ \A e : CallSound(e)' <=> CallSound(e)
        /\ \A r : RenewalSound(r)' <=> RenewalSound(r)
    <3>1. session \in [Slots -> SessionRows] /\ refreshes' = refreshes
      BY <1>0, <2>2 DEF SessionRows
    <3> QED
      BY <2>6, <3>1, CallsRest
  <2>10. CallSound(d)
    BY <1>0, <1>2, <2>4 DEF CallSound
  <2>11. \A r \in refreshes' : RenewalSound(r)'
    BY <2>2, <2>7 DEF TabSessionInv, ServerInv
  <2>12. \A e \in calls' : CallSound(e)'
    BY <2>2, <2>7, <2>10 DEF Replace, TabSessionInv, ServerInv
  <2>13. ServerInv'
    BY <2>2, <2>6, <2>11, <2>12
    DEF TabSessionInv, ServerInv, ServerTyped, OneRenewal, Tokens, SessionRows
  <2> QED
    BY <1>0, <2>2, <2>4, <2>7, <2>13, Replaced DEF TabSessionInv, RoleCallLive
<1> QED
  BY <1>1, <1>2

LEMMA LoseStep ==
    ASSUME TabSessionInv, NEW c \in calls, Lose(c)
    PROVE  TabSessionInv'
<1>1. /\ c \in TabCalls /\ CallSound(c) /\ UNCHANGED <<session, expired, refreshes, client>>
      /\ session \in [Slots -> SessionRows]
  BY DEF TabSessionInv, ServerInv, ServerTyped, CallSound, Lose, server, SessionRows
<1>2. PICK d : d = [c EXCEPT !.state = "refused"]
  OBVIOUS
<1>3. calls' = Replace(c, d)
  BY <1>2 DEF Lose
<1>4. /\ d \in TabCalls /\ d.kind = c.kind /\ d.of = c.of /\ d.token = c.token
      /\ d.live = c.live /\ d.state = "refused"
  BY <1>1, <1>2 DEF TabCalls, CallStates
<1>5. CallSound(d)
  BY <1>1, <1>4 DEF CallSound
<1>6. /\ \A z : Owned(z)' <=> Owned(z)
      /\ \A e : CallSound(e)' <=> CallSound(e)
      /\ \A r : RenewalSound(r)' <=> RenewalSound(r)
  BY <1>1, CallsRest
<1>7. ServerInv'
  BY <1>1, <1>3, <1>5, <1>6
  DEF Replace, TabSessionInv, ServerInv, ServerTyped, OneRenewal, Tokens
<1> QED
  BY <1>1, <1>3, <1>4, <1>6, <1>7, Replaced DEF TabSessionInv, RoleCallLive

\* The tab and its calls do not notice a change of the renewals under way
LEMMA RenewalsMove ==
    ASSUME TabSessionInv, UNCHANGED <<expired, client, calls>>,
           session' \in [Slots -> SessionRows],
           \A z \in Slots : session'[z].user = session[z].user,
           \A z \in Slots : \/ session'[z].jti = session[z].jti
                            \/ \E r \in refreshes : r.sess = z,
           \A n \in refreshes' : \E r \in refreshes : n.sess = r.sess,
           \A n \in refreshes' : RenewalSound(n)',
           OneRenewal'
    PROVE  TabSessionInv'
<1>1. \A z : Owned(z)' <=> Owned(z)
  BY DEF Owned
<1>2. \A t : Held(t)' <=> Held(t)
  BY <1>1 DEF Held, Tokens
<1>3. ASSUME NEW c \in calls'
      PROVE  CallSound(c)'
  <2>1. CallSound(c)
    BY <1>3 DEF TabSessionInv, ServerInv
  <2>2. ASSUME c.kind = "login", c.state = "ok"
        PROVE  session'[c.token.sess].jti = c.token.jti
               /\ \A n \in refreshes' : n.sess # c.token.sess
    BY <2>1, <2>2 DEF CallSound, Held, Owned
  <2> QED
    BY <1>2, <2>1, <2>2 DEF CallSound, TabCalls, Tokens
<1>4. ServerInv'
  BY <1>3 DEF TabSessionInv, ServerInv, ServerTyped, SessionRows, Tokens
<1>5. TabInv'
  <2>1. LoginsSound(calls', auth)
    BY DEF TabSessionInv, TabInv
  <2> QED
    BY <1>1, <2>1, TabRests
<1> QED
  BY <1>4, <1>5 DEF TabSessionInv

\* A renewal fails, with or without the backend knowing
LEMMA RenewalFails ==
    ASSUME TabSessionInv, NEW r \in refreshes, r.live \/ r.state = "sent",
           refreshes' = (refreshes \ {r}) \cup {[r EXCEPT !.state = "failed"]},
           UNCHANGED <<session, expired, client, calls>>
    PROVE  TabSessionInv'
<1>1. PICK n : n = [r EXCEPT !.state = "failed"]
  OBVIOUS
<1>2. r \in Renewals /\ RenewalSound(r) /\ session \in [Slots -> SessionRows]
  BY DEF TabSessionInv, ServerInv, ServerTyped, RenewalSound, SessionRows
<1>3. /\ n \in Renewals /\ n.sess = r.sess /\ n.live = r.live /\ n.state = "failed"
      /\ n.jti = r.jti
  BY <1>1, <1>2 DEF Renewals
<1>4. \A z : Owned(z)' <=> Owned(z)
  BY DEF Owned
<1>5. refreshes' = (refreshes \ {r}) \cup {n}
  BY <1>1
<1>6. RenewalSound(n)'
  BY <1>2, <1>3, <1>4 DEF RenewalSound, Renewals
<1>7. ASSUME NEW q \in refreshes \ {r}
      PROVE  RenewalSound(q)'
  <2>1. RenewalSound(q) /\ q \in Renewals
    BY DEF TabSessionInv, ServerInv, RenewalSound
  <2>2. ASSUME NEW w \in refreshes, ~w.live, w.state = "ok"
        PROVE  w \in refreshes'
    BY <1>5, <2>2
  <2> QED
    BY <1>4, <2>1, <2>2 DEF RenewalSound, Renewals
<1>8. OneRenewal'
  BY <1>3, <1>5 DEF TabSessionInv, ServerInv, OneRenewal
<1>9. \A m \in refreshes' : \E q \in refreshes : m.sess = q.sess
  BY <1>3, <1>5
<1>10. \A m \in refreshes' : RenewalSound(m)'
  BY <1>5, <1>6, <1>7
<1> QED
  BY <1>2, <1>8, <1>9, <1>10, RenewalsMove

LEMMA ServeRefreshStep ==
    ASSUME TabSessionInv, NEW r \in refreshes, ServeRefresh(r)
    PROVE  TabSessionInv'
<1>1. /\ r \in Renewals /\ RenewalSound(r) /\ session \in [Slots -> SessionRows] /\ r.sess \in Slots
      /\ r.state = "sent" /\ UNCHANGED <<expired, client, calls>>
  BY DEF TabSessionInv, ServerInv, ServerTyped, RenewalSound, SessionRows, Owned, ServeRefresh
<1>2. CASE session[r.sess].alive /\ session[r.sess].jti < MaxJti
  <2>1. PICK j : j = session[r.sess].jti + 1
    OBVIOUS
  <2>2. session[r.sess] \in SessionRows
    BY <1>1
  <2>3. j \in 1..MaxJti /\ j \in 0..MaxJti
    BY <1>2, <2>1, <2>2, ConsoleAssumption DEF SessionRows
  <2>4. PICK x : x = [session[r.sess] EXCEPT !.jti = j]
    OBVIOUS
  <2>5. x \in SessionRows /\ x.user = session[r.sess].user /\ x.jti = j
    BY <2>2, <2>3, <2>4 DEF SessionRows
  <2>6. session' = [session EXCEPT ![r.sess] = x]
    BY <1>2, <2>1, <2>4 DEF ServeRefresh
  <2>7. /\ session' \in [Slots -> SessionRows] /\ session'[r.sess] = x
        /\ \A z \in Slots : z # r.sess => session'[z] = session[z]
    BY <1>1, <2>5, <2>6
  <2>8. PICK n : n = [r EXCEPT !.state = "ok", !.jti = j]
    OBVIOUS
  <2>9. /\ n \in Renewals /\ n.sess = r.sess /\ n.live = r.live /\ n.state = "ok" /\ n.jti = j
    BY <1>1, <2>3, <2>8 DEF Renewals
  <2>10. session'[r.sess].jti = j
    BY <2>5, <2>7
  <2>11. refreshes' = (refreshes \ {r}) \cup {n}
    BY <1>2, <2>8, <2>10 DEF ServeRefresh
  <2>12. \A z \in Slots : session'[z].user = session[z].user
    BY <2>5, <2>7
  <2>13. \A z : Owned(z)' <=> Owned(z)
    BY <2>12 DEF Owned
  <2>14. RenewalSound(n)'
    BY <1>1, <2>3, <2>9, <2>10, <2>13 DEF RenewalSound, Renewals
  <2>15. ASSUME NEW q \in refreshes \ {r}
         PROVE  RenewalSound(q)'
    <3>1. RenewalSound(q) /\ q \in Renewals /\ q.sess \in Slots
      BY DEF TabSessionInv, ServerInv, RenewalSound, Owned
    <3>2. ASSUME NEW w \in refreshes, ~w.live, w.state = "ok"
          PROVE  w \in refreshes'
      BY <1>1, <2>11, <3>2
    <3>3. CASE q.sess # r.sess
      BY <2>7, <2>13, <3>1, <3>2, <3>3 DEF RenewalSound, Renewals
    <3>4. CASE q.sess = r.sess /\ q.live
      <4>1. ~n.live /\ n \in refreshes'
        BY <2>9, <2>11, <3>4 DEF TabSessionInv, ServerInv, OneRenewal
      <4> QED
        BY <2>9, <2>13, <3>1, <3>4, <4>1 DEF RenewalSound, Renewals
    <3>5. CASE ~q.live
      BY <2>13, <3>1, <3>5 DEF RenewalSound, Renewals
    <3> QED
      BY <3>3, <3>4, <3>5
  <2>16. OneRenewal'
    BY <2>9, <2>11 DEF TabSessionInv, ServerInv, OneRenewal
  <2>17. \A m \in refreshes' : \E q \in refreshes : m.sess = q.sess
    BY <2>9, <2>11
  <2>18. \A m \in refreshes' : RenewalSound(m)'
    BY <2>11, <2>14, <2>15
  <2>19. \A z \in Slots : \/ session'[z].jti = session[z].jti
                          \/ \E q \in refreshes : q.sess = z
    BY <2>7
  <2> QED
    BY <1>1, <2>7, <2>12, <2>16, <2>17, <2>18, <2>19, RenewalsMove
<1>3. CASE ~(session[r.sess].alive /\ session[r.sess].jti < MaxJti)
  <2>1. /\ refreshes' = (refreshes \ {r}) \cup {[r EXCEPT !.state = "failed"]}
        /\ UNCHANGED <<session, expired, client, calls>>
    BY <1>3 DEF ServeRefresh
  <2> QED
    BY <1>1, <2>1, RenewalFails
<1> QED
  BY <1>2, <1>3

LEMMA LoseRefreshStep ==
    ASSUME TabSessionInv, NEW r \in refreshes, LoseRefresh(r)
    PROVE  TabSessionInv'
<1>1. /\ r.live /\ refreshes' = (refreshes \ {r}) \cup {[r EXCEPT !.state = "failed"]}
      /\ UNCHANGED <<session, expired, client, calls>>
  BY DEF LoseRefresh, server
<1> QED
  BY <1>1, RenewalFails

\* Every token of the tab is one
LEMMA TokensInUse ==
    ASSUME TabSessionInv
    PROVE  InUse \subseteq Tokens
BY DEF InUse, TabSessionInv, ServerInv, TabInv, CallSound, AuthSound, TabCalls

LEMMA ExpireStep ==
    ASSUME TabSessionInv, NEW t \in InUse, Expire(t)
    PROVE  TabSessionInv'
<1>1. /\ expired' = expired \cup {t} /\ UNCHANGED <<session, client, calls, refreshes>>
      /\ session \in [Slots -> SessionRows]
  BY DEF Expire, TabSessionInv, ServerInv, ServerTyped, SessionRows
<1>2. t \in Tokens
  BY TokensInUse
<1>3. /\ \A z : Owned(z)' <=> Owned(z)
      /\ \A e : CallSound(e)' <=> CallSound(e)
      /\ \A r : RenewalSound(r)' <=> RenewalSound(r)
  BY <1>1, CallsRest
<1>4. ServerInv'
  BY <1>1, <1>2, <1>3 DEF TabSessionInv, ServerInv, ServerTyped, OneRenewal, Tokens
<1>5. LoginsSound(calls', auth)
  BY <1>1 DEF TabSessionInv, TabInv
<1> QED
  BY <1>1, <1>3, <1>4, <1>5, TabRests DEF TabSessionInv

LEMMA EndSessionStep ==
    ASSUME TabSessionInv, NEW s \in {t.sess : t \in InUse}, EndSession(s)
    PROVE  TabSessionInv'
<1>1. /\ session' = [session EXCEPT ![s].alive = FALSE]
      /\ UNCHANGED <<expired, client, calls, refreshes>> /\ session \in [Slots -> SessionRows]
  BY DEF EndSession, TabSessionInv, ServerInv, ServerTyped, SessionRows
<1>2. s \in Slots
  BY TokensInUse DEF Tokens
<1>3. /\ session' \in [Slots -> SessionRows]
      /\ \A z \in Slots : session'[z].user = session[z].user /\ session'[z].jti = session[z].jti
  BY <1>1, <1>2, SessionEnded
<1>4. /\ \A z : Owned(z)' <=> Owned(z)
      /\ \A e : CallSound(e)' <=> CallSound(e)
      /\ \A r : RenewalSound(r)' <=> RenewalSound(r)
  BY <1>1, <1>3, CallsRest
<1>5. ServerInv'
  BY <1>1, <1>3, <1>4 DEF TabSessionInv, ServerInv, ServerTyped, OneRenewal, Tokens, SessionRows
<1>6. LoginsSound(calls', auth)
  BY <1>1 DEF TabSessionInv, TabInv
<1> QED
  BY <1>1, <1>4, <1>5, <1>6, TabRests DEF TabSessionInv

-----------------------------------------------------------------------------
(* What the administrator does, and what arrives outside the header        *)

\* Requests come and go, and nothing else changes
LEMMA CallsMove ==
    ASSUME TabSessionInv, UNCHANGED <<session, expired, client, refreshes>>,
           \A d \in calls' : CallSound(d), LoginsSound(calls', auth),
           \A d \in calls' : RoleCallLive(d) => \E c \in calls : RoleCallLive(c) /\ c.of = d.of
    PROVE  TabSessionInv'
<1>1. session \in [Slots -> SessionRows]
  BY DEF TabSessionInv, ServerInv, ServerTyped, SessionRows
<1>2. /\ \A z : Owned(z)' <=> Owned(z)
      /\ \A e : CallSound(e)' <=> CallSound(e)
      /\ \A r : RenewalSound(r)' <=> RenewalSound(r)
  BY <1>1, CallsRest
<1>3. ServerInv'
  BY <1>2 DEF TabSessionInv, ServerInv, ServerTyped, OneRenewal, Tokens
<1> QED
  BY <1>2, <1>3, TabRests DEF TabSessionInv

LEMMA SubmitStep ==
    ASSUME TabSessionInv, NEW u \in Users, Submit(u)
    PROVE  TabSessionInv'
<1>1. PICK n : n = Asking("login", u, NULL)
  OBVIOUS
<1>2. /\ calls' = calls \cup {n} /\ UNCHANGED <<session, expired, client, refreshes>>
      /\ Screen = "login" /\ Under("login") = {}
  BY <1>1 DEF Submit, Asking, server
<1>3. "login" \in Kinds /\ u \in Subjects /\ NULL \in Tokens \cup {NULL}
  BY DEF Kinds, Subjects
<1>4. n \in TabCalls /\ n.kind = "login" /\ n.of = u /\ n.token = NULL /\ n.state = "sent"
  BY <1>1, <1>3, SentFields
<1>5. CallSound(n)
  BY <1>4 DEF CallSound
<1>6. \A c \in calls : c.kind # "login"
  BY <1>2 DEF Under
<1>7. auth.refresh = NULL
  BY <1>2 DEF Screen, ScreenOf, TabSessionInv, TabInv, AuthSound
<1>8. LoginsSound(calls', auth)
  BY <1>2, <1>6, <1>7 DEF LoginsSound
<1>9. \A d \in calls' : RoleCallLive(d) => d \in calls
  BY <1>2, <1>4 DEF RoleCallLive
<1>10. \A d \in calls' : CallSound(d)
  BY <1>2, <1>5 DEF TabSessionInv, ServerInv
<1> QED
  BY <1>2, <1>8, <1>9, <1>10, CallsMove

\* A request with the token of the store
LEMMA CallAsks ==
    ASSUME NEW kind, NEW of
    PROVE  Call(kind, of) = Asking(kind, of, auth.access)
<1>1. PICK x : x = auth.access
  OBVIOUS
<1>2. PICK n : n = [kind |-> kind, of |-> of, token |-> x, retried |-> FALSE, live |-> TRUE,
                    state |-> "sent"]
  OBVIOUS
<1>3. n = Asking(kind, of, x)
  <2>1. PICK m : m = Asking(kind, of, x)
    OBVIOUS
  <2>2. m = [[kind |-> kind, of |-> of, token |-> x, retried |-> FALSE, live |-> TRUE,
              state |-> "sent"] EXCEPT !.token = x]
    BY <1>1, <2>1 DEF Call, Asking
  <2>3. m = [kind |-> kind, of |-> of, token |-> x, retried |-> FALSE, live |-> TRUE,
             state |-> "sent"]
    BY <2>2
  <2> QED
    BY <1>2, <2>1, <2>3
<1>4. n = Call(kind, of)
  BY <1>1, <1>2 DEF Call
<1> QED
  BY <1>1, <1>3, <1>4

LEMMA PageCalls ==
    ASSUME TabSessionInv, Screen = "app", UNCHANGED <<session, expired, client, refreshes>>,
           NEW kind \in {"logout", "page"}, NEW of \in Subjects,
           calls' = calls \cup {Call(kind, of)}
    PROVE  TabSessionInv'
<1>1. PICK n : n = Asking(kind, of, auth.access)
  OBVIOUS
<1>2. calls' = calls \cup {n}
  BY <1>1, CallAsks
<1>3. PICK t : t = auth.access /\ Held(t) /\ t \in Tokens \cup {NULL}
  BY DEF Screen, ScreenOf, TabSessionInv, TabInv, AuthSound, Held
<1>4. kind \in Kinds /\ kind # "login" /\ kind # "role"
  BY DEF Kinds
<1>5. n = Asking(kind, of, t)
  BY <1>1, <1>3
<1>6. CallSound(n) /\ n.kind = kind
  BY <1>3, <1>4, <1>5, AskedSound
<1>7. LoginsSound(calls', auth)
  BY <1>2, <1>4, <1>6 DEF LoginsSound, TabSessionInv, TabInv
<1>8. \A d \in calls' : RoleCallLive(d) => d \in calls
  BY <1>2, <1>4, <1>6 DEF RoleCallLive
<1>9. \A d \in calls' : CallSound(d)
  BY <1>2, <1>6 DEF TabSessionInv, ServerInv
<1> QED
  BY <1>7, <1>8, <1>9, CallsMove

LEMMA ClickLogoutStep ==
    ASSUME TabSessionInv, NEW from \in {"header", "account"}, ClickLogout(from)
    PROVE  TabSessionInv'
<1>1. from \in Subjects /\ "logout" \in {"logout", "page"}
  BY DEF Subjects
<1>2. /\ Screen = "app" /\ UNCHANGED <<session, expired, client, refreshes>>
      /\ calls' = calls \cup {Call("logout", from)}
  BY DEF ClickLogout, server
<1> QED
  BY <1>1, <1>2, PageCalls

LEMMA CallPageStep ==
    ASSUME TabSessionInv, CallPage
    PROVE  TabSessionInv'
<1>1. NULL \in Subjects /\ "page" \in {"logout", "page"}
  BY DEF Subjects
<1>2. /\ Screen = "app" /\ UNCHANGED <<session, expired, client, refreshes>>
      /\ calls' = calls \cup {Call("page", NULL)}
  BY DEF CallPage, server
<1> QED
  BY <1>1, <1>2, PageCalls

LEMMA PageAnsweredStep ==
    ASSUME TabSessionInv, NEW c \in calls, Answered(c)
    PROVE  TabSessionInv'
<1>1. calls' = calls \ {c} /\ UNCHANGED <<session, expired, client, refreshes>>
  BY DEF Answered, server
<1>2. LoginsSound(calls', auth)
  BY <1>1 DEF LoginsSound, TabSessionInv, TabInv
<1>3. \A d \in calls' : CallSound(d) /\ d \in calls
  BY <1>1 DEF TabSessionInv, ServerInv
<1> QED
  BY <1>1, <1>2, <1>3, CallsMove

LEMMA AwaitRefreshStep ==
    ASSUME TabSessionInv, NEW c \in calls, AwaitRefresh(c)
    PROVE  TabSessionInv'
<1>1. /\ c \in TabCalls /\ CallSound(c) /\ c.state = "expired" /\ auth.refresh # NULL
      /\ UNCHANGED <<session, expired, client>> /\ session \in [Slots -> SessionRows]
  BY DEF TabSessionInv, ServerInv, ServerTyped, CallSound, AwaitRefresh, RefreshNeeded,
         server, SessionRows
<1>2. PICK d : d = [c EXCEPT !.state = "waiting", !.retried = TRUE]
  OBVIOUS
<1>3. calls' = Replace(c, d)
  BY <1>2 DEF AwaitRefresh
<1>4. /\ d \in TabCalls /\ d.kind = c.kind /\ d.of = c.of /\ d.token = c.token
      /\ d.live = c.live
  BY <1>1, <1>2 DEF TabCalls, CallStates
<1>5. \A e \in calls : e.kind # "login"
  BY <1>1 DEF TabSessionInv, TabInv, LoginsSound
<1>6. CallSound(d) /\ d.kind # "login"
  BY <1>1, <1>4, <1>5 DEF CallSound
<1>7. (\A z : Owned(z)' <=> Owned(z)) /\ (\A t : Held(t)' <=> Held(t))
  BY <1>1 DEF Owned, Held, Tokens
<1>8. \A e \in calls' : CallSound(e) /\ e.kind # "login"
  BY <1>3, <1>5, <1>6 DEF Replace, TabSessionInv, ServerInv
<1>9. \A e \in calls' : CallSound(e)'
  BY <1>7, <1>8 DEF CallSound, TabCalls, Tokens
<1>10. PICK n : n = [sess |-> auth.refresh, live |-> TRUE, state |-> "sent", jti |-> 0]
  OBVIOUS
<1>11. Owned(auth.refresh) /\ auth.refresh \in Slots /\ 0 \in 0..MaxJti
  BY <1>1, ConsoleAssumption DEF TabSessionInv, TabInv, AuthSound, Owned
<1>12. /\ n \in Renewals /\ n.sess = auth.refresh /\ n.live /\ n.state = "sent"
  BY <1>10, <1>11 DEF Renewals
<1>13. RenewalSound(n)
  BY <1>11, <1>12 DEF RenewalSound
<1>14. \/ refreshes' = refreshes
       \/ refreshes' = refreshes \cup {n} /\ \A r \in refreshes : ~r.live
  BY <1>10 DEF AwaitRefresh
<1>15. ASSUME NEW r \in refreshes'
       PROVE  RenewalSound(r)'
  <2>1. RenewalSound(r)
    BY <1>13, <1>14 DEF TabSessionInv, ServerInv
  <2> QED
    BY <1>1, <1>7, <1>14, <2>1 DEF RenewalSound, Renewals
<1>16. OneRenewal'
  BY <1>12, <1>14 DEF TabSessionInv, ServerInv, OneRenewal
<1>17. ServerInv'
  BY <1>1, <1>9, <1>15, <1>16 DEF TabSessionInv, ServerInv, ServerTyped, Tokens
<1> QED
  BY <1>1, <1>3, <1>4, <1>7, <1>17, Replaced DEF TabSessionInv, RoleCallLive

-----------------------------------------------------------------------------
(* What changes the stores                                                 *)

\* ShowSound, when no renewal settles
LEMMA ShowKeeps ==
    ASSUME TabSessionInv, NEW a, NEW spinner \in BOOLEAN, NEW g, NEW cs,
           Show(a, spinner, g, cs), UNCHANGED <<server, refreshes>>,
           AuthSound(a), GlobalSound(g), LoginsSound(cs, a),
           \A c \in cs : CallSound(c),
           \A c \in cs : RoleCallLive(c) => Screen = "app" /\ c.of = global.project
    PROVE  TabSessionInv'
<1>1. session \in [Slots -> SessionRows] /\ session' = session /\ refreshes' = refreshes
      /\ UNCHANGED server
  BY DEF TabSessionInv, ServerInv, ServerTyped, SessionRows, server
<1>2. \A r : RenewalSound(r)' <=> RenewalSound(r)
  BY <1>1, CallsRest
<1>3. \A r \in refreshes' : RenewalSound(r)'
  BY <1>1, <1>2 DEF TabSessionInv, ServerInv
<1>4. refreshes' \subseteq refreshes
  BY <1>1
<1> QED
  BY <1>1, <1>3, <1>4, ShowSound

\* The stores are sound, and so are the requests but for one that has arrived
LEMMA StoresSound ==
    ASSUME TabSessionInv
    PROVE  /\ AuthSound(auth) /\ GlobalSound(global) /\ booting \in BOOLEAN
           /\ AuthSound(NoAuth) /\ GlobalSound(NoGlobal)
           /\ \A cs : cs \subseteq calls =>
                /\ LoginsSound(cs, auth) /\ LoginsSound(cs, NoAuth)
                /\ \A c \in cs : CallSound(c)
                /\ \A c \in cs : RoleCallLive(c) => Screen = "app" /\ c.of = global.project
<1>1. AuthSound(NoAuth)
  BY DEF NoAuth, AuthSound
<1>2. GlobalSound(NoGlobal)
  <2>1. << >> \in Seq(Projects)
    OBVIOUS
  <2> QED
    BY <2>1 DEF NoGlobal, GlobalSound
<1>3. AuthSound(auth) /\ GlobalSound(global) /\ booting \in BOOLEAN
      /\ LoginsSound(calls, auth) /\ RoleCallsSound /\ \A c \in calls : CallSound(c)
  BY DEF TabSessionInv, TabInv, ServerInv
<1>4. \A cs : cs \subseteq calls => LoginsSound(cs, auth) /\ LoginsSound(cs, NoAuth)
  BY <1>3 DEF LoginsSound, NoAuth
<1> QED
  BY <1>1, <1>2, <1>3, <1>4 DEF RoleCallsSound

LEMMA SelectCompanyStep ==
    ASSUME TabSessionInv, NEW k \in {CompanyOf[p] : p \in Projects} \cup {NULL},
           SelectCompany(k)
    PROVE  TabSessionInv'
<1>1. PICK g : g = [global EXCEPT !.company = k, !.project = NULL, !.role = NULL]
  OBVIOUS
<1>2. Show(auth, booting, g, calls) /\ UNCHANGED <<server, refreshes>>
  BY <1>1 DEF SelectCompany
<1>3. k \in Nat \cup {NULL}
  BY ConsoleAssumption
<1>4. GlobalSound(global)
  BY StoresSound
<1>5. g \in [company : Nat \cup {NULL}, project : Projects \cup {NULL},
              role : [of : Users, at : Projects] \cup {NULL}, projects : Seq(Projects)]
      /\ g.project = NULL /\ g.role = NULL
  BY <1>1, <1>3, <1>4 DEF GlobalSound
<1>6. GlobalSound(g)
  BY <1>5 DEF GlobalSound
<1> QED
  BY <1>2, <1>6, StoresSound, ShowKeeps

LEMMA SelectProjectStep ==
    ASSUME TabSessionInv, NEW p \in Projects \cup {NULL}, SelectProject(p)
    PROVE  TabSessionInv'
<1>1. PICK g : g = [global EXCEPT !.project = p, !.role = NULL]
  OBVIOUS
<1>2. Show(auth, booting, g, calls) /\ UNCHANGED <<server, refreshes>>
      /\ (p \in Offered(global) \/ p = NULL)
  BY <1>1 DEF SelectProject
<1>4. GlobalSound(global)
  BY StoresSound
<1>5. g \in [company : Nat \cup {NULL}, project : Projects \cup {NULL},
              role : [of : Users, at : Projects] \cup {NULL}, projects : Seq(Projects)]
      /\ g.project = p /\ g.role = NULL
      /\ g.company = global.company /\ g.projects = global.projects
  BY <1>1, <1>4 DEF GlobalSound
<1>6. GlobalSound(g)
  BY <1>2, <1>5 DEF GlobalSound, Offered
<1> QED
  BY <1>2, <1>6, StoresSound, ShowKeeps

LEMMA LoggedInStep ==
    ASSUME TabSessionInv, NEW c \in calls, LoggedIn(c)
    PROVE  TabSessionInv'
<1>1. /\ c \in TabCalls /\ CallSound(c) /\ c.kind = "login" /\ c.state = "ok"
      /\ c.of \in Users /\ Held(c.token) /\ Owned(c.token.sess) /\ c.token \in Tokens
      /\ c.token.sess \in Slots
  BY DEF TabSessionInv, ServerInv, CallSound, LoggedIn, Held, Owned
<1>2. PICK a : a = [auth EXCEPT !.access = c.token, !.refresh = c.token.sess, !.role = c.of]
  OBVIOUS
<1>3. PICK t \in Tokens \cup {NULL} : t = c.token /\ Held(t)
  BY <1>1
<1>4. PICK n : n = Asking("load", "login", t)
  OBVIOUS
<1>5. PICK cs : cs = Replace(c, n)
  OBVIOUS
<1>6. Show(a, booting, global, cs) /\ UNCHANGED <<server, refreshes>>
  BY <1>2, <1>3, <1>4, <1>5 DEF LoggedIn, Asking
<1>7. "load" \in Kinds /\ "load" # "login" /\ "load" # "role" /\ "login" \in Subjects
  BY DEF Kinds, Subjects
<1>8. CallSound(n) /\ n.kind = "load"
  BY <1>3, <1>4, <1>7, AskedSound
<1>9. a \in [user : Users \cup {NULL}, access : Tokens \cup {NULL},
             refresh : Slots \cup {NULL}, role : Users \cup {NULL}]
      /\ a.access = c.token /\ a.refresh = c.token.sess
  BY <1>1, <1>2, StoresSound DEF AuthSound
<1>10. AuthSound(a)
  <2>1. c.token # NULL
    BY <1>1, ConsoleAssumption DEF Tokens
  <2> QED
    BY <1>1, <1>9, <2>1 DEF AuthSound
<1>11. \A d \in cs : d.kind # "login"
  BY <1>1, <1>5, <1>7, <1>8 DEF Replace, TabSessionInv, TabInv, LoginsSound
<1>12. LoginsSound(cs, a)
  BY <1>11 DEF LoginsSound
<1>13. \A d \in cs : CallSound(d)
  BY <1>5, <1>8, StoresSound DEF Replace
<1>14. \A d \in cs : RoleCallLive(d) => Screen = "app" /\ d.of = global.project
  BY <1>5, <1>7, <1>8, StoresSound DEF Replace, RoleCallLive
<1> QED
  BY <1>6, <1>10, <1>12, <1>13, <1>14, StoresSound, ShowKeeps

\* The project selected by default is one of the caller's company
LEMMA DefaultOffered ==
    ASSUME NEW u \in Users, DefaultProject(u) # NULL
    PROVE  /\ u \notin Admins /\ DefaultProject(u) \in Projects
           /\ CompanyOf[DefaultProject(u)] = CompanyOf[u]
           /\ \E i \in DOMAIN ProjectsOf[u] : ProjectsOf[u][i] = DefaultProject(u)
<1> DEFINE listed == ProjectsOf[u]
           own == {i \in DOMAIN listed : CompanyOf[listed[i]] = CompanyOf[u]}
<1>1. u \notin Admins /\ own # {}
      /\ DefaultProject(u) = listed[CHOOSE i \in own : \A j \in own : i <= j]
  BY DEF DefaultProject
<1>2. listed \in Seq(Projects)
  BY ConsoleAssumption
<1>3. own \subseteq Nat
  BY <1>2
<1>4. \E i \in own : \A j \in own : i <= j
  BY <1>1, <1>3, FirstExists
<1>5. (CHOOSE i \in own : \A j \in own : i <= j) \in own
  BY <1>4
<1>6. PICK i \in own : DefaultProject(u) = listed[i]
  BY <1>1, <1>5
<1>7. i \in DOMAIN listed /\ listed[i] \in Projects
  BY <1>2
<1> QED
  BY <1>1, <1>6, <1>7

LEMMA SessionLoadedStep ==
    ASSUME TabSessionInv, NEW c \in calls, Loaded(c)
    PROVE  TabSessionInv'
<1>1. c.kind = "load" /\ CallSound(c) /\ Owned(c.token.sess)
  BY DEF TabSessionInv, ServerInv, CallSound, Loaded, Held
<1>2. PICK u \in Users : u = session[c.token.sess].user
  BY <1>1 DEF Owned
<1>3. PICK a : a = [auth EXCEPT !.user = u]
  OBVIOUS
<1>4. PICK k : k = IF u \in Admins THEN NULL ELSE CompanyOf[u]
  OBVIOUS
<1>5. PICK p : p = DefaultProject(u)
  OBVIOUS
<1>6. PICK g : g = [company |-> k, project |-> p, role |-> NULL, projects |-> ProjectsOf[u]]
  OBVIOUS
<1>7. PICK spinner \in BOOLEAN : spinner = IF c.of = "boot" THEN FALSE ELSE booting
  BY StoresSound
<1>8. Show(a, spinner, g, calls \ {c}) /\ UNCHANGED <<server, refreshes>>
  BY <1>2, <1>3, <1>4, <1>5, <1>6, <1>7 DEF Loaded
<1>9. k \in Nat \cup {NULL} /\ ProjectsOf[u] \in Seq(Projects) /\ p \in Projects \cup {NULL}
  BY <1>4, <1>5, DefaultOffered, ConsoleAssumption
<1>10. /\ g \in [company : Nat \cup {NULL}, project : Projects \cup {NULL},
                 role : [of : Users, at : Projects] \cup {NULL}, projects : Seq(Projects)]
       /\ g.company = k /\ g.project = p /\ g.role = NULL /\ g.projects = ProjectsOf[u]
  BY <1>6, <1>9
<1>11. p # NULL => p \in Offered(g)
  BY <1>4, <1>5, <1>10, DefaultOffered DEF Offered
<1>12. GlobalSound(g)
  BY <1>10, <1>11 DEF GlobalSound
<1>13. /\ a \in [user : Users \cup {NULL}, access : Tokens \cup {NULL},
                 refresh : Slots \cup {NULL}, role : Users \cup {NULL}]
       /\ a.access = auth.access /\ a.refresh = auth.refresh
  BY <1>3, StoresSound DEF AuthSound
<1>14. AuthSound(a)
  BY <1>13, StoresSound DEF AuthSound
<1>15. calls \ {c} \subseteq calls
  OBVIOUS
<1>16. LoginsSound(calls \ {c}, a)
  BY <1>13, <1>15, StoresSound DEF LoginsSound
<1> QED
  BY <1>8, <1>12, <1>14, <1>15, <1>16, StoresSound, ShowKeeps

LEMMA LoadFailedStep ==
    ASSUME TabSessionInv, NEW c \in calls, LoadFailed(c)
    PROVE  TabSessionInv'
<1>1. calls \ {c} \subseteq calls /\ FALSE \in BOOLEAN
  OBVIOUS
<1>2. \/ Show(NoAuth, FALSE, global, calls \ {c})
      \/ Show(auth, booting, global, calls \ {c})
  BY DEF LoadFailed
<1>3. UNCHANGED <<server, refreshes>>
  BY DEF LoadFailed
<1>4. CASE Show(NoAuth, FALSE, global, calls \ {c})
  BY <1>1, <1>3, <1>4, StoresSound, ShowKeeps
<1>5. CASE Show(auth, booting, global, calls \ {c})
  BY <1>1, <1>3, <1>5, StoresSound, ShowKeeps
<1> QED
  BY <1>2, <1>4, <1>5

LEMMA RoleArrivedStep ==
    ASSUME TabSessionInv, NEW c \in calls, RoleArrived(c)
    PROVE  TabSessionInv'
<1>1. /\ c.kind = "role" /\ CallSound(c) /\ c.of \in Projects /\ Owned(c.token.sess)
      /\ UNCHANGED <<server, refreshes>>
  BY DEF TabSessionInv, ServerInv, CallSound, RoleArrived, Held
<1>2. PICK u \in Users : u = session[c.token.sess].user
  BY <1>1 DEF Owned
<1>3. PICK r : r = [of |-> u, at |-> c.of]
  OBVIOUS
<1>4. r \in [of : Users, at : Projects] /\ r.at = c.of
  BY <1>1, <1>3
<1>5. PICK g : g = IF c.live /\ c.state = "ok" THEN [global EXCEPT !.role = r] ELSE global
  OBVIOUS
<1>6. Show(auth, booting, g, calls \ {c})
  BY <1>2, <1>3, <1>5 DEF RoleArrived
<1>7. GlobalSound(g)
  <2>1. CASE c.live /\ c.state = "ok"
    <3>1. c.of = global.project
      BY <1>1, <2>1, StoresSound DEF RoleCallLive
    <3>2. /\ g \in [company : Nat \cup {NULL}, project : Projects \cup {NULL},
                    role : [of : Users, at : Projects] \cup {NULL}, projects : Seq(Projects)]
          /\ g.role = r /\ g.project = global.project
          /\ g.company = global.company /\ g.projects = global.projects
      BY <1>4, <1>5, <2>1, StoresSound DEF GlobalSound
    <3>3. GlobalSound(global)
      BY StoresSound
    <3> QED
      BY <1>4, <3>1, <3>2, <3>3 DEF GlobalSound, Offered
  <2>2. CASE ~(c.live /\ c.state = "ok")
    BY <1>5, <2>2, StoresSound
  <2> QED
    BY <2>1, <2>2
<1>8. calls \ {c} \subseteq calls
  OBVIOUS
<1> QED
  BY <1>1, <1>6, <1>7, <1>8, StoresSound, ShowKeeps

LEMMA LoggedOutStep ==
    ASSUME TabSessionInv, NEW c \in calls, LoggedOut(c)
    PROVE  TabSessionInv'
<1>1. PICK g : g = IF c.of = "account" THEN NoGlobal ELSE global
  OBVIOUS
<1>2. Show(NoAuth, booting, g, calls \ {c}) /\ UNCHANGED <<server, refreshes>>
  BY <1>1 DEF LoggedOut
<1>3. GlobalSound(g) /\ calls \ {c} \subseteq calls
  BY <1>1, StoresSound
<1> QED
  BY <1>2, <1>3, StoresSound, ShowKeeps

\* A fresh page, with the tokens of the store or with none
LEMMA Restarted ==
    ASSUME TabSessionInv, NEW a, a \in {auth, NoAuth}, Restart(a), UNCHANGED server
    PROVE  TabSessionInv'
<1>1. /\ session' = session /\ expired' = expired
      /\ session \in [Slots -> SessionRows] /\ AuthSound(a)
  BY StoresSound DEF server, TabSessionInv, ServerInv, ServerTyped, SessionRows
<1>2. PICK b : b = [a EXCEPT !.user = NULL]
  OBVIOUS
<1>3. /\ b \in [user : Users \cup {NULL}, access : Tokens \cup {NULL},
                refresh : Slots \cup {NULL}, role : Users \cup {NULL}]
      /\ b.access = a.access /\ b.refresh = a.refresh
  BY <1>1, <1>2 DEF AuthSound
<1>4. AuthSound(b)
  BY <1>1, <1>3 DEF AuthSound
<1>5. (\A z : Owned(z)' <=> Owned(z)) /\ (\A t : Held(t)' <=> Held(t))
  BY <1>1 DEF Owned, Held, Tokens
<1>6. auth' = b /\ global' = NoGlobal /\ seen' = NULL /\ booting' = (a.access # NULL)
  BY <1>2 DEF Restart
<1>7. PICK t : t = a.access
  OBVIOUS
<1>8. PICK n : n = Asking("load", "boot", t)
  OBVIOUS
<1>9. calls' = IF t = NULL THEN {} ELSE {n}
  BY <1>7, <1>8 DEF Restart, Asking
<1>10. t # NULL => CallSound(n) /\ n.kind = "load"
  <2>1. "load" \in Kinds /\ "load" # "login" /\ "load" # "role" /\ "boot" \in Subjects
    BY DEF Kinds, Subjects
  <2>2. ASSUME t # NULL
        PROVE  t \in Tokens \cup {NULL} /\ Held(t)
    BY <1>1, <1>7, <2>2 DEF AuthSound
  <2> QED
    BY <1>8, <2>1, <2>2, AskedSound
<1>11. \A d \in calls' : CallSound(d) /\ d.kind = "load"
  BY <1>9, <1>10
<1>12. \A d \in calls' : CallSound(d)'
  BY <1>5, <1>11 DEF CallSound, TabCalls, Tokens
<1>13. AuthSound(auth)' /\ LoginsSound(calls, auth)' /\ RoleCallsSound'
  BY <1>4, <1>5, <1>6, <1>11 DEF AuthSound, LoginsSound, RoleCallsSound, RoleCallLive, Tokens
<1>14. GlobalSound(global)'
  <2>1. GlobalSound(NoGlobal)
    BY StoresSound
  <2> QED
    BY <1>6, <2>1 DEF GlobalSound, Offered
<1>15. SeenSound'
  BY <1>3, <1>6 DEF SeenSound, Screen, ScreenOf
<1>16. ASSUME NEW m \in refreshes'
       PROVE  RenewalSound(m)' /\ ~m.live
  <2>1. PICK r \in refreshes : m = [r EXCEPT !.live = FALSE]
    BY DEF Restart
  <2>2. r \in Renewals /\ RenewalSound(r)
    BY DEF TabSessionInv, ServerInv, RenewalSound
  <2>3. m \in Renewals /\ m.live = FALSE /\ m.sess = r.sess /\ m.state = r.state
        /\ m.jti = r.jti
    BY <2>1, <2>2 DEF Renewals
  <2> QED
    BY <1>5, <2>2, <2>3 DEF RenewalSound, Renewals
<1>17. OneRenewal'
  BY <1>16 DEF OneRenewal
<1>18. ServerInv'
  BY <1>1, <1>12, <1>16, <1>17 DEF TabSessionInv, ServerInv, ServerTyped, Tokens
<1>19. booting' \in BOOLEAN
  BY <1>6
<1> QED
  BY <1>13, <1>14, <1>15, <1>18, <1>19 DEF TabSessionInv, TabInv

LEMMA ReloadStep ==
    ASSUME TabSessionInv, Reload
    PROVE  TabSessionInv'
BY Restarted DEF Reload

LEMMA GiveUpStep ==
    ASSUME TabSessionInv, NEW c \in calls, GiveUp(c)
    PROVE  TabSessionInv'
BY Restarted DEF GiveUp

\* A call that is sent again stays sound
LEMMA ResentSound ==
    ASSUME NEW c, CallSound(c), NEW t, Held(t), NEW d, d = Resent(c, t)
    PROVE  /\ CallSound(d) /\ d.kind = c.kind /\ d.of = c.of
           /\ RoleCallLive(d) => RoleCallLive(c)
           /\ c.kind = "login" => d = c
<1>1. c \in TabCalls /\ t \in Tokens /\ "sent" \in CallStates
  BY DEF CallSound, Held, CallStates
<1>2. CASE c.state # "waiting"
  BY <1>2 DEF Resent
<1>3. CASE c.state = "waiting"
  <2>1. d = [c EXCEPT !.state = "sent", !.token = t]
    BY <1>3 DEF Resent
  <2>2. /\ d \in TabCalls /\ d.kind = c.kind /\ d.of = c.of /\ d.live = c.live
        /\ d.token = t /\ d.state = "sent"
    BY <1>1, <2>1 DEF TabCalls
  <2>3. c.kind # "login"
    BY <1>3 DEF CallSound
  <2> QED
    BY <2>2, <2>3 DEF CallSound, RoleCallLive
<1> QED
  BY <1>2, <1>3

LEMMA SettleRefreshStep ==
    ASSUME TabSessionInv, NEW r \in refreshes, SettleRefresh(r)
    PROVE  TabSessionInv'
<1>1. r.live /\ r \in Renewals /\ RenewalSound(r) /\ Owned(r.sess) /\ UNCHANGED server
  BY DEF SettleRefresh, TabSessionInv, ServerInv, RenewalSound
<1>2. CASE r.state = "failed"
  <2>1. Restart(NoAuth)
    BY <1>2 DEF SettleRefresh
  <2> QED
    BY <1>1, <2>1, Restarted
<1>3. CASE r.state = "ok"
  <2>1. PICK t : t = [sess |-> r.sess, jti |-> r.jti]
    OBVIOUS
  <2>2. t \in Tokens /\ t.sess = r.sess /\ t.jti = r.jti /\ Held(t)
    BY <1>1, <1>3, <2>1 DEF RenewalSound, Tokens, Held, Owned
  <2>3. PICK u \in Users : u = session[r.sess].user
    BY <1>1 DEF Owned
  <2>4. PICK a : a = [auth EXCEPT !.access = t, !.role = u]
    OBVIOUS
  <2>5. PICK cs : cs = {Resent(c, t) : c \in calls}
    OBVIOUS
  <2>6. Show(a, booting, global, cs) /\ refreshes' = refreshes \ {r}
    BY <1>3, <2>1, <2>3, <2>4, <2>5 DEF SettleRefresh
  <2>7. /\ a \in [user : Users \cup {NULL}, access : Tokens \cup {NULL},
                  refresh : Slots \cup {NULL}, role : Users \cup {NULL}]
        /\ a.access = t /\ a.refresh = auth.refresh
    BY <2>2, <2>4, StoresSound DEF AuthSound
  <2>8. AuthSound(a)
    <3>1. t # NULL
      BY <2>2, ConsoleAssumption DEF Tokens
    <3> QED
      BY <2>2, <2>7, <3>1, StoresSound DEF AuthSound
  <2>9. ASSUME NEW d \in cs
        PROVE  \E c \in calls : /\ CallSound(d) /\ d.kind = c.kind /\ d.of = c.of
                                /\ RoleCallLive(d) => RoleCallLive(c)
                                /\ c.kind = "login" => d = c
    <3>1. PICK c \in calls : d = Resent(c, t)
      BY <2>5
    <3>2. CallSound(c)
      BY StoresSound
    <3> QED
      BY <2>2, <3>1, <3>2, ResentSound
  <2>10. LoginsSound(cs, a)
    <3>1. LoginsSound(calls, auth)
      BY StoresSound
    <3> QED
      BY <2>7, <2>9, <3>1 DEF LoginsSound
  <2>11. \A d \in cs : CallSound(d)
    BY <2>9
  <2>12. \A d \in cs : RoleCallLive(d) => Screen = "app" /\ d.of = global.project
    BY <2>9, StoresSound
  <2>13. session \in [Slots -> SessionRows] /\ session' = session
    BY <1>1 DEF TabSessionInv, ServerInv, ServerTyped, SessionRows, server
  <2>14. \A z : Owned(z)' <=> Owned(z)
    BY <2>13 DEF Owned
  <2>15. ASSUME NEW q \in refreshes'
         PROVE  RenewalSound(q)'
    <3>1. q \in refreshes /\ q # r /\ RenewalSound(q)
      BY <2>6 DEF TabSessionInv, ServerInv
    <3>2. ~q.live
      BY <1>1, <3>1 DEF TabSessionInv, ServerInv, OneRenewal
    <3> QED
      BY <2>14, <3>1, <3>2 DEF RenewalSound, Renewals
  <2>16. refreshes' \subseteq refreshes
    BY <2>6
  <2> QED
    BY <1>1, <2>6, <2>8, <2>10, <2>11, <2>12, <2>15, <2>16, StoresSound, ShowSound
<1>4. r.state \in {"ok", "failed"}
  BY DEF SettleRefresh
<1> QED
  BY <1>2, <1>3, <1>4

-----------------------------------------------------------------------------
LEMMA TabSessionInit ==
    ASSUME Init
    PROVE  TabSessionInv
<1>1. ServerTyped
  <2>1. PICK x : x = [user |-> NULL, alive |-> FALSE, jti |-> 1]
    OBVIOUS
  <2>2. 1 \in 1..MaxJti
    BY ConsoleAssumption
  <2>3. x \in [user : Users \cup {NULL}, alive : BOOLEAN, jti : 1..MaxJti]
    BY <2>1, <2>2
  <2>4. session = [s \in Slots |-> x] /\ expired = {}
    BY <2>1 DEF Init
  <2> QED
    BY <2>3, <2>4 DEF ServerTyped
<1>2. AuthSound(auth) /\ GlobalSound(global) /\ auth.access = NULL
  <2>1. << >> \in Seq(Projects)
    OBVIOUS
  <2> QED
    BY <2>1 DEF Init, NoAuth, NoGlobal, AuthSound, GlobalSound
<1>3. SeenSound
  BY <1>2 DEF Init, SeenSound, Screen, ScreenOf
<1> QED
  BY <1>1, <1>2, <1>3 DEF Init, TabSessionInv, ServerInv, TabInv, OneRenewal, LoginsSound,
                          RoleCallsSound

LEMMA TabSessionStep ==
    ASSUME TabSessionInv, [Next]_vars
    PROVE  TabSessionInv'
<1>1. CASE UNCHANGED vars
  <2>1. /\ session \in [Slots -> SessionRows]
        /\ UNCHANGED <<session, expired, client, refreshes, calls>>
    BY <1>1 DEF vars, client, TabSessionInv, ServerInv, ServerTyped, SessionRows
  <2> QED
    BY <2>1, CallsMove, StoresSound
<1>2. CASE CallPage
  BY <1>2, CallPageStep
<1>3. CASE Reload
  BY <1>3, ReloadStep
<1>4. CASE \E u \in Users : Submit(u)
  BY <1>4, SubmitStep
<1>5. CASE \E from \in {"header", "account"} : ClickLogout(from)
  BY <1>5, ClickLogoutStep
<1>6. CASE \E k \in {CompanyOf[p] : p \in Projects} \cup {NULL} : SelectCompany(k)
  BY <1>6, SelectCompanyStep
<1>7. CASE \E p \in Projects \cup {NULL} : SelectProject(p)
  BY <1>7, SelectProjectStep
<1>8. ASSUME NEW c \in calls, Serve(c) \/ Lose(c)
      PROVE  TabSessionInv'
  BY <1>8, ServeStep, LoseStep
<1>9. ASSUME NEW c \in calls, Arrives(c)
      PROVE  TabSessionInv'
  BY <1>9, AwaitRefreshStep, GiveUpStep, LoggedInStep, SessionLoadedStep, LoadFailedStep,
     RoleArrivedStep, LoggedOutStep, PageAnsweredStep DEF Arrives
<1>10. ASSUME NEW r \in refreshes, ServeRefresh(r) \/ LoseRefresh(r) \/ SettleRefresh(r)
       PROVE  TabSessionInv'
  BY <1>10, ServeRefreshStep, LoseRefreshStep, SettleRefreshStep
<1>11. CASE \E t \in InUse \ expired : Expire(t)
  BY <1>11, ExpireStep
<1>12. CASE \E s \in {t.sess : t \in InUse} : EndSession(s)
  BY <1>12, EndSessionStep
<1> QED
  BY <1>1, <1>2, <1>3, <1>4, <1>5, <1>6, <1>7, <1>8, <1>9, <1>10, <1>11, <1>12 DEF Next

\* The stores, the requests and the renewals are sound together: what is shown
\* was fetched for what is selected, one renewal is shared (client.ts, session.ts,
\* useProjectRoleSync.ts).
LEMMA TabSessionAlways == Spec => []TabSessionInv
<1>1. Init => TabSessionInv
  BY TabSessionInit
<1>2. TabSessionInv /\ [Next]_vars => TabSessionInv'
  BY TabSessionStep
<1> QED
  BY <1>1, <1>2, PTL DEF Spec

\* Whatever answers arrive after the selection has moved on, the header acts for
\* an offered project in the role held there (useProjectRoleSync.ts, session.ts).
THEOREM SelectionIsSound == Spec => []SelectionSound
<1>1. TabSessionInv => SelectionSound
  BY DEF TabSessionInv, TabInv, GlobalSound, SelectionSound, RoleIsOfSelection,
         SelectionIsOffered
<1> QED
  BY <1>1, TabSessionAlways, PTL

\* Every store, request and renewal of the tab has its type.
THEOREM TabTyped == Spec => []TypeOK
<1>1. TabSessionInv => TypeOK
  BY DEF TabSessionInv, ServerInv, TabInv, ServerTyped, AuthSound, GlobalSound, CallSound,
         TabCalls, RenewalSound, Renewals, TypeOK
<1> QED
  BY <1>1, TabSessionAlways, PTL

-----------------------------------------------------------------------------
(* The token of the store is only replaced by a login and by a renewal     *)

LEMMA NewTokenIsNewest ==
    ASSUME TabSessionInv, [Next]_vars, auth'.access \notin {NULL, auth.access},
           \A r \in refreshes : r.live
    PROVE  auth'.access = Token(auth'.access.sess)
<1>1. AuthSound(auth)
  BY StoresSound
<1>2. ASSUME NEW a, NEW spinner, NEW g, NEW cs, Show(a, spinner, g, cs)
      PROVE  auth' = a
  BY <1>2, Shown
<1>3. ASSUME NEW a, a \in {auth, NoAuth}, Restart(a)
      PROVE  auth'.access \in {NULL, auth.access}
  BY <1>1, <1>3 DEF Restart, AuthSound, NoAuth
<1>4. UNCHANGED auth \/ auth' = NoAuth => FALSE
  BY DEF NoAuth
<1>5. PICK n : n = auth'.access
  OBVIOUS
<1>6. ASSUME NEW c \in calls, LoggedIn(c)
      PROVE  auth'.access = Token(auth'.access.sess)
  <2>1. c \in TabCalls /\ CallSound(c) /\ c.kind = "login" /\ c.state = "ok"
        /\ c.token \in Tokens /\ session[c.token.sess].jti = c.token.jti
    BY <1>6 DEF TabSessionInv, ServerInv, CallSound, LoggedIn, Held
  <2>2. auth' = [auth EXCEPT !.access = c.token, !.refresh = c.token.sess, !.role = c.of]
    BY <1>2, <1>6 DEF LoggedIn
  <2>3. auth'.access = c.token
    BY <1>1, <2>2 DEF AuthSound
  <2>4. c.token = [sess |-> c.token.sess, jti |-> c.token.jti]
    BY <2>1 DEF Tokens
  <2> QED
    BY <2>1, <2>3, <2>4 DEF Token
<1>7. ASSUME NEW r \in refreshes, SettleRefresh(r)
      PROVE  auth'.access = Token(auth'.access.sess)
  <2>1. RenewalSound(r) /\ r.live
    BY <1>7 DEF TabSessionInv, ServerInv, SettleRefresh
  <2>2. CASE r.state = "failed"
    BY <1>3, <1>7, <2>2 DEF SettleRefresh
  <2>3. CASE r.state = "ok"
    <3>1. r.jti = session[r.sess].jti
      BY <2>1, <2>3 DEF RenewalSound
    <3>2. PICK t : t = [sess |-> r.sess, jti |-> r.jti]
      OBVIOUS
    <3>3. auth' = [auth EXCEPT !.access = t, !.role = session[r.sess].user]
      BY <1>2, <1>7, <2>3, <3>2 DEF SettleRefresh
    <3>4. auth'.access = t
      BY <1>1, <3>3 DEF AuthSound
    <3>5. t = Token(r.sess) /\ t.sess = r.sess
      BY <3>1, <3>2 DEF Token
    <3> QED
      BY <3>4, <3>5
  <2> QED
    BY <1>7, <2>2, <2>3 DEF SettleRefresh
<1>8. ASSUME NEW c \in calls, Loaded(c)
      PROVE  FALSE
  <2>1. auth' = [auth EXCEPT !.user = session[c.token.sess].user]
    BY <1>2, <1>8 DEF Loaded
  <2> QED
    BY <1>1, <2>1 DEF AuthSound
<1>9. ASSUME NEW c \in calls, Arrives(c), ~LoggedIn(c)
      PROVE  FALSE
  <2>1. CASE AwaitRefresh(c) \/ Answered(c)
    BY <1>4, <2>1 DEF AwaitRefresh, Answered, client
  <2>2. CASE GiveUp(c)
    BY <1>3, <2>2 DEF GiveUp
  <2>3. CASE LoadFailed(c)
    BY <1>2, <1>4, <2>3 DEF LoadFailed
  <2>4. CASE RoleArrived(c)
    BY <1>2, <1>4, <2>4 DEF RoleArrived
  <2>5. CASE LoggedOut(c)
    BY <1>2, <1>4, <2>5 DEF LoggedOut
  <2> QED
    BY <1>8, <1>9, <2>1, <2>2, <2>3, <2>4, <2>5 DEF Arrives
<1>10. ASSUME \/ CallPage \/ UNCHANGED vars
              \/ \E u \in Users : Submit(u)
              \/ \E from \in {"header", "account"} : ClickLogout(from)
              \/ \E c \in calls : Serve(c) \/ Lose(c)
              \/ \E r \in refreshes : ServeRefresh(r) \/ LoseRefresh(r)
              \/ \E t \in InUse \ expired : Expire(t)
              \/ \E s \in {t.sess : t \in InUse} : EndSession(s)
       PROVE  FALSE
  BY <1>4, <1>10 DEF CallPage, vars, Submit, ClickLogout, Serve, Lose, ServeRefresh,
                     LoseRefresh, Expire, EndSession, client
<1>11. ASSUME Reload
       PROVE  FALSE
  BY <1>3, <1>11 DEF Reload
<1>12. ASSUME \/ \E k \in {CompanyOf[p] : p \in Projects} \cup {NULL} : SelectCompany(k)
              \/ \E p \in Projects \cup {NULL} : SelectProject(p)
       PROVE  FALSE
  BY <1>2, <1>4, <1>12 DEF SelectCompany, SelectProject
<1> QED
  BY <1>6, <1>7, <1>9, <1>10, <1>11, <1>12 DEF Next

\* A renewal never puts a superseded token in the store, unless a reload had
\* orphaned another (client.ts's refreshPromise).
THEOREM NewestIsStored == Spec => StoredTokenIsNewest
<1>1. TabSessionInv /\ [Next]_vars =>
        [auth'.access \notin {NULL, auth.access} /\ (\A r \in refreshes : r.live)
           => auth'.access = Token(auth'.access.sess)]_vars
  BY NewTokenIsNewest
<1> QED
  BY <1>1, TabSessionAlways, PTL DEF Spec, StoredTokenIsNewest

-----------------------------------------------------------------------------
(* MCConsole: the four side by side                                        *)

LEMMA ConsoleApart ==
    ASSUME [ConsoleNext]_<<part, vars, screenVars, listVars, exportVars>>
    PROVE  /\ [Next]_vars /\ [ScreenNext]_screenVars
           /\ [ListNext]_listVars /\ [ExportNext]_exportVars
BY DEF ConsoleNext, Only

\* Session, campaign screen, lists and export keep their types, whichever of the
\* four a behaviour explores.
THEOREM ConsoleTyped == ConsoleSpec => []ConsoleTypeOK
<1>1. ConsoleInit => Init /\ ScreenInit /\ ListInit /\ ExportInit
  BY DEF ConsoleInit
<1>2. ConsoleSpec => Spec /\ ScreenSpec /\ ListSpec /\ ExportSpec
  BY <1>1, ConsoleApart, PTL DEF ConsoleSpec, Spec, ScreenSpec, ListSpec, ExportSpec
<1>3. TypeOK /\ ScreenTypeOK /\ ListTypeOK /\ ExportTypeOK => ConsoleTypeOK
  BY DEF ConsoleTypeOK
<1> QED
  BY <1>2, <1>3, TabTyped, ScreenTyped, ListsTyped, ExportTypes, PTL

=============================================================================
