------------------------------- MODULE History --------------------------------
(***************************************************************************)
(* What DreamPie keeps of the history: the recall of commands with the     *)
(* keys (HistoryNav, which this module extends) and the file that the      *)
(* history is saved in (HistPersist), and the proofs about both.           *)
(***************************************************************************)
EXTENDS HistoryNav, FiniteSetTheorems, WellFoundedInduction, TLAPS

CONSTANTS
  FileNames, InitialFiles, Absent, None, MaxItems  \* of HistPersist

VARIABLES
  pc, target, fromQuit, items, modified, filename, title, files, askOnQuit, nextItem, failed

Persist == INSTANCE HistPersist WITH Files <- FileNames, hist <- items

ASSUME PersistAssumption == Persist!ConstantsFit

\* HistPersist: a history that has a file contains all that the file holds, the title has
\* a star exactly if they differ, and a history that is not marked as modified is in a
\* file, unless a write failed since it was saved.
HistoryIsRight ==
  /\ Persist!TypeOK
  /\ Persist!FileInHistory /\ Persist!StarTellsModified /\ Persist!UnmodifiedIsSaved

\* HistPersist: quitting loses no history that the user did not give up, unless a write
\* failed, and a file changes into the history that is shown or parts of it only.
QuitKeepsHistory == Persist!QuitKeepsHistory /\ Persist!FilesHoldParts

-----------------------------------------------------------------------------
\* A set of numbers that is not empty and lies between two has a least element, Min.
LEMMA MinOf ==
  ASSUME NEW a \in Int, NEW b \in Int, NEW S \in SUBSET (a .. b), S # {}
  PROVE  Min(S) \in S /\ \A y \in S : Min(S) <= y
<1> DEFINE UpTo(x) == {y \in S : y <= x}
           T == {UpTo(x) : x \in S}
           R == StrictSubsetOrdering(a .. b)
<1>1. FiniteSubsetsOf(a .. b) = SUBSET (a .. b)
  BY FS_Interval, FS_FiniteSubsetsOfFinite
<1>2. IsWellFoundedOn(R, SUBSET (a .. b))
  BY <1>1, FS_StrictSubsetOrderingWellFounded
<1>3. T \subseteq SUBSET (a .. b) /\ T # {}
  OBVIOUS
<1>4. PICK t \in T : \A u \in T : ~(<<u, t>> \in R)
  <2> HIDE DEF T, R
  <2> QED
    BY <1>2, <1>3, WFMin
<1>5. PICK x \in S : t = UpTo(x)
  OBVIOUS
<1>6. ASSUME NEW y \in S, y < x PROVE FALSE
  <2>0. S \subseteq Int
    OBVIOUS
  <2>1. UpTo(y) \subseteq UpTo(x) /\ x \in UpTo(x) /\ x \notin UpTo(y)
    <3>1. \A z \in S : z <= y => z <= x
      BY <2>0, <1>6
    <3>2. x <= x /\ ~(x <= y)
      BY <2>0, <1>6
    <3> QED
      BY <3>1, <3>2
  <2>2. <<UpTo(y), UpTo(x)>> \in R
    BY <2>1 DEF StrictSubsetOrdering
  <2> QED
    BY <1>4, <1>5, <2>2
<1>7. \A y \in S : x <= y
  BY <1>6
<1> QED
  BY <1>7 DEF Min

\* And a greatest one, Max.
LEMMA MaxOf ==
  ASSUME NEW a \in Int, NEW b \in Int, NEW S \in SUBSET (a .. b), S # {}
  PROVE  Max(S) \in S /\ \A y \in S : y <= Max(S)
<1> DEFINE N == {a + b - y : y \in S}
<1>0. \A y \in S : y \in Int /\ a <= y /\ y <= b
  OBVIOUS
<1>1. N \in SUBSET (a .. b) /\ N # {}
  <2>1. \A y \in S : a + b - y \in a .. b
    BY <1>0
  <2> QED
    BY <2>1
<1>2. Min(N) \in N /\ \A y \in N : Min(N) <= y
  <2> HIDE DEF N
  <2> QED
    BY <1>1, MinOf
<1>3. PICK x \in S : Min(N) = a + b - x
  BY <1>2
<1>4. ASSUME NEW y \in S PROVE x >= y
  <2>1. a + b - x <= a + b - y
    BY <1>2, <1>3
  <2>2. x \in Int /\ y \in Int
    BY <1>0
  <2> QED
    BY <2>1, <2>2
<1>5. \A y \in S : Max(S) >= y /\ Max(S) \in S
  BY <1>4 DEF Max
<1> QED
  BY <1>0, <1>5

-----------------------------------------------------------------------------
\* A command of the text view is a text that is not empty, and its hash is one of Hash's.
LEMMA CommandType ==
  ASSUME TypeOK, NEW i \in 1 .. Len(hist)
  PROVE  hist[i] \in Texts \ {Blank} /\ Hash[hist[i]] \in Range(Hash)
<1>1. hist[i] \in Texts \ {Blank}
  BY DEF TypeOK
<1>2. DOMAIN Hash = Texts
  BY CommandsAssumption
<1> QED
  BY <1>1, <1>2 DEF Range

\* Counting some of the commands keeps the counts of their type, loses no hash, and
\* leaves a count for the hash of each of the commands.
LEMMA CountedType ==
  ASSUME TypeOK, NEW c, DOMAIN c \subseteq Range(Hash), \A h \in DOMAIN c : c[h] \in Int,
         NEW places \in SUBSET (1 .. Len(hist)), NEW n \in Int
  PROVE  LET d == Counted(c, places, n) IN
         /\ DOMAIN d = DOMAIN c \cup {Hash[hist[i]] : i \in places}
         /\ DOMAIN d \subseteq Range(Hash)
         /\ \A h \in DOMAIN d : d[h] \in Int
<1>1. DOMAIN Counted(c, places, n) = DOMAIN c \cup {Hash[hist[i]] : i \in places}
  BY DEF Counted
<1>2. {Hash[hist[i]] : i \in places} \subseteq Range(Hash)
  BY CommandType
<1>3. ASSUME NEW h PROVE Cardinality(Of(h, places)) \in Int
  <2>1. Len(hist) \in Int
    BY DEF TypeOK
  <2>2. IsFiniteSet(1 .. Len(hist))
    BY <2>1, FS_Interval
  <2>3. Of(h, places) \in SUBSET (1 .. Len(hist))
    BY DEF Of
  <2>4. IsFiniteSet(Of(h, places))
    BY <2>2, <2>3, FS_Subset
  <2> QED
    BY <2>4, FS_CardinalityType
<1>4. ASSUME NEW h PROVE Count(c, h) \in Int
  BY DEF Count
<1>5. ASSUME NEW h \in DOMAIN Counted(c, places, n) PROVE Counted(c, places, n)[h] \in Int
  <2>1. Counted(c, places, n)[h] = Count(c, h) + n * Cardinality(Of(h, places))
    BY <1>1 DEF Counted
  <2>2. Count(c, h) \in Int /\ Cardinality(Of(h, places)) \in Int
    BY <1>3, <1>4
  <2>3. n * Cardinality(Of(h, places)) \in Int
    BY <2>2
  <2> QED
    BY <2>1, <2>2, <2>3
<1> QED
  BY <1>1, <1>2, <1>5

\* A search that begins at the end has nothing counted; one in progress has what it counted.
LEMMA UpCountType ==
  ASSUME RecallIsRight
  PROVE  /\ DOMAIN UpCount \subseteq Range(Hash) /\ \A h \in DOMAIN UpCount : UpCount[h] \in Int
         /\ UpMark = End => DOMAIN UpCount = {}
         /\ searching => UpCount = count
<1>1. DOMAIN NoCount = {}
  BY DEF NoCount
<1>2. DOMAIN count \subseteq Range(Hash) /\ \A h \in DOMAIN count : count[h] \in Int
  BY DEF RecallIsRight, TypeOK
<1>3. searching /\ mark = End => DOMAIN count = {}
  BY DEF RecallIsRight, TextIsCounted
<1> QED
  BY <1>1, <1>2, <1>3 DEF UpCount, UpMark

\* A search that counted nothing stops at the last command that matches, if there is one.
LEMMA FirstStop ==
  ASSUME TypeOK, DOMAIN UpCount = {}, Behind(UpMark, UpPrefix) # {}
  PROVE  UpStops # {}
<1> DEFINE Walk == Behind(UpMark, UpPrefix)
           last == Max(Walk)
           from == {j \in Walk : j >= last}
<1>1. Len(hist) \in Int /\ Walk \in SUBSET (1 .. Len(hist))
  BY DEF TypeOK, Behind
<1>2. last \in Walk /\ \A j \in Walk : j <= last
  <2>1. Walk # {}
    OBVIOUS
  <2>2. 1 \in Int
    OBVIOUS
  <2> HIDE DEF Walk
  <2> QED
    BY <1>1, <2>1, <2>2, MaxOf
<1>3. Of(Hash[hist[last]], from) = {last}
  <2> HIDE DEF last, Walk
  <2>1. \A j \in Walk : j \in Int
    BY <1>1
  <2>2. from = {last}
    BY <1>2, <2>1
  <2> HIDE DEF from
  <2> QED
    BY <2>2 DEF Of
<1>4. Count(UpCount, Hash[hist[last]]) = 0
  BY DEF Count
<1>5. Cardinality(Of(Hash[hist[last]], from)) = 1
  BY <1>3, FS_Singleton
<1>6. Count(UpCount, Hash[hist[last]]) + Cardinality(Of(Hash[hist[last]], from)) = 1
  BY <1>4, <1>5
<1> QED
  BY <1>2, <1>6 DEF UpStops

-----------------------------------------------------------------------------
\* RecallIsRight holds when the program starts.
LEMMA RecallInit == Init => RecallIsRight
<1> SUFFICES ASSUME Init PROVE RecallIsRight
  OBVIOUS
<1>1. hist = <<>> /\ text = Blank /\ prefix = Blank /\ searching = FALSE
      /\ mark = End /\ atText = FALSE /\ count = NoCount
  BY DEF Init
<1>2. DOMAIN NoCount = {}
  BY DEF NoCount
<1>3. hist \in Seq(Texts \ {Blank}) /\ Len(hist) = 0
  BY <1>1
<1>4. MaxHist \in Nat /\ Blank \in Texts /\ Blank \in OneLine
  BY CommandsAssumption
<1>5. mark \in 1 .. End
  BY <1>1, <1>4 DEF End
<1>6. DOMAIN count \subseteq Range(Hash) /\ \A h \in DOMAIN count : count[h] \in Int
  BY <1>1, <1>2
<1>7. TypeOK
  <2>1. Len(hist) <= MaxHist
    BY <1>3, <1>4
  <2>2. text \in Texts /\ prefix \in OneLine /\ searching \in BOOLEAN /\ atText \in BOOLEAN
    BY <1>1, <1>4
  <2>3. mark = End
    BY <1>1
  <2> QED
    BY <1>3, <1>5, <1>6, <2>1, <2>2, <2>3 DEF TypeOK
<1> QED
  BY <1>1, <1>2, <1>7 DEF RecallIsRight, WalkedIsCounted, TextIsCounted, ShowsAMatch

\* A step that ends the search and leaves the view and the counts alone.
LEMMA SearchEnds ==
  ASSUME RecallIsRight, text' \in Texts, searching' = FALSE,
         UNCHANGED <<hist, prefix, mark, atText, count>>
  PROVE  RecallIsRight'
<1>1. TypeOK'
  BY DEF RecallIsRight, TypeOK, End
<1> QED
  BY <1>1 DEF RecallIsRight, WalkedIsCounted, TextIsCounted, ShowsAMatch

\* What is executed is appended, and is counted if a search goes on over it.
LEMMA ExecuteKeeps == ASSUME RecallIsRight, Execute PROVE RecallIsRight'
<1>1. /\ text # Blank /\ Len(hist) < MaxHist /\ hist' = Append(hist, text)
      /\ UNCHANGED <<prefix, mark, atText, count>>
      /\ (text' = text /\ searching' = searching) \/ (text' = Blank /\ searching' = FALSE)
  BY DEF Execute
<1>2. /\ hist \in Seq(Texts \ {Blank}) /\ text \in Texts /\ mark \in 1 .. End
      /\ (mark = End \/ mark <= Len(hist) + 1) /\ Len(hist) \in Nat /\ searching \in BOOLEAN
  BY DEF RecallIsRight, TypeOK
<1>3. MaxHist \in Nat /\ Blank \in Texts
  BY CommandsAssumption
<1>4. hist' \in Seq(Texts \ {Blank}) /\ Len(hist') = Len(hist) + 1
      /\ \A i \in 1 .. Len(hist') : hist'[i] = IF i = Len(hist) + 1 THEN text ELSE hist[i]
  BY <1>1, <1>2
<1>5. TypeOK'
  <2>1. Len(hist') <= MaxHist /\ (mark' = End \/ mark' <= Len(hist') + 1)
    BY <1>1, <1>2, <1>3, <1>4
  <2> QED
    BY <1>1, <1>2, <1>3, <1>4, <2>1 DEF RecallIsRight, TypeOK, End
<1>6. ASSUME searching', NEW i \in Ahead(mark, prefix)' PROVE Hash[hist'[i]] \in DOMAIN count'
  <2>1. searching /\ count' = count
    BY <1>1, <1>6
  <2>2. i \in 1 .. Len(hist) + 1 /\ mark <= i /\ hist'[i] \in Matches[prefix]
    BY <1>1, <1>4, <1>6 DEF Ahead
  <2>3. CASE i = Len(hist) + 1
    <3>1. mark # End
      BY <1>1, <1>2, <1>3, <2>2, <2>3 DEF End
    <3>2. Hash[text] \in DOMAIN count
      BY <1>1, <2>1, <3>1 DEF RecallIsRight, TextIsCounted
    <3> QED
      BY <1>4, <2>1, <2>2, <2>3, <3>2
  <2>4. CASE i # Len(hist) + 1
    <3>1. i \in Ahead(mark, prefix) /\ hist'[i] = hist[i]
      BY <1>2, <1>4, <2>2, <2>4 DEF Ahead
    <3> QED
      BY <2>1, <3>1 DEF RecallIsRight, WalkedIsCounted
  <2> QED
    BY <2>3, <2>4
<1>7. WalkedIsCounted'
  BY <1>6 DEF WalkedIsCounted
<1>8. TextIsCounted' /\ ShowsAMatch'
  BY <1>1 DEF RecallIsRight, TextIsCounted, ShowsAMatch, End
<1> QED
  BY <1>5, <1>7, <1>8 DEF RecallIsRight

\* The walk up: what it walks over is counted, and where it stops is a match.
LEMMA HistoryUpKeeps == ASSUME RecallIsRight, HistoryUp PROVE RecallIsRight'
<1> DEFINE stop == IF UpStops = {} THEN 0 ELSE Max(UpStops)
           walked == {i \in Behind(UpMark, UpPrefix) : i >= stop}
           marks == walked \cup {UpMark}
<1>1. /\ searching \/ text \in OneLine
      /\ prefix' = UpPrefix /\ searching' = TRUE /\ hist' = hist
      /\ text' = IF UpStops = {} THEN text ELSE hist[stop]
      /\ mark' = Min(marks) /\ atText' = (searching /\ atText /\ walked = {})
      /\ count' = Counted(UpCount, walked, 1)
  BY DEF HistoryUp
<1>2. /\ hist \in Seq(Texts \ {Blank}) /\ text \in Texts /\ mark \in 1 .. End
      /\ (mark = End \/ mark <= Len(hist) + 1) /\ Len(hist) \in Nat /\ Len(hist) <= MaxHist
      /\ searching \in BOOLEAN /\ prefix \in OneLine
  BY DEF RecallIsRight, TypeOK
<1>3. MaxHist \in Nat /\ End = MaxHist + 2 /\ End \in Int
  BY CommandsAssumption DEF End
<1>4. /\ UpMark \in 1 .. End /\ (UpMark = End \/ UpMark <= Len(hist) + 1)
      /\ UpPrefix \in OneLine
  BY <1>1, <1>2, <1>3 DEF UpMark, UpPrefix
<1>5. walked \in SUBSET (1 .. Len(hist)) /\ \A i \in walked : i < UpMark
  BY DEF Behind
<1>6. mark' \in marks /\ \A i \in marks : mark' <= i
  <2>1. marks \in SUBSET (1 .. End) /\ marks # {}
    BY <1>2, <1>3, <1>4, <1>5
  <2>2. 1 \in Int /\ End \in Int /\ mark' = Min(marks)
    BY <1>1, <1>3
  <2> HIDE DEF marks
  <2> QED
    BY <2>1, <2>2, MinOf
<1>7. UpStops # {} => stop \in UpStops /\ stop \in Behind(UpMark, UpPrefix)
  <2>1. UpStops \in SUBSET (1 .. Len(hist)) /\ UpStops \subseteq Behind(UpMark, UpPrefix)
    BY DEF UpStops, Behind
  <2>2. Len(hist) \in Int /\ 1 \in Int
    BY <1>2
  <2>3. UpStops # {} => Max(UpStops) \in UpStops
    BY <2>1, <2>2, MaxOf
  <2> QED
    BY <2>1, <2>3
<1> HIDE DEF stop
<1>8. /\ DOMAIN count' = DOMAIN UpCount \cup {Hash[hist[i]] : i \in walked}
      /\ DOMAIN count' \subseteq Range(Hash) /\ \A h \in DOMAIN count' : count'[h] \in Int
  <2>1. DOMAIN UpCount \subseteq Range(Hash) /\ (\A h \in DOMAIN UpCount : UpCount[h] \in Int)
    BY UpCountType
  <2>2. TypeOK /\ 1 \in Int
    BY DEF RecallIsRight
  <2> HIDE DEF walked
  <2> QED
    BY <1>1, <1>5, <2>1, <2>2, CountedType
<1>9. TypeOK'
  <2>1. text' \in Texts
    BY <1>1, <1>2, <1>7 DEF Behind
  <2>2. mark' \in 1 .. End /\ (mark' = End \/ mark' <= Len(hist) + 1)
    BY <1>2, <1>3, <1>4, <1>5, <1>6
  <2>3. searching' \in BOOLEAN /\ atText' \in BOOLEAN /\ prefix' \in OneLine
    BY <1>1, <1>4
  <2>4. hist' = hist /\ End' = End
    BY <1>1 DEF End
  <2> QED
    BY <1>2, <1>8, <2>1, <2>2, <2>3, <2>4 DEF TypeOK
<1>10. ASSUME NEW i \in Ahead(mark, prefix)' PROVE Hash[hist'[i]] \in DOMAIN count'
  <2>1. i \in 1 .. Len(hist) /\ mark' <= i /\ hist[i] \in Matches[UpPrefix] /\ hist' = hist
    BY <1>1 DEF Ahead
  <2>2. CASE i < UpMark
    <3>1. i \in Behind(UpMark, UpPrefix)
      BY <2>1, <2>2 DEF Behind
    <3>2. mark' \in walked
      BY <1>4, <1>6, <2>1, <2>2
    <3>3. stop \in Int
      BY <1>7 DEF stop, Behind
    <3>4. i >= stop
      BY <1>5, <2>1, <3>2, <3>3
    <3> QED
      BY <1>8, <2>1, <3>1, <3>4
  <2>3. CASE ~(i < UpMark)
    <3>1. searching /\ i \in Ahead(mark, prefix)
      BY <1>2, <1>3, <1>4, <2>1, <2>3 DEF UpMark, UpPrefix, Ahead
    <3>2. Hash[hist[i]] \in DOMAIN count
      BY <3>1 DEF RecallIsRight, WalkedIsCounted
    <3> QED
      BY <1>8, <2>1, <3>1, <3>2, UpCountType
  <2> QED
    BY <2>2, <2>3
<1>11. TextIsCounted'
  <2>1. CASE mark' = End
    <3>1. walked = {} /\ UpMark = End
      BY <1>2, <1>3, <1>4, <1>5, <1>6, <2>1
    <3> QED
      BY <1>8, <2>1, <3>1, UpCountType DEF TextIsCounted, End
  <2>2. CASE mark' # End /\ UpStops # {}
    <3>1. Hash[hist[stop]] \in DOMAIN count'
      <4>1. stop \in Behind(UpMark, UpPrefix) /\ stop >= stop
        BY <1>7, <2>2 DEF Behind
      <4>2. stop \in walked
        BY <4>1
      <4> QED
        BY <1>8, <4>2
    <3> QED
      BY <1>1, <2>2, <3>1 DEF TextIsCounted, End
  <2>3. CASE mark' # End /\ UpStops = {} /\ UpMark # End
    <3>1. searching /\ mark # End /\ text' = text
      BY <1>1, <2>3 DEF UpMark
    <3>2. text = Blank \/ Hash[text] \in DOMAIN count
      BY <3>1 DEF RecallIsRight, TextIsCounted
    <3> QED
      BY <1>8, <2>3, <3>1, <3>2, UpCountType DEF TextIsCounted, End
  <2>4. CASE mark' # End /\ UpStops = {} /\ UpMark = End
    <3>1. Behind(UpMark, UpPrefix) # {}
      BY <1>6, <2>4
    <3>2. DOMAIN UpCount = {}
      BY <2>4, UpCountType
    <3> QED
      BY <2>4, <3>1, <3>2, FirstStop DEF RecallIsRight
  <2> QED
    BY <2>1, <2>2, <2>3, <2>4
<1>12. ShowsAMatch'
  <2>1. CASE UpStops = {}
    BY <1>1, <2>1 DEF RecallIsRight, ShowsAMatch, UpPrefix
  <2>2. CASE UpStops # {}
    <3>1. hist[stop] \in Matches[UpPrefix]
      BY <1>7, <2>2 DEF Behind
    <3> QED
      BY <1>1, <2>2, <3>1 DEF ShowsAMatch
  <2> QED
    BY <2>1, <2>2
<1> QED
  BY <1>9, <1>10, <1>11, <1>12 DEF RecallIsRight, WalkedIsCounted

\* The walk down ends at the end or at a place that it may walk over.
LEMMA DownToType ==
  ASSUME TypeOK
  PROVE  /\ DownWalk \in SUBSET (1 .. Len(hist)) /\ DownWalk \subseteq Ahead(mark, prefix)
         /\ DownTo = End \/ DownTo \in DownWalk
<1>1. DownWalk \in SUBSET (1 .. Len(hist)) /\ DownWalk \subseteq Ahead(mark, prefix)
  BY DEF DownWalk, Ahead
<1>2. ASSUME ~(Cardinality(DownStops) < 2) PROVE DownTo \in DownWalk
  <2> DEFINE first == Min(DownStops)
  <2>1. Len(hist) \in Int /\ 1 \in Int
    BY DEF TypeOK
  <2>2. DownStops \subseteq DownWalk /\ DownStops \in SUBSET (1 .. Len(hist))
    BY <1>1 DEF DownStops
  <2>3. DownStops # {first}
    <3> HIDE DEF first
    <3> QED
      BY <1>2, FS_Singleton
  <2>4. DownStops # {}
    BY <1>2, FS_EmptySet
  <2>5. DownStops \ {first} # {}
    BY <2>3, <2>4
  <2>6. DownStops \ {first} \in SUBSET (1 .. Len(hist))
    BY <2>2
  <2>7. Min(DownStops \ {first}) \in DownStops \ {first}
    <3> HIDE DEF first
    <3> QED
      BY <2>1, <2>5, <2>6, MinOf
  <2> QED
    BY <1>2, <2>2, <2>7 DEF DownTo
<1> QED
  BY <1>1, <1>2 DEF DownTo

\* The walk down: what it passes was counted, and what is ahead of it still is.
LEMMA HistoryDownKeeps == ASSUME RecallIsRight, HistoryDown PROVE RecallIsRight'
<1> DEFINE walked == {i \in DownWalk : i < DownTo}
           marks == walked \cup {mark}
<1>1. /\ searching /\ count' = Counted(count, walked, -1)
      /\ UNCHANGED <<hist, prefix, atText>>
      /\ DownTo = End => /\ text' = prefix /\ searching' = (text = Blank /\ prefix = Blank)
                        /\ mark' = Max(marks)
      /\ DownTo # End => text' = hist[DownTo] /\ mark' = DownTo /\ searching' = searching
  BY DEF HistoryDown
<1>2. /\ hist \in Seq(Texts \ {Blank}) /\ text \in Texts /\ mark \in 1 .. End
      /\ (mark = End \/ mark <= Len(hist) + 1) /\ Len(hist) \in Nat /\ Len(hist) <= MaxHist
      /\ searching \in BOOLEAN /\ prefix \in OneLine
  BY DEF RecallIsRight, TypeOK
<1>3. MaxHist \in Nat /\ End = MaxHist + 2 /\ End \in Int /\ 1 \in Int /\ OneLine \subseteq Texts
  BY CommandsAssumption DEF End
<1>4. /\ DownWalk \in SUBSET (1 .. Len(hist)) /\ DownWalk \subseteq Ahead(mark, prefix)
      /\ DownTo = End \/ DownTo \in DownWalk
  BY DownToType DEF RecallIsRight
<1>5. walked \in SUBSET (1 .. Len(hist)) /\ marks \in SUBSET (1 .. End) /\ marks # {}
  <2>1. walked \subseteq DownWalk /\ DownWalk \subseteq 1 .. Len(hist)
    BY <1>4
  <2>2. 1 .. Len(hist) \subseteq 1 .. End
    BY <1>2, <1>3
  <2> HIDE DEF walked
  <2> QED
    BY <1>2, <2>1, <2>2
<1>6. /\ DOMAIN count' = DOMAIN count \cup {Hash[hist[i]] : i \in walked}
      /\ DOMAIN count' \subseteq Range(Hash) /\ \A h \in DOMAIN count' : count'[h] \in Int
  <2>1. DOMAIN count \subseteq Range(Hash) /\ (\A h \in DOMAIN count : count[h] \in Int)
    BY DEF RecallIsRight, TypeOK
  <2>2. TypeOK /\ -1 \in Int
    BY DEF RecallIsRight
  <2> HIDE DEF walked
  <2> QED
    BY <1>1, <1>5, <2>1, <2>2, CountedType
<1>7. DownTo = End => mark' \in marks /\ \A i \in marks : i <= mark'
  <2> HIDE DEF marks
  <2> QED
    BY <1>1, <1>3, <1>5, MaxOf
<1>8. DownTo # End => /\ mark' \in DownWalk /\ mark <= mark' /\ text' = hist[mark']
                      /\ hist[mark'] \in Matches[prefix] /\ mark' # End
                      /\ Hash[hist[mark']] \in DOMAIN count
  <2> SUFFICES ASSUME DownTo # End PROVE /\ mark' \in DownWalk /\ mark <= mark'
                      /\ text' = hist[mark']
                      /\ hist[mark'] \in Matches[prefix] /\ mark' # End
                      /\ Hash[hist[mark']] \in DOMAIN count
    OBVIOUS
  <2>1. mark' \in DownWalk /\ mark' \in Ahead(mark, prefix) /\ mark' \in 1 .. Len(hist)
        /\ text' = hist[mark']
    BY <1>1, <1>4
  <2>2. mark' # End
    BY <1>2, <1>3, <2>1
  <2> QED
    BY <1>1, <2>1, <2>2 DEF Ahead, RecallIsRight, WalkedIsCounted
<1>9. mark <= mark' /\ mark' \in 1 .. End /\ (mark' = End \/ mark' <= Len(hist) + 1)
  <2>1. CASE DownTo = End
    <3>1. mark' = mark \/ mark' \in 1 .. Len(hist)
      BY <1>5, <1>7, <2>1
    <3>2. mark <= mark'
      BY <1>7, <2>1
    <3> QED
      BY <1>2, <1>3, <3>1, <3>2
  <2>2. CASE DownTo # End
    <3>1. mark' \in 1 .. Len(hist) /\ mark <= mark'
      BY <1>4, <1>8, <2>2
    <3> QED
      BY <1>2, <1>3, <3>1
  <2> QED
    BY <2>1, <2>2
<1>10. TypeOK'
  <2>1. text' \in Texts
    <3>1. CASE DownTo = End
      BY <1>1, <1>2, <1>3, <3>1
    <3>2. CASE DownTo # End
      <4>1. DownTo \in 1 .. Len(hist) /\ text' = hist[DownTo]
        BY <1>1, <1>4, <3>2
      <4> QED
        BY <1>2, <4>1
    <3> QED
      BY <3>1, <3>2
  <2>2. searching' \in BOOLEAN
    BY <1>1, <1>2
  <2>3. atText' \in BOOLEAN /\ hist' = hist /\ prefix' = prefix /\ End' = End
    BY <1>1 DEF End, RecallIsRight, TypeOK
  <2> QED
    BY <1>2, <1>6, <1>9, <2>1, <2>2, <2>3 DEF TypeOK
<1>11. ASSUME NEW i \in Ahead(mark, prefix)' PROVE Hash[hist'[i]] \in DOMAIN count'
  <2>1. i \in 1 .. Len(hist) /\ mark' <= i /\ hist[i] \in Matches[prefix] /\ hist' = hist
    BY <1>1 DEF Ahead
  <2>2. mark <= i
    BY <1>2, <1>9, <2>1
  <2>3. i \in Ahead(mark, prefix)
    BY <2>1, <2>2 DEF Ahead
  <2> QED
    BY <1>1, <1>6, <2>1, <2>3 DEF RecallIsRight, WalkedIsCounted
<1>12. TextIsCounted'
  <2>1. CASE DownTo # End
    BY <1>6, <1>8, <2>1 DEF TextIsCounted, End
  <2>2. CASE DownTo = End /\ mark' # End
    BY <1>1, <2>2 DEF TextIsCounted, End
  <2>3. CASE DownTo = End /\ mark' = End
    <3>1. mark = End
      BY <1>2, <1>3, <1>5, <1>7, <2>3
    <3>2. walked = {}
      <4>1. \A i \in DownWalk : mark <= i /\ i \in 1 .. Len(hist)
        BY <1>4 DEF Ahead
      <4>2. DownWalk = {}
        BY <1>2, <1>3, <3>1, <4>1
      <4> QED
        BY <4>2
    <3>3. DOMAIN count = {}
      BY <1>1, <3>1 DEF RecallIsRight, TextIsCounted
    <3> QED
      BY <1>6, <2>3, <3>2, <3>3 DEF TextIsCounted, End
  <2> QED
    BY <2>1, <2>2, <2>3
<1>13. ShowsAMatch'
  BY <1>1, <1>8 DEF ShowsAMatch
<1> QED
  BY <1>10, <1>11, <1>12, <1>13 DEF RecallIsRight, WalkedIsCounted

\* The oldest commands are deleted: those behind them keep their counts.
LEMMA DiscardSessionsKeeps ==
  ASSUME RecallIsRight, NEW k \in 1 .. Len(hist), DiscardSessions(k) PROVE RecallIsRight'
<1>1. /\ hist' = SubSeq(hist, k + 1, Len(hist)) /\ UNCHANGED <<text, prefix, searching, count>>
      /\ mark = End => mark' = End /\ atText' = atText
      /\ mark # End /\ mark > k => mark' = mark - k /\ atText' = atText
      /\ mark # End /\ ~(mark > k) => mark' = 1 /\ atText' = TRUE
  BY DEF DiscardSessions
<1>2. /\ hist \in Seq(Texts \ {Blank}) /\ mark \in 1 .. End /\ MaxHist \in Nat
      /\ (mark = End \/ mark <= Len(hist) + 1) /\ Len(hist) \in Nat /\ Len(hist) <= MaxHist
      /\ End = MaxHist + 2 /\ atText \in BOOLEAN
  BY CommandsAssumption DEF RecallIsRight, TypeOK, End
<1>3. hist' \in Seq(Texts \ {Blank}) /\ Len(hist') = Len(hist) - k
      /\ \A i \in 1 .. Len(hist') : hist'[i] = hist[i + k]
  <2>1. /\ hist' = SubSeq(hist, k + 1, Len(hist)) /\ hist \in Seq(Texts \ {Blank})
        /\ Len(hist) \in Nat /\ k \in 1 .. Len(hist)
    BY <1>1, <1>2
  <2> QED
    BY <2>1
<1>4. mark' \in 1 .. End /\ (mark' = End \/ mark' <= Len(hist') + 1) /\ atText' \in BOOLEAN
      /\ (mark' = End <=> mark = End)
  <2>1. CASE mark = End
    BY <1>1, <1>2, <2>1
  <2>2. CASE mark # End /\ mark > k
    <3>1. mark' = mark - k /\ atText' \in BOOLEAN
      BY <1>1, <1>2, <2>2
    <3>2. mark' \in 1 .. End /\ mark' <= Len(hist') + 1 /\ mark' # End
      BY <1>2, <1>3, <2>2, <3>1
    <3> QED
      BY <2>2, <3>1, <3>2
  <2>3. CASE mark # End /\ ~(mark > k)
    <3>1. mark' = 1 /\ atText' \in BOOLEAN
      BY <1>1, <2>3
    <3>2. mark' \in 1 .. End /\ mark' <= Len(hist') + 1 /\ mark' # End
      BY <1>2, <1>3, <3>1
    <3> QED
      BY <2>3, <3>1, <3>2
  <2> QED
    BY <2>1, <2>2, <2>3
<1>5. TypeOK'
  <2>1. Len(hist') <= MaxHist /\ End' = End
    BY <1>2, <1>3 DEF End
  <2> QED
    BY <1>1, <1>3, <1>4, <2>1 DEF RecallIsRight, TypeOK
<1>6. ASSUME searching, NEW i \in Ahead(mark, prefix)' PROVE Hash[hist'[i]] \in DOMAIN count
  <2>1. i \in 1 .. Len(hist') /\ mark' <= i /\ hist'[i] \in Matches[prefix]
    BY <1>1 DEF Ahead
  <2>2. i + k \in 1 .. Len(hist) /\ mark <= i + k
    BY <1>1, <1>2, <1>3, <2>1
  <2>3. i + k \in Ahead(mark, prefix) /\ hist'[i] = hist[i + k]
    BY <1>3, <2>1, <2>2 DEF Ahead
  <2> QED
    BY <1>6, <2>3 DEF RecallIsRight, WalkedIsCounted
<1>7. WalkedIsCounted'
  BY <1>1, <1>6 DEF WalkedIsCounted
<1>8. TextIsCounted' /\ ShowsAMatch'
  <2>1. End' = End
    BY DEF End
  <2> QED
    BY <1>1, <1>4, <2>1 DEF RecallIsRight, TextIsCounted, ShowsAMatch
<1> QED
  BY <1>5, <1>7, <1>8 DEF RecallIsRight

\* Every command is deleted: none is left to be walked over.
LEMMA DiscardAllKeeps == ASSUME RecallIsRight, DiscardAll PROVE RecallIsRight'
<1>1. /\ hist' = <<>> /\ UNCHANGED <<text, prefix, searching, count>> /\ atText' = FALSE
      /\ mark = End => mark' = End
      /\ mark # End => mark' = 1
  BY DEF DiscardAll
<1>2. MaxHist \in Nat /\ End = MaxHist + 2 /\ End' = End
  BY CommandsAssumption DEF End
<1>3. hist' \in Seq(Texts \ {Blank}) /\ Len(hist') = 0
  BY <1>1
<1>4. Len(hist') <= MaxHist /\ mark' \in 1 .. End /\ (mark' = End \/ mark' <= Len(hist') + 1)
      /\ (mark' = End <=> mark = End)
  BY <1>1, <1>2, <1>3
<1>5. TypeOK'
  <2>1. atText' \in BOOLEAN
    BY <1>1
  <2> QED
    BY <1>1, <1>2, <1>3, <1>4, <2>1 DEF RecallIsRight, TypeOK
<1>6. WalkedIsCounted'
  <2>1. Ahead(mark, prefix)' = {}
    BY <1>3 DEF Ahead
  <2> QED
    BY <2>1 DEF WalkedIsCounted
<1>7. TextIsCounted' /\ ShowsAMatch'
  BY <1>1, <1>2, <1>4 DEF RecallIsRight, TextIsCounted, ShowsAMatch
<1> QED
  BY <1>5, <1>6, <1>7 DEF RecallIsRight

\* A command is loaded before all others, and before the mark.
LEMMA LoadHistoryKeeps ==
  ASSUME RecallIsRight, NEW c \in Files, LoadHistory(c) PROVE RecallIsRight'
<1>1. /\ hist' = <<c>> \o hist /\ UNCHANGED <<text, prefix, searching, atText, count>>
      /\ Len(hist) < MaxHist
      /\ mark = End => mark' = End
      /\ mark # End => mark' = mark + 1
  BY DEF LoadHistory
<1>2. /\ hist \in Seq(Texts \ {Blank}) /\ mark \in 1 .. End /\ MaxHist \in Nat
      /\ (mark = End \/ mark <= Len(hist) + 1) /\ Len(hist) \in Nat
      /\ End = MaxHist + 2 /\ c \in Texts \ {Blank}
  BY CommandsAssumption DEF RecallIsRight, TypeOK, End
<1>3. hist' \in Seq(Texts \ {Blank}) /\ Len(hist') = Len(hist) + 1
      /\ \A i \in 1 .. Len(hist') : i > 1 => hist'[i] = hist[i - 1]
  <2>1. <<c>> \in Seq(Texts \ {Blank}) /\ Len(<<c>>) = 1
    BY <1>2
  <2> QED
    BY <1>1, <1>2, <2>1
<1>4. mark' \in 1 .. End /\ (mark' = End \/ mark' <= Len(hist') + 1) /\ (mark' = End <=> mark = End)
  BY <1>1, <1>2, <1>3
<1>5. TypeOK'
  <2>1. Len(hist') <= MaxHist /\ End' = End
    BY <1>1, <1>2, <1>3 DEF End
  <2> QED
    BY <1>1, <1>3, <1>4, <2>1 DEF RecallIsRight, TypeOK
<1>6. ASSUME searching, NEW i \in Ahead(mark, prefix)' PROVE Hash[hist'[i]] \in DOMAIN count
  <2>1. i \in 1 .. Len(hist') /\ mark' <= i /\ hist'[i] \in Matches[prefix]
    BY <1>1 DEF Ahead
  <2>2. mark # End /\ i > 1 /\ i - 1 \in 1 .. Len(hist) /\ mark <= i - 1
    BY <1>1, <1>2, <1>3, <2>1
  <2>3. i - 1 \in Ahead(mark, prefix) /\ hist'[i] = hist[i - 1]
    BY <1>3, <2>1, <2>2 DEF Ahead
  <2> QED
    BY <1>6, <2>3 DEF RecallIsRight, WalkedIsCounted
<1>7. WalkedIsCounted'
  BY <1>1, <1>6 DEF WalkedIsCounted
<1>8. TextIsCounted' /\ ShowsAMatch'
  <2>1. End' = End
    BY DEF End
  <2> QED
    BY <1>1, <1>4, <2>1 DEF RecallIsRight, TextIsCounted, ShowsAMatch
<1> QED
  BY <1>5, <1>7, <1>8 DEF RecallIsRight

-----------------------------------------------------------------------------
\* Every step of the editor and of the history keeps what recalling rests on.
LEMMA RecallStep == RecallIsRight /\ [Next]_vars => RecallIsRight'
<1> SUFFICES ASSUME RecallIsRight, [Next]_vars PROVE RecallIsRight'
  OBVIOUS
<1>1. ASSUME NEW t \in Texts, EditSource(t) PROVE RecallIsRight'
  BY <1>1, SearchEnds DEF EditSource
<1>2. ASSUME NEW t \in Texts, SwitchTab(t) PROVE RecallIsRight'
  BY <1>2, SearchEnds DEF SwitchTab
<1>3. CASE UNCHANGED vars
  BY <1>3 DEF vars, RecallIsRight, TypeOK, WalkedIsCounted, TextIsCounted, ShowsAMatch, Ahead, End
<1> QED
  BY <1>1, <1>2, <1>3, ExecuteKeeps, HistoryUpKeeps, HistoryDownKeeps, DiscardSessionsKeeps,
     DiscardAllKeeps, LoadHistoryKeeps DEF Next

\* While commands are recalled, whatever is executed, discarded or loaded meanwhile:
\* history_down finds every command it walks over in hist_count, and the editor shows
\* the prefix or a command that begins with it.
THEOREM RecallRight == Spec => []RecallIsRight
<1>1. Init => RecallIsRight
  BY RecallInit
<1>2. RecallIsRight /\ [Next]_vars => RecallIsRight'
  BY RecallStep
<1> QED
  BY <1>1, <1>2, PTL DEF Spec
-----------------------------------------------------------------------------
\* What a step may read.
PersistIInv ==
  /\ items \subseteq Persist!Items /\ nextItem \in 1 .. MaxItems /\ modified \in BOOLEAN
  /\ filename \in FileNames \cup {None}
  /\ pc = "replace" => target \in FileNames
  /\ DOMAIN files = FileNames
  /\ \A f \in FileNames : files[f] = Absent \/ files[f] \in Persist!Contents
  /\ Persist!FileInHistory /\ Persist!StarTellsModified

\* The invariant when a session begins.
LEMMA PersistInit == ASSUME Persist!Init PROVE PersistIInv
<1>1. /\ pc = "main" /\ items = {} /\ nextItem = 1 /\ modified = TRUE /\ filename = None
      /\ files \in InitialFiles /\ title.star = FALSE
  BY DEF Persist!Init, Persist!Title
<1>2. /\ 1 \in 1 .. MaxItems /\ DOMAIN files = FileNames
      /\ \A f \in FileNames : files[f] = Absent \/ files[f] \in Persist!Contents
  BY <1>1, PersistAssumption DEF Persist!ConstantsFit
<1> QED
  BY <1>1, <1>2
     DEF PersistIInv, Persist!FileInHistory, Persist!StarTellsModified

\* What a file is cut short to holds none but items of the history.
LEMMA CutShortHolds ==
  ASSUME items \subseteq Persist!Items, NEW c \in Persist!CutShort
  PROVE  c \in Persist!Contents /\ c.items \subseteq items
BY DEF Persist!CutShort, Persist!Contents, Persist!Kinds, Persist!File

\* save_filename that comes to its end.
LEMMA SavesKeeps ==
  ASSUME PersistIInv, NEW f \in FileNames, Persist!Saves(f),
         pc' = "replace" => target' \in FileNames
  PROVE  PersistIInv' /\ Persist!Saved'
<1>1. /\ files' = [files EXCEPT ![f] = Persist!File("history", items)]
      /\ filename' = f /\ modified' = FALSE /\ title' = Persist!TitleAfter(FALSE, f)
      /\ items' = items /\ nextItem' = nextItem
  BY DEF Persist!Saves
<1>2. /\ DOMAIN files = FileNames /\ items \subseteq Persist!Items /\ f # None
      /\ nextItem \in 1 .. MaxItems
  BY PersistAssumption DEF PersistIInv, Persist!ConstantsFit
<1>3. /\ DOMAIN files' = FileNames /\ files'[f] = Persist!File("history", items)
      /\ \A g \in FileNames \ {f} : files'[g] = files[g]
  BY <1>1, <1>2
<1>4. /\ Persist!File("history", items) \in Persist!Contents
      /\ Persist!File("history", items).items = items
  BY <1>2 DEF Persist!File, Persist!Contents, Persist!Kinds
<1>5. \A g \in FileNames : files'[g] = Absent \/ files'[g] \in Persist!Contents
  BY <1>3, <1>4 DEF PersistIInv
<1>6. Persist!FileInHistory'
  BY <1>1, <1>3, <1>4 DEF Persist!FileInHistory, Persist!Holds
<1>7. Persist!StarTellsModified'
  BY <1>1, <1>2 DEF PersistIInv, Persist!StarTellsModified, Persist!TitleAfter, Persist!Title
<1>8. Persist!Saved'
  BY <1>1, <1>3 DEF Persist!Saved
<1> QED
  BY <1>1, <1>2, <1>3, <1>5, <1>6, <1>7, <1>8 DEF PersistIInv, Persist!Items

\* A file that changes into a part of the history, which stays what it is.
LEMMA CutShortKeeps ==
  ASSUME PersistIInv, NEW f \in FileNames,
         NEW c \in Persist!CutShort \cup {files[f]},
         files' = [files EXCEPT ![f] = c], UNCHANGED Persist!editVars,
         pc' = "replace" => target' \in FileNames
  PROVE  PersistIInv'
<1>1. /\ items' = items /\ nextItem' = nextItem /\ modified' = modified /\ filename' = filename
      /\ title' = title
  BY DEF Persist!editVars
<1>2. /\ DOMAIN files' = FileNames /\ files'[f] = c
      /\ \A g \in FileNames \ {f} : files'[g] = files[g]
  BY DEF PersistIInv
<1>3. files'[f] = files[f] \/ (files'[f] \in Persist!Contents /\ files'[f].items \subseteq items)
  BY <1>2, CutShortHolds DEF PersistIInv
<1>4. \A g \in FileNames : files'[g] = Absent \/ files'[g] \in Persist!Contents
  BY <1>2, <1>3 DEF PersistIInv
<1>5. Persist!FileInHistory'
  BY <1>1, <1>2, <1>3 DEF PersistIInv, Persist!FileInHistory, Persist!Holds
<1> QED
  BY <1>1, <1>2, <1>4, <1>5 DEF PersistIInv, Persist!StarTellsModified, Persist!Items

\* A file is loaded, or refused after some of its items.
LEMMA LoadKeeps ==
  ASSUME PersistIInv, NEW f \in FileNames, Persist!LoadFile(f)
  PROVE  PersistIInv'
<1>1. PICK s \in Persist!Parsed(files[f]) : items' = items \cup s
      /\ modified' = (modified \/ s # {})
  BY DEF Persist!LoadFile, Persist!Loads, Persist!Inserted
<1>2. pc' = "main" /\ files' = files /\ nextItem' = nextItem /\ files[f] # Absent
  BY DEF Persist!LoadFile, Persist!Loads
<1>3. /\ DOMAIN files = FileNames /\ items \subseteq Persist!Items /\ nextItem \in 1 .. MaxItems
      /\ files[f] \in Persist!Contents /\ modified \in BOOLEAN /\ filename \in FileNames \cup {None}
  BY <1>2 DEF PersistIInv
<1>4. s \subseteq files[f].items /\ files[f].items \subseteq Persist!Items
  BY <1>3 DEF Persist!Parsed, Persist!Contents
<1>5. CASE files[f].kind \in {"history", "nobody"}
  <2>1. filename' = f /\ title' = Persist!Title(f, modified')
    BY <1>5 DEF Persist!LoadFile, Persist!Loads
  <2>2. s = files[f].items
    BY <1>5 DEF Persist!Parsed
  <2>3. Persist!FileInHistory'
    BY <1>1, <1>2, <2>1, <2>2 DEF Persist!FileInHistory, Persist!Holds
  <2>4. Persist!StarTellsModified'
    BY <1>1, <2>1 DEF Persist!StarTellsModified, Persist!Title
  <2> QED
    BY <1>1, <1>2, <1>3, <1>4, <2>1, <2>3, <2>4 DEF PersistIInv, Persist!Items
<1>6. CASE files[f].kind \notin {"history", "nobody"}
  <2>1. filename' = filename /\ title' = Persist!TitleAfter(modified', filename)
    BY <1>6 DEF Persist!LoadFile, Persist!Loads
  <2>2. Persist!FileInHistory'
    BY <1>1, <1>2, <2>1 DEF PersistIInv, Persist!FileInHistory, Persist!Holds
  <2>3. Persist!StarTellsModified'
    BY <1>1, <2>1 DEF PersistIInv, Persist!StarTellsModified, Persist!TitleAfter, Persist!Title
  <2> QED
    BY <1>1, <1>2, <1>3, <1>4, <2>1, <2>2, <2>3 DEF PersistIInv, Persist!Items
<1> QED
  BY <1>5, <1>6

\* Output and a new session; and the steps that change neither the history nor a file.
LEMMA OthersKeep ==
  ASSUME PersistIInv,
         \/ Persist!Output \/ Persist!Start
         \/ (\E gone \in SUBSET items, marked \in BOOLEAN : Persist!Discard(gone, marked))
         \/ UNCHANGED <<items, nextItem, modified, filename, title, files>>
            /\ (pc' = "replace" => target' \in FileNames)
  PROVE  PersistIInv'
<1>1. CASE Persist!Output
  <2>1. /\ items' = items \cup {nextItem} /\ nextItem' = nextItem + 1 /\ nextItem < MaxItems
        /\ modified' = TRUE /\ title' = Persist!TitleAfter(TRUE, filename)
        /\ pc' = pc /\ target' = target /\ filename' = filename /\ files' = files
    BY <1>1 DEF Persist!Output
  <2>2. items' \subseteq Persist!Items /\ nextItem' \in 1 .. MaxItems
    <3>1. items \subseteq 1 .. MaxItems /\ nextItem \in 1 .. MaxItems /\ MaxItems \in Nat
      BY PersistAssumption DEF PersistIInv, Persist!ConstantsFit, Persist!Items
    <3> QED
      BY <2>1, <3>1 DEF Persist!Items
  <2>3. Persist!FileInHistory'
    BY <2>1 DEF PersistIInv, Persist!FileInHistory, Persist!Holds
  <2>4. Persist!StarTellsModified'
    BY <2>1 DEF PersistIInv, Persist!StarTellsModified, Persist!TitleAfter, Persist!Title
  <2> QED
    BY <2>1, <2>2, <2>3, <2>4 DEF PersistIInv, Persist!Items
<1>2. CASE Persist!Start
  BY <1>2
     DEF Persist!Start, Persist!Title, PersistIInv, Persist!FileInHistory,
         Persist!StarTellsModified, Persist!Items
<1>3. CASE \E gone \in SUBSET items, marked \in BOOLEAN : Persist!Discard(gone, marked)
  <2>1. PICK gone \in SUBSET items, marked \in BOOLEAN : Persist!Discard(gone, marked)
    BY <1>3
  <2>2. /\ pc' = "main" /\ items' = items \ gone /\ modified' = (modified \/ marked \/ gone # {})
        /\ filename' = None /\ title'.star = FALSE /\ files' = files /\ nextItem' = nextItem
    BY <2>1 DEF Persist!Discard, Persist!Title
  <2> QED
    BY <2>2 DEF PersistIInv, Persist!FileInHistory, Persist!StarTellsModified, Persist!Items
<1>4. CASE UNCHANGED <<items, nextItem, modified, filename, title, files>>
           /\ (pc' = "replace" => target' \in FileNames)
  BY <1>4
     DEF PersistIInv, Persist!FileInHistory, Persist!StarTellsModified, Persist!Items, Persist!Holds
<1> QED
  BY <1>1, <1>2, <1>3, <1>4

\* A save into the file f, to its end or not.
SaveInto(f) == Persist!Saves(f) \/ Persist!SaveFails(f)

\* A save, with or without an error in it.
LEMMA SaveKeeps ==
  ASSUME PersistIInv, NEW f \in FileNames, SaveInto(f),
         pc' = "replace" => target' \in FileNames
  PROVE  PersistIInv'
BY SavesKeeps, CutShortKeeps DEF SaveInto, Persist!SaveFails

\* No step breaks it, whatever the dialogs in between.
LEMMA PersistStep ==
  ASSUME PersistIInv, [Persist!Next]_Persist!vars
  PROVE PersistIInv'
<1>1. ASSUME Persist!Save PROVE PersistIInv'
  <2>1. filename \in FileNames /\ SaveInto(filename) /\ pc' = "main"
    BY <1>1 DEF Persist!Save, SaveInto, PersistIInv
  <2> QED
    BY <2>1, SaveKeeps
<1>2. ASSUME NEW f \in FileNames, Persist!ChooseNew(f) PROVE PersistIInv'
  <2>1. SaveInto(f) /\ pc' # "replace"
    BY <1>2 DEF Persist!ChooseNew, Persist!DialogSaves, SaveInto
  <2> QED
    BY <2>1, SaveKeeps
<1>3. ASSUME Persist!Replace \/ Persist!CloseQuestion PROVE PersistIInv'
  <2>1. target \in FileNames /\ SaveInto(target) /\ pc' # "replace"
    BY <1>3 DEF Persist!Replace, Persist!CloseQuestion, Persist!DialogSaves, SaveInto, PersistIInv
  <2> QED
    BY <2>1, SaveKeeps
<1>4. ASSUME Persist!QuitSaves PROVE PersistIInv'
  <2>1. filename \in FileNames /\ SaveInto(filename) /\ pc' # "replace"
    BY <1>4 DEF Persist!QuitSaves, SaveInto, PersistIInv
  <2> QED
    BY <2>1, SaveKeeps
<1>5. ASSUME Persist!Dies PROVE PersistIInv'
  <2>1. pc' = "dead" /\ UNCHANGED Persist!editVars
    BY <1>5 DEF Persist!Dies
  <2>2. CASE UNCHANGED files
    BY <2>1, <2>2, OthersKeep DEF Persist!editVars
  <2>3. CASE \E c \in Persist!CutShort, f \in FileNames : files' = [files EXCEPT ![f] = c]
    BY <2>1, <2>3, CutShortKeeps
  <2> QED
    BY <1>5, <2>2, <2>3 DEF Persist!Dies
<1>6. ASSUME \/ Persist!SaveAs \/ Persist!DontReplace \/ Persist!CancelDialog \/ Persist!Load
             \/ Persist!AskDiscard \/ Persist!Quit \/ Persist!QuitDiscards \/ Persist!QuitSavesAs
      PROVE PersistIInv'
  <2>1. UNCHANGED <<items, nextItem, modified, filename, title, files>> /\ pc' # "replace"
    BY <1>6 DEF Persist!SaveAs, Persist!DontReplace, Persist!CancelDialog, Persist!Load,
       Persist!AskDiscard, Persist!Quit, Persist!QuitDiscards, Persist!QuitSavesAs, Persist!editVars
  <2> QED
    BY <2>1, OthersKeep
<1>7. ASSUME NEW f \in FileNames, Persist!ChooseExisting(f) PROVE PersistIInv'
  <2>1. UNCHANGED <<items, nextItem, modified, filename, title, files>> /\ target' \in FileNames
    BY <1>7 DEF Persist!ChooseExisting, Persist!editVars
  <2> QED
    BY <2>1, OthersKeep
<1>8. CASE UNCHANGED Persist!vars
  BY <1>8, OthersKeep DEF Persist!vars, Persist!editVars, PersistIInv
<1> QED
  BY <1>1, <1>2, <1>3, <1>4, <1>5, <1>6, <1>7, <1>8, LoadKeeps, OthersKeep
     DEF Persist!Next, Persist!UserActs

\* Unless a write failed, what is not marked as modified is in a file.
LEMMA UnmodifiedStep ==
  ASSUME PersistIInv, Persist!UnmodifiedIsSaved,
         [Persist!Next]_Persist!vars
  PROVE  Persist!UnmodifiedIsSaved'
<1>0. ASSUME NEW f \in FileNames, Persist!SaveFails(f) PROVE Persist!UnmodifiedIsSaved'
  BY <1>0 DEF Persist!SaveFails, Persist!UnmodifiedIsSaved
<1>1. ASSUME NEW f \in FileNames, SaveInto(f) PROVE Persist!UnmodifiedIsSaved'
  <2>0. CASE Persist!SaveFails(f)
    BY <1>0, <2>0
  <2>1. CASE Persist!Saves(f)
    <3>1. files'[f] = Persist!File("history", items) /\ items' = items
      BY <2>1 DEF Persist!Saves, PersistIInv
    <3> QED
      BY <3>1 DEF Persist!UnmodifiedIsSaved, Persist!Saved
  <2> QED
    BY <1>1, <2>0, <2>1 DEF SaveInto
<1>2. ASSUME Persist!Save \/ Persist!QuitSaves PROVE Persist!UnmodifiedIsSaved'
  <2>1. filename \in FileNames /\ SaveInto(filename)
    BY <1>2 DEF SaveInto, Persist!Save, Persist!QuitSaves, PersistIInv
  <2> QED
    BY <1>1, <2>1
<1>3. ASSUME Persist!Replace \/ Persist!CloseQuestion PROVE Persist!UnmodifiedIsSaved'
  <2>1. target \in FileNames /\ SaveInto(target)
    BY <1>3 DEF SaveInto, Persist!Replace, Persist!CloseQuestion, Persist!DialogSaves, PersistIInv
  <2> QED
    BY <1>1, <2>1
<1>4. ASSUME NEW f \in FileNames, Persist!ChooseNew(f) PROVE Persist!UnmodifiedIsSaved'
  BY <1>1, <1>4 DEF SaveInto, Persist!ChooseNew, Persist!DialogSaves
<1>5. ASSUME pc # "dead", items' = items, modified' = modified, files' = files, failed' = failed
      PROVE  Persist!UnmodifiedIsSaved'
  BY <1>5 DEF Persist!UnmodifiedIsSaved, Persist!Saved
<1>6. ASSUME \/ Persist!SaveAs \/ Persist!DontReplace \/ Persist!CancelDialog \/ Persist!Load
             \/ Persist!AskDiscard \/ Persist!Quit \/ Persist!QuitDiscards \/ Persist!QuitSavesAs
             \/ \E f \in FileNames : Persist!ChooseExisting(f)
      PROVE Persist!UnmodifiedIsSaved'
  <2>1. pc # "dead" /\ items' = items /\ modified' = modified /\ files' = files
        /\ failed' = failed
    BY <1>6 DEF Persist!SaveAs, Persist!DontReplace, Persist!CancelDialog, Persist!Load,
       Persist!AskDiscard, Persist!Quit, Persist!QuitDiscards, Persist!QuitSavesAs,
       Persist!ChooseExisting, Persist!editVars
  <2> QED
    BY <1>5, <2>1
<1>7. ASSUME NEW f \in FileNames, Persist!LoadFile(f) PROVE Persist!UnmodifiedIsSaved'
  <2>1. PICK s \in Persist!Parsed(files[f]) : items' = items \cup s
        /\ modified' = (modified \/ s # {})
    BY <1>7 DEF Persist!LoadFile, Persist!Loads, Persist!Inserted
  <2>2. pc # "dead" /\ files' = files /\ failed' = failed
    BY <1>7 DEF Persist!LoadFile
  <2>3. CASE modified'
    BY <2>3 DEF Persist!UnmodifiedIsSaved
  <2>4. CASE ~modified'
    <3>1. items' = items /\ modified' = modified
      BY <2>1, <2>4 DEF PersistIInv
    <3> QED
      BY <1>5, <2>2, <3>1
  <2> QED
    BY <2>3, <2>4
<1>8. ASSUME NEW gone \in SUBSET items, NEW marked \in BOOLEAN, Persist!Discard(gone, marked)
      PROVE  Persist!UnmodifiedIsSaved'
  <2>1. /\ pc # "dead" /\ items' = items \ gone /\ modified' = (modified \/ marked \/ gone # {})
        /\ files' = files /\ failed' = failed
    BY <1>8 DEF Persist!Discard
  <2>2. CASE modified'
    BY <2>2 DEF Persist!UnmodifiedIsSaved
  <2>3. CASE ~modified'
    <3>1. items' = items /\ modified' = modified
      BY <2>1, <2>3 DEF PersistIInv
    <3> QED
      BY <1>5, <2>1, <3>1
  <2> QED
    BY <2>2, <2>3
<1>9. ASSUME Persist!Output \/ Persist!Start \/ Persist!Dies PROVE Persist!UnmodifiedIsSaved'
  BY <1>9 DEF Persist!Output, Persist!Start, Persist!Dies, Persist!UnmodifiedIsSaved
<1>10. CASE UNCHANGED Persist!vars
  BY <1>10 DEF Persist!vars, Persist!editVars, Persist!UnmodifiedIsSaved, Persist!Saved
<1> QED
  BY <1>2, <1>3, <1>4, <1>6, <1>7, <1>8, <1>9, <1>10 DEF Persist!Next, Persist!UserActs

\* So quit() loses no history that it did not ask about.
LEMMA QuitKeeps ==
  ASSUME PersistIInv, Persist!UnmodifiedIsSaved,
         Persist!Next, ~failed'
  PROVE  Persist!KeepsHistory
<1> SUFFICES ASSUME pc' = "gone", ~Persist!QuitDiscards
             PROVE  Persist!Saved' \/ (filename = None /\ ~askOnQuit)
  BY DEF Persist!KeepsHistory
<1>0. \A f \in FileNames : ~Persist!SaveFails(f)
  BY DEF Persist!SaveFails
<1>1. ASSUME NEW f \in FileNames, Persist!Saves(f) PROVE Persist!Saved'
  <2>1. files'[f] = Persist!File("history", items) /\ items' = items
    BY <1>1 DEF Persist!Saves, PersistIInv
  <2> QED
    BY <2>1 DEF Persist!Saved
<1>2. CASE Persist!QuitSaves
  BY <1>0, <1>1, <1>2 DEF Persist!QuitSaves, PersistIInv
<1>3. CASE Persist!Replace \/ Persist!CloseQuestion
  <2>1. target \in FileNames /\ Persist!Saves(target)
    BY <1>0, <1>3 DEF Persist!Replace, Persist!CloseQuestion, Persist!DialogSaves, PersistIInv
  <2> QED
    BY <1>1, <2>1
<1>4. CASE \E f \in FileNames : Persist!ChooseNew(f)
  BY <1>0, <1>1, <1>4 DEF Persist!ChooseNew, Persist!DialogSaves
<1>5. CASE Persist!Quit
  <2>1. pc = "main" /\ files' = files /\ items' = items /\ failed' = failed
        /\ (~modified \/ (filename = None /\ ~askOnQuit))
    BY <1>5 DEF Persist!Quit, Persist!editVars
  <2>2. ~modified => Persist!Saved
    BY <2>1 DEF Persist!UnmodifiedIsSaved
  <2> QED
    BY <2>1, <2>2 DEF Persist!Saved
<1> QED
  BY <1>2, <1>3, <1>4, <1>5
     DEF Persist!Next, Persist!UserActs, Persist!Output, Persist!Save, Persist!SaveAs,
         Persist!DontReplace, Persist!CancelDialog, Persist!Load, Persist!AskDiscard,
         Persist!QuitSavesAs, Persist!ChooseExisting, Persist!LoadFile, Persist!Discard,
         Persist!Dies, Persist!Start

\* A file changes into the history, or into a part of it.
LEMMA FilesChange ==
  ASSUME PersistIInv, Persist!Next, NEW f \in FileNames, files'[f] # files[f]
  PROVE  \/ files'[f] = Persist!File("history", items)
         \/ files'[f] \in Persist!CutShort /\ (pc' = "dead" \/ modified' = modified)
<1>1. ASSUME NEW g \in FileNames, SaveInto(g)
      PROVE  \/ files'[f] = Persist!File("history", items)
             \/ files'[f] \in Persist!CutShort /\ modified' = modified
  <2>1. CASE Persist!Saves(g)
    BY <2>1 DEF Persist!Saves, PersistIInv
  <2>2. CASE Persist!SaveFails(g)
    BY <2>2 DEF Persist!SaveFails, Persist!editVars, PersistIInv
  <2> QED
    BY <1>1, <2>1, <2>2 DEF SaveInto
<1>2. ASSUME Persist!Save \/ Persist!QuitSaves PROVE filename \in FileNames /\ SaveInto(filename)
  BY <1>2 DEF Persist!Save, Persist!QuitSaves, SaveInto, PersistIInv
<1>3. ASSUME Persist!Replace \/ Persist!CloseQuestion PROVE target \in FileNames /\ SaveInto(target)
  BY <1>3 DEF Persist!Replace, Persist!CloseQuestion, Persist!DialogSaves, SaveInto, PersistIInv
<1>4. ASSUME NEW g \in FileNames, Persist!ChooseNew(g) PROVE SaveInto(g)
  BY <1>4 DEF Persist!ChooseNew, Persist!DialogSaves, SaveInto
<1>5. ASSUME Persist!Dies PROVE files'[f] \in Persist!CutShort /\ pc' = "dead"
  BY <1>5 DEF Persist!Dies, PersistIInv
<1> QED
  BY <1>1, <1>2, <1>3, <1>4, <1>5
     DEF Persist!Next, Persist!UserActs, Persist!Output, Persist!SaveAs, Persist!DontReplace,
         Persist!CancelDialog, Persist!Load, Persist!AskDiscard, Persist!Quit, Persist!QuitDiscards,
         Persist!QuitSavesAs, Persist!ChooseExisting, Persist!LoadFile, Persist!Discard,
         Persist!Start

\* The types when a session begins.
LEMMA PersistTypesInit == ASSUME Persist!Init PROVE Persist!TypeOK
<1>1. files \in [FileNames -> Persist!Contents \cup {Absent}]
  BY PersistAssumption DEF Persist!Init, Persist!ConstantsFit
<1>2. title \in [name : FileNames \cup {None}, star : BOOLEAN] /\ 1 \in 1 .. MaxItems
  BY PersistAssumption DEF Persist!Init, Persist!Title, Persist!ConstantsFit
<1> QED
  BY <1>1, <1>2 DEF Persist!Init, Persist!TypeOK

\* A file changes into one of its type.
LEMMA FileType ==
  ASSUME files \in [FileNames -> Persist!Contents \cup {Absent}], items \subseteq Persist!Items,
         NEW f \in FileNames,
         NEW c \in Persist!CutShort \cup {files[f], Persist!File("history", items)},
         files' = [files EXCEPT ![f] = c]
  PROVE  files' \in [FileNames -> Persist!Contents \cup {Absent}]
<1>1. Persist!File("history", items) \in Persist!Contents
  BY DEF Persist!File, Persist!Contents, Persist!Kinds
<1>2. c \in Persist!Contents \cup {Absent}
  BY <1>1, CutShortHolds
<1> QED
  BY <1>2

\* The types that save_filename leaves.
LEMMA SaveTypes ==
  ASSUME Persist!TypeOK, NEW f \in FileNames, SaveInto(f)
  PROVE  /\ files' \in [FileNames -> Persist!Contents \cup {Absent}]
         /\ title' \in [name : FileNames \cup {None}, star : BOOLEAN]
         /\ items' \subseteq Persist!Items /\ nextItem' \in 1 .. MaxItems
         /\ modified' \in BOOLEAN /\ filename' \in FileNames \cup {None} /\ failed' \in BOOLEAN
<1>1. /\ files \in [FileNames -> Persist!Contents \cup {Absent}] /\ items \subseteq Persist!Items
      /\ title \in [name : FileNames \cup {None}, star : BOOLEAN] /\ nextItem \in 1 .. MaxItems
      /\ modified \in BOOLEAN /\ filename \in FileNames \cup {None}
  BY DEF Persist!TypeOK
<1>2. CASE Persist!Saves(f)
  <2>1. /\ files' = [files EXCEPT ![f] = Persist!File("history", items)]
        /\ title' = Persist!TitleAfter(FALSE, f) /\ filename' = f /\ modified' = FALSE
        /\ items' = items /\ nextItem' = nextItem /\ failed' = FALSE
    BY <1>2 DEF Persist!Saves
  <2>2. title' \in [name : FileNames \cup {None}, star : BOOLEAN]
    BY <1>1, <2>1 DEF Persist!TitleAfter, Persist!Title
  <2> QED
    BY <1>1, <2>1, <2>2, FileType
<1>3. CASE Persist!SaveFails(f)
  BY <1>1, <1>3, FileType DEF Persist!SaveFails, Persist!editVars
<1> QED
  BY <1>2, <1>3 DEF SaveInto

\* No step leaves the types.
LEMMA PersistTypes ==
  ASSUME PersistIInv, Persist!TypeOK, [Persist!Next]_Persist!vars
  PROVE  Persist!TypeOK'
<1>0. /\ pc \in {"main", "gone", "dead"} \cup Persist!Dialogs
      /\ target \in FileNames \cup {None} /\ fromQuit \in BOOLEAN
      /\ items \subseteq Persist!Items /\ nextItem \in 1 .. MaxItems
      /\ modified \in BOOLEAN /\ askOnQuit \in BOOLEAN
      /\ filename \in FileNames \cup {None}
      /\ title \in [name : FileNames \cup {None}, star : BOOLEAN]
      /\ files \in [FileNames -> Persist!Contents \cup {Absent}]
      /\ failed \in BOOLEAN
  BY DEF Persist!TypeOK
<1>1. ASSUME NEW f \in FileNames, SaveInto(f), pc' \in {"main", "gone", "saveChooser"},
             target' \in FileNames \cup {None}, fromQuit' \in BOOLEAN, askOnQuit' = askOnQuit
      PROVE  Persist!TypeOK'
  BY <1>0, <1>1, SaveTypes DEF Persist!TypeOK, Persist!Dialogs, Persist!Items
<1>2. ASSUME Persist!Save PROVE Persist!TypeOK'
  <2>1. /\ filename \in FileNames /\ SaveInto(filename) /\ pc' = "main" /\ target' = target
        /\ fromQuit' = fromQuit /\ askOnQuit' = askOnQuit
    BY <1>0, <1>2 DEF Persist!Save, SaveInto
  <2> QED
    BY <1>0, <1>1, <2>1
<1>3. ASSUME NEW f \in FileNames, Persist!ChooseNew(f) PROVE Persist!TypeOK'
  <2>1. /\ SaveInto(f) /\ pc' \in {"main", "gone", "saveChooser"} /\ target' = target
        /\ fromQuit' \in {FALSE, fromQuit} /\ askOnQuit' = askOnQuit
    BY <1>3 DEF Persist!ChooseNew, Persist!DialogSaves, SaveInto
  <2> QED
    BY <1>0, <1>1, <2>1
<1>4. ASSUME Persist!Replace \/ Persist!CloseQuestion PROVE Persist!TypeOK'
  <2>1. /\ target \in FileNames /\ SaveInto(target) /\ pc' \in {"main", "gone", "saveChooser"}
        /\ target' = None /\ fromQuit' \in {FALSE, fromQuit} /\ askOnQuit' = askOnQuit
    BY <1>4 DEF Persist!Replace, Persist!CloseQuestion, Persist!DialogSaves, SaveInto, PersistIInv
  <2> QED
    BY <1>0, <1>1, <2>1
<1>5. ASSUME Persist!QuitSaves PROVE Persist!TypeOK'
  <2>1. /\ filename \in FileNames /\ SaveInto(filename) /\ pc' \in {"main", "gone"}
        /\ target' = target /\ fromQuit' = fromQuit /\ askOnQuit' = askOnQuit
    BY <1>0, <1>5 DEF Persist!QuitSaves, SaveInto
  <2> QED
    BY <1>0, <1>1, <2>1
<1>6. ASSUME Persist!Dies PROVE Persist!TypeOK'
  <2>1. /\ pc' = "dead" /\ target' = None /\ fromQuit' = FALSE
        /\ UNCHANGED <<askOnQuit, failed, Persist!editVars>>
    BY <1>6 DEF Persist!Dies
  <2>2. CASE UNCHANGED files
    BY <1>0, <2>1, <2>2 DEF Persist!TypeOK, Persist!editVars, Persist!Items
  <2>3. CASE \E c \in Persist!CutShort, f \in FileNames : files' = [files EXCEPT ![f] = c]
    <3>1. files' \in [FileNames -> Persist!Contents \cup {Absent}]
      BY <1>0, <2>3, FileType
    <3> QED
      BY <1>0, <2>1, <3>1 DEF Persist!TypeOK, Persist!editVars, Persist!Items
  <2> QED
    BY <1>6, <2>2, <2>3 DEF Persist!Dies
<1>7. ASSUME pc' \in {"main", "gone"} \cup Persist!Dialogs, target' \in FileNames \cup {None},
             fromQuit' \in BOOLEAN, askOnQuit' \in BOOLEAN,
             UNCHANGED <<files, failed, Persist!editVars>>
      PROVE  Persist!TypeOK'
  BY <1>0, <1>7 DEF Persist!TypeOK, Persist!editVars, Persist!Items
<1>8. ASSUME \/ Persist!SaveAs \/ Persist!DontReplace \/ Persist!CancelDialog \/ Persist!Load
             \/ Persist!AskDiscard \/ Persist!Quit \/ Persist!QuitDiscards \/ Persist!QuitSavesAs
             \/ \E f \in FileNames : Persist!ChooseExisting(f)
      PROVE  Persist!TypeOK'
  <2>1. /\ pc' \in {"main", "gone"} \cup Persist!Dialogs /\ target' \in FileNames \cup {None}
        /\ fromQuit' \in BOOLEAN /\ askOnQuit' \in BOOLEAN
        /\ UNCHANGED <<files, failed, Persist!editVars>>
    BY <1>0, <1>8 DEF Persist!SaveAs, Persist!DontReplace, Persist!CancelDialog, Persist!Load,
       Persist!AskDiscard, Persist!Quit, Persist!QuitDiscards, Persist!QuitSavesAs,
       Persist!ChooseExisting, Persist!Dialogs
  <2> QED
    BY <1>7, <2>1
<1>9. ASSUME NEW f \in FileNames, Persist!LoadFile(f) PROVE Persist!TypeOK'
  <2>1. PICK s \in Persist!Parsed(files[f]) : items' = items \cup s
        /\ modified' = (modified \/ s # {})
    BY <1>9 DEF Persist!LoadFile, Persist!Loads, Persist!Inserted
  <2>2. /\ files[f] # Absent /\ pc' = "main" /\ nextItem' = nextItem
        /\ UNCHANGED <<target, fromQuit, files, askOnQuit, failed>>
    BY <1>9 DEF Persist!LoadFile, Persist!Loads
  <2>3. items' \subseteq Persist!Items
    <3>1. files[f] \in Persist!Contents
      BY <1>0, <2>2
    <3> QED
      BY <1>0, <2>1, <3>1 DEF Persist!Parsed, Persist!Contents
  <2>4. modified' \in BOOLEAN
    BY <2>1
  <2>5. \/ filename' = f /\ title' = Persist!Title(f, modified')
        \/ filename' = filename /\ title' = Persist!TitleAfter(modified', filename)
    BY <1>9 DEF Persist!LoadFile, Persist!Loads
  <2>6. /\ filename' \in FileNames \cup {None}
        /\ title' \in [name : FileNames \cup {None}, star : BOOLEAN]
    <3>1. /\ Persist!Title(f, modified') \in [name : FileNames \cup {None}, star : BOOLEAN]
          /\ Persist!Title(filename, modified') \in [name : FileNames \cup {None}, star : BOOLEAN]
      BY <1>0, <2>4 DEF Persist!Title
    <3>2. Persist!TitleAfter(modified', filename) \in {Persist!Title(filename, modified'), title}
      BY DEF Persist!TitleAfter
    <3> QED
      BY <1>0, <2>5, <3>1, <3>2
  <2> QED
    BY <1>0, <2>2, <2>3, <2>4, <2>6 DEF Persist!TypeOK, Persist!Items
<1>10. ASSUME Persist!Output PROVE Persist!TypeOK'
  <2>1. /\ items' = items \cup {nextItem} /\ nextItem' = nextItem + 1 /\ nextItem < MaxItems
        /\ modified' = TRUE /\ title' = Persist!TitleAfter(TRUE, filename)
        /\ UNCHANGED <<pc, target, fromQuit, filename, files, askOnQuit, failed>>
    BY <1>10 DEF Persist!Output
  <2>2. items' \subseteq Persist!Items /\ nextItem' \in 1 .. MaxItems
    BY <1>0, <2>1, PersistAssumption DEF Persist!ConstantsFit, Persist!Items
  <2>3. title' \in [name : FileNames \cup {None}, star : BOOLEAN]
    BY <1>0, <2>1 DEF Persist!Title, Persist!TitleAfter
  <2> QED
    BY <1>0, <2>1, <2>2, <2>3 DEF Persist!TypeOK, Persist!Items
<1>11. ASSUME NEW gone \in SUBSET items, NEW marked \in BOOLEAN, Persist!Discard(gone, marked)
       PROVE  Persist!TypeOK'
  <2>1. /\ pc' = "main" /\ items' = items \ gone /\ modified' = (modified \/ marked \/ gone # {})
        /\ filename' = None /\ title' = Persist!Title(None, FALSE)
        /\ UNCHANGED <<target, fromQuit, files, askOnQuit, failed, nextItem>>
    BY <1>11 DEF Persist!Discard
  <2>2. title' \in [name : FileNames \cup {None}, star : BOOLEAN]
    BY <2>1 DEF Persist!Title
  <2>3. items' \subseteq Persist!Items /\ modified' \in BOOLEAN
    BY <1>0, <2>1
  <2> QED
    BY <1>0, <2>1, <2>2, <2>3 DEF Persist!TypeOK, Persist!Items
<1>12. ASSUME Persist!Start PROVE Persist!TypeOK'
  <2>1. /\ pc' = "main" /\ items' = {} /\ modified' = TRUE /\ filename' = None
        /\ title' = Persist!Title(None, FALSE)
        /\ UNCHANGED <<target, fromQuit, files, askOnQuit, failed, nextItem>>
    BY <1>12 DEF Persist!Start
  <2>2. title' \in [name : FileNames \cup {None}, star : BOOLEAN]
    BY <2>1 DEF Persist!Title
  <2> QED
    BY <1>0, <2>1, <2>2 DEF Persist!TypeOK, Persist!Items
<1>13. CASE UNCHANGED Persist!vars
  BY <1>0, <1>13 DEF Persist!vars, Persist!editVars, Persist!TypeOK, Persist!Items
<1> QED
  BY <1>2, <1>3, <1>4, <1>5, <1>6, <1>8, <1>9, <1>10, <1>11, <1>12, <1>13
     DEF Persist!Next, Persist!UserActs

\* What a file holds is in the history that was loaded from it or saved to it, the title has
\* a star exactly if they may differ, and, unless a write failed, what is not marked as
\* modified is in a file.
THEOREM HistoryRight == Persist!Spec => []HistoryIsRight
<1>1. Persist!Init => PersistIInv /\ Persist!TypeOK /\ Persist!UnmodifiedIsSaved
  BY PersistInit, PersistTypesInit DEF Persist!Init, Persist!UnmodifiedIsSaved
<1>2. /\ PersistIInv /\ Persist!TypeOK /\ Persist!UnmodifiedIsSaved
      /\ [Persist!Next]_Persist!vars
      => (PersistIInv /\ Persist!TypeOK /\ Persist!UnmodifiedIsSaved)'
  BY PersistStep, PersistTypes, UnmodifiedStep
<1>3. PersistIInv /\ Persist!TypeOK /\ Persist!UnmodifiedIsSaved => HistoryIsRight
  BY DEF PersistIInv, HistoryIsRight
<1> QED
  BY <1>1, <1>2, <1>3, PTL DEF Persist!Spec

\* Quitting loses no history that the user did not give up, unless a write failed since it
\* was saved, and a file changes into the whole history or, when it is cut short, a part.
THEOREM HistoryKept == Persist!Spec => QuitKeepsHistory
<1>1. Persist!Init => PersistIInv /\ Persist!UnmodifiedIsSaved
  BY PersistInit DEF Persist!Init, Persist!UnmodifiedIsSaved
<1>2. PersistIInv /\ Persist!UnmodifiedIsSaved /\ [Persist!Next]_Persist!vars
        => PersistIInv' /\ Persist!UnmodifiedIsSaved'
  BY PersistStep, UnmodifiedStep
<1>3. PersistIInv /\ Persist!UnmodifiedIsSaved /\ [Persist!Next]_Persist!vars
        => [failed' \/ Persist!KeepsHistory]_Persist!vars
  BY QuitKeeps
<1>4. PersistIInv /\ [Persist!Next]_Persist!vars =>
        [\A f \in FileNames : files'[f] # files[f] =>
           \/ files'[f] = Persist!File("history", items)
           \/ files'[f] \in Persist!CutShort /\ (pc' = "dead" \/ modified' = modified)]_Persist!vars
  BY FilesChange
<1> QED
  BY <1>1, <1>2, <1>3, <1>4, PTL
     DEF Persist!Spec, QuitKeepsHistory, Persist!QuitKeepsHistory, Persist!FilesHoldParts
===============================================================================
