----------------------------- MODULE FeedProofs -----------------------------
(***************************************************************************)
(* The downloads, the import of a feed and the timetable in memory for any *)
(* archives, versions, lines, runs, searches, changes and faults: what is  *)
(* imported is a whole download, a run that succeeds leaves the version it *)
(* read, an import is skipped only while that version is there, and a      *)
(* timetable under the revision of the data is the whole schedule.         *)
(***************************************************************************)
EXTENDS RoutingSnapshot, RawRuns, StopMerges, FiniteSetTheorems, TLAPS

-----------------------------------------------------------------------------
(* What is kept of a sequence. *)

\* The places of what is kept are in its order ...
LEMMA PlacesInOrder ==
  ASSUME NEW kept, kept \subseteq Nat, IsFiniteSet(kept),
         NEW m \in kept, NEW n \in kept, m < n
  PROVE  Place(m, kept) < Place(n, kept)
<1>. DEFINE A == {x \in kept : x <= m}
            B == {x \in kept : x <= n}
<1>1. m \in Nat /\ n \in Nat /\ \A x \in kept : x \in Nat
  OBVIOUS
<1>0. A \subseteq B
  <2>1. \A x \in kept : x <= m => x <= n
    BY <1>1
  <2>. QED
    BY <2>1
<1>6. n \in B /\ n \notin A
  BY <1>1
<1>2. B \subseteq kept
  OBVIOUS
<1>. HIDE DEF A, B
<1>3. IsFiniteSet(B)
  BY <1>2, FS_Subset
<1>4. IsFiniteSet(A) /\ Cardinality(A) <= Cardinality(B) /\ Cardinality(A) # Cardinality(B)
  BY <1>0, <1>6, <1>3, FS_Subset
<1>5. Cardinality(A) \in Nat /\ Cardinality(B) \in Nat
  BY <1>3, <1>4, FS_CardinalityType
<1>. QED
  BY <1>4, <1>5 DEF A, B, Place

\* ... and leave no gap.
LEMMA PlacesFill ==
  ASSUME NEW kept, kept \subseteq Nat, IsFiniteSet(kept)
  PROVE  /\ Cardinality(kept) \in Nat
         /\ \A n \in kept : Place(n, kept) \in 1 .. Cardinality(kept)
         /\ \A i \in 1 .. Cardinality(kept) : \E n \in kept : Place(n, kept) = i
<1>1. Cardinality(kept) \in Nat
  BY FS_CardinalityType
<1>2. ASSUME NEW n \in kept PROVE Place(n, kept) \in 1 .. Cardinality(kept)
  <2>. DEFINE A == {x \in kept : x <= n}
  <2>1. A \subseteq kept /\ n \in A
    OBVIOUS
  <2>. HIDE DEF A
  <2>2. IsFiniteSet(A) /\ Cardinality(A) <= Cardinality(kept)
    BY <2>1, FS_Subset
  <2>3. Cardinality(A) \in Nat /\ Cardinality(A) # 0
    BY <2>1, <2>2, FS_CardinalityType, FS_EmptySet
  <2>. QED
    BY <1>1, <2>2, <2>3 DEF A, Place
<1>. DEFINE T == 1 .. Cardinality(kept)
            f == [n \in kept |-> Place(n, kept)]
<1>3. f \in [kept -> T]
  BY <1>2
<1>0. \A m, n \in kept : m < n => Place(m, kept) < Place(n, kept)
  BY PlacesInOrder, Zenon
<1>4. ASSUME NEW m \in kept, NEW n \in kept, f[m] = f[n] PROVE m = n
  <2>1. Place(m, kept) = Place(n, kept) /\ Place(m, kept) \in Nat
    BY <1>1, <1>2, <1>4
  <2>2. ~(m < n) /\ ~(n < m)
    BY <1>0, <2>1
  <2>3. m \in Nat /\ n \in Nat
    OBVIOUS
  <2>. QED
    BY <2>2, <2>3
<1>5. IsFiniteSet(T) /\ Cardinality(T) = Cardinality(kept)
  BY <1>1, FS_Interval
<1>6. f \in Surjection(kept, T)
  <2>0. DOMAIN f = kept
    OBVIOUS
  <2>. HIDE DEF T, f
  <2>1. f \in Injection(kept, T)
    BY <1>3, <1>4, <2>0, Zenon DEF Injection, IsInjective
  <2>. QED
    BY <1>5, <2>1, FS_Injection
<1>. QED
  BY <1>1, <1>2, <1>6 DEF Surjection

LEMMA KeptParts ==
  ASSUME NEW s, NEW kept, kept \subseteq Nat, IsFiniteSet(kept)
  PROVE  /\ DOMAIN Kept(s, kept) = 1 .. Cardinality(kept)
         /\ \A n \in kept : Kept(s, kept)[Place(n, kept)] = s[n]
         /\ \A i \in 1 .. Cardinality(kept) : \E n \in kept :
              Place(n, kept) = i /\ Kept(s, kept)[i] = s[n]
<1>1. DOMAIN Kept(s, kept) = 1 .. Cardinality(kept)
  BY DEF Kept
<1>5. \A m, n \in kept : m < n => Place(m, kept) < Place(n, kept)
  BY PlacesInOrder, Zenon
<1>6. Cardinality(kept) \in Nat /\ \A n \in kept : Place(n, kept) \in 1 .. Cardinality(kept)
  BY PlacesFill, Zenon
<1>2. \A m, n \in kept : Place(m, kept) = Place(n, kept) => m = n
  <2>1. ASSUME NEW m \in kept, NEW n \in kept, Place(m, kept) = Place(n, kept) PROVE m = n
    <3>1. Place(m, kept) \in Nat
      BY <1>6
    <3>2. ~(m < n) /\ ~(n < m)
      BY <2>1, <3>1, <1>5
    <3>3. m \in Nat /\ n \in Nat
      OBVIOUS
    <3>. QED
      BY <3>2, <3>3
  <2>. QED
    BY <2>1, Zenon
<1>3. ASSUME NEW n \in kept PROVE Kept(s, kept)[Place(n, kept)] = s[n]
  <2>1. Place(n, kept) \in 1 .. Cardinality(kept)
    BY <1>6
  <2>2. (CHOOSE m \in kept : Place(m, kept) = Place(n, kept)) = n
    BY <1>2
  <2>. QED
    BY <2>1, <2>2 DEF Kept
<1>4. ASSUME NEW i \in 1 .. Cardinality(kept)
      PROVE  \E n \in kept : Place(n, kept) = i /\ Kept(s, kept)[i] = s[n]
  <2>1. PICK n \in kept : Place(n, kept) = i
    BY PlacesFill
  <2>. QED
    BY <1>3, <2>1, Zenon
<1>. QED
  BY <1>1, <1>3, <1>4, Zenon

\* What is picked among the places of a sequence.
LEMMA PlacesOfSequence ==
  ASSUME NEW D, NEW s \in Seq(D), NEW S, S \subseteq DOMAIN s
  PROVE  S \subseteq Nat /\ S \subseteq Nat \ {0} /\ IsFiniteSet(S)
<1>1. Len(s) \in Nat /\ DOMAIN s = 1 .. Len(s)
  OBVIOUS
<1>2. IsFiniteSet(1 .. Len(s))
  BY <1>1, FS_Interval
<1>3. IsFiniteSet(S)
  BY <1>1, <1>2, FS_Subset, Zenon
<1>. QED
  BY <1>1, <1>3

\* What is left of a sequence is a sequence of the same things.
LEMMA KeptType ==
  ASSUME NEW D, NEW s \in Seq(D), NEW kept, kept \subseteq DOMAIN s
  PROVE  /\ Kept(s, kept) \in Seq(D)
         /\ Len(Kept(s, kept)) = Cardinality(kept)
         /\ DOMAIN Kept(s, kept) = 1 .. Cardinality(kept)
         /\ \A n \in kept : /\ Place(n, kept) \in DOMAIN Kept(s, kept)
                             /\ Kept(s, kept)[Place(n, kept)] = s[n]
         /\ \A i \in DOMAIN Kept(s, kept) : \E n \in kept :
              Place(n, kept) = i /\ Kept(s, kept)[i] = s[n]
<1>1. kept \subseteq Nat /\ IsFiniteSet(kept)
  BY PlacesOfSequence, Zenon
<1>2. Cardinality(kept) \in Nat /\ \A n \in kept : Place(n, kept) \in 1 .. Cardinality(kept)
  BY <1>1, PlacesFill, Zenon
<1>3. /\ DOMAIN Kept(s, kept) = 1 .. Cardinality(kept)
      /\ \A n \in kept : Kept(s, kept)[Place(n, kept)] = s[n]
      /\ \A i \in 1 .. Cardinality(kept) : \E n \in kept :
           Place(n, kept) = i /\ Kept(s, kept)[i] = s[n]
  <2>1. DOMAIN Kept(s, kept) = 1 .. Cardinality(kept)
    BY DEF Kept
  <2>2. ASSUME NEW n \in kept PROVE Kept(s, kept)[Place(n, kept)] = s[n]
    BY <1>1, KeptParts, Zenon
  <2>3. ASSUME NEW i \in 1 .. Cardinality(kept)
        PROVE  \E n \in kept : Place(n, kept) = i /\ Kept(s, kept)[i] = s[n]
    <3>1. PICK n \in kept : Place(n, kept) = i
      BY <1>1, PlacesFill, Zenon
    <3>. QED
      BY <2>2, <3>1, Zenon
  <2>. QED
    BY <2>1, <2>2, <2>3, Zenon
<1>4. \A n \in kept : s[n] \in D
  OBVIOUS
<1>5. \A i \in 1 .. Cardinality(kept) : Kept(s, kept)[i] \in D
  BY <1>3, <1>4, Zenon
<1>6. Kept(s, kept) \in [1 .. Cardinality(kept) -> D]
  <2>. DEFINE G(i) == s[CHOOSE n \in kept : Place(n, kept) = i]
  <2>1. Kept(s, kept) = [i \in 1 .. Cardinality(kept) |-> G(i)]
    BY DEF Kept
  <2>. HIDE DEF G
  <2>2. \A i \in 1 .. Cardinality(kept) : G(i) \in D
    BY <1>5, <2>1
  <2>. QED
    BY <2>1, <2>2
<1>7. Kept(s, kept) \in Seq(D) /\ Len(Kept(s, kept)) = Cardinality(kept)
  BY <1>2, <1>6
<1>. QED
  BY <1>2, <1>3, <1>7, Zenon

\* The newest of finitely many is among them and after all others.
LEMMA NewestIs ==
  ASSUME NEW S, S \subseteq Nat \ {0}, IsFiniteSet(S)
  PROVE  IF S = {} THEN NewestIn(S) = 0
         ELSE /\ NewestIn(S) \in S /\ NewestIn(S) # 0
              /\ \A m \in S : m <= NewestIn(S)
<1>1. SUFFICES ASSUME S # {} PROVE \E n \in S : \A m \in S : m <= n
  BY DEF NewestIn
<1>2. S \subseteq Nat
  OBVIOUS
<1>3. Cardinality(S) \in Nat /\ Cardinality(S) # 0
  BY <1>1, FS_CardinalityType, FS_EmptySet
<1>7. Cardinality(S) \in 1 .. Cardinality(S)
  BY <1>3
<1>4. PICK n \in S : Place(n, S) = Cardinality(S)
  BY <1>2, <1>7, PlacesFill, Zenon
<1>. DEFINE A == {m \in S : m <= n}
<1>5. A \subseteq S /\ Cardinality(A) = Cardinality(S)
  BY <1>4 DEF Place
<1>6. A = S
  <2>. HIDE DEF A
  <2>. QED
    BY <1>5, FS_Subset
<1>. QED
  BY <1>6

-----------------------------------------------------------------------------
(* The downloads.                                                          *)

\* What is put into a run changes one of its archives.
LEMMA Putting ==
  ASSUME RawInv, pass.run \in DOMAIN dirs, NEW a \in Archives, NEW content \in Contents,
         Put(a, content)
  PROVE  /\ dirs' \in Seq(Directory) /\ DOMAIN dirs' = DOMAIN dirs
         /\ \A n \in DOMAIN dirs : n # pass.run => dirs'[n] = dirs[n]
         /\ dirs'[pass.run].manifest = dirs[pass.run].manifest
         /\ dirs'[pass.run].file = [dirs[pass.run].file EXCEPT ![a] = content]
         /\ dirs'[pass.run].file \in [Archives -> Contents]
<1>. DEFINE n == pass.run
<1>1. dirs \in Seq(Directory) /\ dirs[n] \in Directory /\ n \in DOMAIN dirs
  BY DEF RawInv, RawTypeOK
<1>2. [dirs[n] EXCEPT !.file[a] = content] \in Directory
  <2>1. [dirs[n].file EXCEPT ![a] = content] \in [Archives -> Contents]
    BY <1>1 DEF Directory
  <2>. QED
    BY <1>1, <2>1, Zenon DEF Directory
<1>3. dirs' = [dirs EXCEPT ![n] = [dirs[n] EXCEPT !.file[a] = content]]
  BY DEF Put
<1>4. dirs[n] \in [file : [Archives -> Contents], manifest : [Archives -> Contents],
                   old : BOOLEAN]
  BY <1>1 DEF Directory
<1>. HIDE DEF n
<1>5. dirs' \in Seq(Directory)
  BY <1>1, <1>2, <1>3
<1>6. /\ DOMAIN dirs' = DOMAIN dirs
      /\ \A m \in DOMAIN dirs : m # n => dirs'[m] = dirs[m]
      /\ dirs'[n] = [dirs[n] EXCEPT !.file[a] = content]
  BY <1>1, <1>3
<1>7. /\ dirs'[n].manifest = dirs[n].manifest
      /\ dirs'[n].file = [dirs[n].file EXCEPT ![a] = content]
      /\ dirs'[n].file \in [Archives -> Contents]
  BY <1>2, <1>4, <1>6 DEF Directory
<1>. QED
  BY <1>5, <1>6, <1>7 DEF n

\* A run that is found again is whole.
LEMMA ReusableIsWhole ==
  ASSUME RawInv
  PROVE  ReusableRun \in Nat /\ (ReusableRun # 0 => ReusableRun \in DOMAIN dirs /\ Whole(ReusableRun))
<1>. DEFINE S == {n \in DOMAIN dirs : Listed(n) /\ HasFiles(n) /\ ~Unreadable(n)}
<1>1. dirs \in Seq(Directory)
  BY DEF RawInv, RawTypeOK
<1>3. S \subseteq DOMAIN dirs
  OBVIOUS
<1>4. \A n \in S : Whole(n)
  BY DEF RawInv, ManifestsOK, Listed, Unreadable
<1>. HIDE DEF S
<1>5. S \subseteq Nat \ {0} /\ IsFiniteSet(S)
  BY <1>1, <1>3, PlacesOfSequence, Zenon
<1>6. S \subseteq Nat
  BY <1>5
<1>7. IF S = {} THEN NewestIn(S) = 0 ELSE NewestIn(S) \in S
  BY <1>5, NewestIs, Zenon
<1>8. ReusableRun = NewestIn(S)
  BY DEF ReusableRun, S
<1>. QED
  BY <1>3, <1>4, <1>6, <1>7, <1>8

\* What the pass may hold, in parts.
LEMMA PassParts ==
  ASSUME RawInv
  PROVE  /\ archived \in [Archives -> 1 .. MaxVersions] /\ down \subseteq Archives
         /\ dirs \in Seq(Directory) /\ pass \in Pass
         /\ pass.run \in Nat /\ pass.reusable \in Nat /\ pass.left \subseteq Archives
         /\ pass.remote \in [Archives -> 0 .. MaxVersions]
         /\ NoManifest \in [Archives -> Contents] /\ HalfWritten \in [Archives -> Contents]
         /\ Idle \in Pass /\ Idle.at = "idle" /\ Created \in Directory
         /\ Answer \in [Archives -> 0 .. MaxVersions]
<1>. USE RawAssumption
<1>1. /\ archived \in [Archives -> 1 .. MaxVersions] /\ down \subseteq Archives
      /\ dirs \in Seq(Directory) /\ pass \in Pass
  BY DEF RawInv, RawTypeOK
<1>2. NoManifest \in [Archives -> Contents] /\ HalfWritten \in [Archives -> Contents]
  BY DEF NoManifest, HalfWritten, Contents, Cut
<1>3. NoManifest \in [Archives -> 0 .. MaxVersions]
  BY DEF NoManifest
<1>4. Idle \in Pass /\ Idle.at = "idle"
  BY <1>3 DEF Idle, Pass
<1>5. Created \in Directory
  BY <1>2 DEF Created, Directory
<1>6. Answer \in [Archives -> 0 .. MaxVersions]
  BY <1>1 DEF Answer
<1>. QED
  BY <1>1, <1>2, <1>4, <1>5, <1>6 DEF Pass

\* A step that leaves the directories alone moves the pass only.
LEMMA PassMoves ==
  ASSUME RawInv, dirs' = dirs, archived' \in [Archives -> 1 .. MaxVersions],
         down' \subseteq Archives, pass' \in Pass,
         pass'.at \in {"comparing", "fetching", "writing"} /\ pass'.reusable # 0 =>
            pass'.reusable \in DOMAIN dirs /\ Whole(pass'.reusable),
         pass'.at \notin {"fetching", "writing", "listing"} \/ pass' = pass,
         pass'.at \in {"checked", "pruning", "importing"} =>
            pass'.run \in DOMAIN dirs /\ Whole(pass'.run)
  PROVE  RawInv'
<1>1. RawTypeOK'
  BY DEF RawInv, RawTypeOK
<1>2. ManifestsOK'
  BY DEF RawInv, ManifestsOK, Whole
<1>3. ReusableOK'
  BY DEF ReusableOK, Whole
<1>4. FetchedOK'
  BY DEF RawInv, FetchedOK
<1>5. ListedOK'
  BY DEF ListedOK, Whole
<1>. QED
  BY <1>1, <1>2, <1>3, <1>4, <1>5 DEF RawInv

LEMMA LookStep ==
  ASSUME RawInv, Look PROVE RawInv'
<1>1. ReusableRun \in Nat /\ (ReusableRun # 0 => ReusableRun \in DOMAIN dirs /\ Whole(ReusableRun))
  BY ReusableIsWhole
<1>2. pass' = [Idle EXCEPT !.at = "comparing", !.reusable = ReusableRun, !.remote = Answer]
  BY DEF Look
<1>3. pass' \in Pass
  BY <1>1, <1>2, PassParts, Zenon DEF Pass
<1>4. pass'.at = "comparing" /\ pass'.reusable = ReusableRun
  BY <1>2 DEF Idle
<1>. QED
  BY <1>1, <1>3, <1>4, PassParts, PassMoves DEF Look

LEMMA ReuseStep ==
  ASSUME RawInv, Reuse PROVE RawInv'
<1>1. PICK a \in Archives : TRUE
  BY RawAssumption
<1>2. pass.reusable # 0 /\ pass.at = "comparing"
  BY <1>1 DEF Reuse, CanReuse
<1>3. pass.reusable \in DOMAIN dirs /\ Whole(pass.reusable)
  BY <1>2 DEF RawInv, ReusableOK
<1>4. pass' = [pass EXCEPT !.at = IF Fallback THEN "checked" ELSE "pruning",
                           !.run = pass.reusable]
  BY DEF Reuse
<1>5. pass' \in Pass
  BY <1>4, PassParts, Zenon DEF Pass
<1>6. pass'.at \in {"checked", "pruning"} /\ pass'.run = pass.reusable
  BY <1>4, PassParts DEF Pass
<1>. QED
  BY <1>3, <1>5, <1>6, PassParts, PassMoves DEF Reuse

LEMMA RewriteStep ==
  ASSUME RawInv, Rewrite PROVE RawInv'
<1>1. pass.run \in DOMAIN dirs /\ Whole(pass.run)
  BY DEF Rewrite, RawInv, ListedOK
<1>2. pass' = [pass EXCEPT !.at = "pruning"]
  BY DEF Rewrite
<1>3. pass' \in Pass /\ pass'.at = "pruning" /\ pass'.run = pass.run
  BY <1>2, PassParts DEF Pass
<1>. QED
  BY <1>1, <1>3, PassParts, PassMoves DEF Rewrite

\* Where the pass ends, nothing is at hand any more.
LEMMA PassEnds ==
  ASSUME RawInv, UNCHANGED <<archived, down, dirs>>, pass' = Idle
  PROVE  RawInv'
  BY PassParts, PassMoves

LEMMA OutsideStep ==
  ASSUME RawInv, NEW a \in Archives, PublishArchive(a) \/ Outage(a) \/ Restored(a)
  PROVE  RawInv'
<1>1. dirs' = dirs /\ pass' = pass
  BY DEF PublishArchive, Outage, Restored
<1>2. archived' \in [Archives -> 1 .. MaxVersions]
  <2>1. archived \in [Archives -> 1 .. MaxVersions]
    BY PassParts
  <2>2. CASE PublishArchive(a)
    <3>1. archived[a] + 1 \in 1 .. MaxVersions /\ archived' = [archived EXCEPT ![a] = archived[a] + 1]
      BY <2>1, <2>2, RawAssumption DEF PublishArchive
    <3>. QED
      BY <2>1, <3>1
  <2>. QED
    BY <2>1, <2>2 DEF Outage, Restored
<1>3. down' \subseteq Archives
  BY PassParts DEF PublishArchive, Outage, Restored
<1>4. /\ pass'.at \in {"comparing", "fetching", "writing"} /\ pass'.reusable # 0 =>
           pass'.reusable \in DOMAIN dirs /\ Whole(pass'.reusable)
      /\ pass'.at \in {"checked", "pruning", "importing"} =>
           pass'.run \in DOMAIN dirs /\ Whole(pass'.run)
  BY <1>1 DEF RawInv, ReusableOK, ListedOK
<1>. QED
  BY <1>1, <1>2, <1>3, <1>4, PassParts, PassMoves

\* A run without a manifest is not whole.
LEMMA UnlistedIsNotWhole ==
  ASSUME RawInv, NEW n \in DOMAIN dirs, dirs[n].manifest \in {NoManifest, HalfWritten}
  PROVE  ~Whole(n)
<1>1. PICK a \in Archives : TRUE
  BY RawAssumption
<1>2. dirs[n].manifest[a] = 0 \/ dirs[n].manifest[a] = MaxVersions + 1
  BY <1>1 DEF NoManifest, HalfWritten, Cut
<1>. QED
  BY <1>1, <1>2, RawAssumption DEF Whole

\* While a run is fetched, no other run changes, and it is not found again.
LEMMA PutStep ==
  ASSUME RawInv, pass.at \in {"fetching", "writing"}, NEW a \in Archives,
         NEW content \in Contents, Put(a, content), UNCHANGED <<archived, down>>,
         pass' \in Pass, pass'.run = pass.run, pass'.reusable = pass.reusable,
         pass'.at \in {"fetching", "writing", "listing"},
         content = Cut => pass'.at = "writing",
         \A b \in Archives : b # a => dirs[pass.run].file[b] # Cut
  PROVE  RawInv'
<1>1. pass.run \in DOMAIN dirs /\ dirs[pass.run].manifest = NoManifest
  BY DEF RawInv, FetchedOK
<1>2. /\ dirs' \in Seq(Directory) /\ DOMAIN dirs' = DOMAIN dirs
      /\ \A n \in DOMAIN dirs : n # pass.run => dirs'[n] = dirs[n]
      /\ dirs'[pass.run].manifest = NoManifest
      /\ dirs'[pass.run].file = [dirs[pass.run].file EXCEPT ![a] = content]
  BY <1>1, Putting
<1>3. dirs[pass.run].file \in [Archives -> Contents]
  <2>1. dirs \in Seq(Directory)
    BY PassParts
  <2>2. dirs[pass.run] \in Directory
    BY <1>1, <2>1
  <2>. QED
    BY <2>2 DEF Directory
<1>4. RawTypeOK'
  BY <1>2, PassParts DEF RawTypeOK
<1>5. ManifestsOK'
  <2>1. ASSUME NEW n \in DOMAIN dirs'
        PROVE  dirs'[n].manifest \in {NoManifest, HalfWritten} \/ Whole(n)'
    <3>1. CASE n = pass.run
      BY <1>2, <3>1
    <3>2. CASE n # pass.run
      BY <1>2, <3>2 DEF RawInv, ManifestsOK, Whole
    <3>. QED
      BY <3>1, <3>2
  <2>. QED
    BY <2>1, Zenon DEF ManifestsOK, NoManifest, HalfWritten, Cut
<1>6. ReusableOK'
  <2>1. SUFFICES ASSUME pass.reusable # 0
                 PROVE  pass.reusable \in DOMAIN dirs' /\ Whole(pass.reusable)'
    BY DEF ReusableOK, Whole
  <2>2. pass.reusable \in DOMAIN dirs /\ Whole(pass.reusable)
    BY <2>1 DEF RawInv, ReusableOK
  <2>3. pass.reusable # pass.run
    BY <1>1, <2>2, UnlistedIsNotWhole
  <2>. QED
    BY <1>2, <2>2, <2>3 DEF Whole
<1>7. FetchedOK'
  <2>1. \A b \in Archives : dirs'[pass.run].file[b] = Cut => b = a /\ content = Cut
    BY <1>2, <1>3
  <2>. QED
    BY <1>1, <1>2, <2>1 DEF FetchedOK, NoManifest, Cut
<1>8. ListedOK'
  BY DEF ListedOK
<1>. QED
  BY <1>4, <1>5, <1>6, <1>7, <1>8 DEF RawInv

LEMMA DoneParts ==
  ASSUME RawInv, NEW a \in Archives, Done(a)
  PROVE  /\ pass' \in Pass /\ pass'.run = pass.run /\ pass'.reusable = pass.reusable
         /\ pass'.at \in {"fetching", "listing"}
<1>1. pass' = [pass EXCEPT !.left = pass.left \ {a},
                           !.at = IF pass.left = {a} THEN "listing" ELSE "fetching"]
  BY PassParts DEF Done, Pass
<1>2. pass.left \ {a} \in SUBSET Archives
  BY PassParts
<1>3. pass' \in Pass
  BY <1>1, <1>2, PassParts, Zenon DEF Pass
<1>. QED
  BY <1>1, <1>3, PassParts DEF Pass

LEMMA LinkStep ==
  ASSUME RawInv, NEW a \in Archives, Link(a) PROVE RawInv'
<1>1. pass.at = "fetching" /\ pass.reusable # 0
  BY DEF Link, CanReuse
<1>2. dirs[pass.reusable].file[a] \in 1 .. MaxVersions
  BY <1>1 DEF RawInv, ReusableOK, Whole
<1>3. dirs[pass.reusable].file[a] \in Contents /\ dirs[pass.reusable].file[a] # Cut
  BY <1>2, RawAssumption DEF Contents, Cut
<1>4. \A b \in Archives : b # a => dirs[pass.run].file[b] # Cut
  BY <1>1 DEF RawInv, FetchedOK
<1>5. Done(a) /\ Put(a, dirs[pass.reusable].file[a]) /\ UNCHANGED <<archived, down>>
  BY DEF Link
<1>. QED
  BY <1>1, <1>3, <1>4, <1>5, DoneParts, PutStep

LEMMA FlushStep ==
  ASSUME RawInv, NEW a \in Archives, Flush(a) PROVE RawInv'
<1>1. pass.at = "writing" /\ dirs[pass.run].file[a] = Cut
  BY DEF Flush
<1>2. pass.remote[a] \in 0 .. MaxVersions
  BY PassParts
<1>3. pass.remote[a] \in Contents /\ pass.remote[a] # Cut
  BY <1>2, RawAssumption DEF Contents, Cut
<1>4. \A b \in Archives : b # a => dirs[pass.run].file[b] # Cut
  BY <1>1 DEF RawInv, FetchedOK
<1>5. Done(a) /\ Put(a, pass.remote[a]) /\ UNCHANGED <<archived, down>>
  BY DEF Flush
<1>. QED
  BY <1>1, <1>3, <1>4, <1>5, DoneParts, PutStep

LEMMA GetStep ==
  ASSUME RawInv, NEW a \in Archives, Get(a) PROVE RawInv'
<1>1. pass.at = "fetching" /\ UNCHANGED <<archived, down>>
  BY DEF Get
<1>2. \A b \in Archives : dirs[pass.run].file[b] # Cut
  BY <1>1 DEF RawInv, FetchedOK
<1>3. CASE a \notin down
  <2>1. Put(a, Cut) /\ pass' = [pass EXCEPT !.at = "writing", !.remote[a] = archived[a]]
    BY <1>3 DEF Get
  <2>2. pass' = [pass EXCEPT !.at = "writing", !.remote = [pass.remote EXCEPT ![a] = archived[a]]]
    BY <2>1, PassParts DEF Pass
  <2>3. [pass.remote EXCEPT ![a] = archived[a]] \in [Archives -> 0 .. MaxVersions]
    BY PassParts
  <2>4. pass' \in Pass
    BY <2>2, <2>3, PassParts, Zenon DEF Pass
  <2>5. pass'.at = "writing" /\ pass'.run = pass.run /\ pass'.reusable = pass.reusable
    BY <2>2, PassParts DEF Pass
  <2>6. Cut \in Contents
    BY RawAssumption DEF Cut, Contents
  <2>. QED
    BY <1>1, <1>2, <2>1, <2>4, <2>5, <2>6, PutStep
<1>4. CASE a \in down /\ Fallback /\ pass.reusable # 0
  <2>1. dirs[pass.reusable].file[a] \in 1 .. MaxVersions
    BY <1>1, <1>4 DEF RawInv, ReusableOK, Whole
  <2>2. dirs[pass.reusable].file[a] \in Contents /\ dirs[pass.reusable].file[a] # Cut
    BY <2>1, RawAssumption DEF Contents, Cut
  <2>3. Put(a, dirs[pass.reusable].file[a]) /\ Done(a)
    BY <1>4 DEF Get
  <2>. QED
    BY <1>1, <1>2, <2>2, <2>3, DoneParts, PutStep
<1>5. CASE a \in down /\ Fallback /\ pass.reusable = 0
  <2>1. Done(a) /\ dirs' = dirs
    BY <1>5 DEF Get
  <2>2. /\ pass' \in Pass /\ pass'.run = pass.run /\ pass'.reusable = pass.reusable
        /\ pass'.at \in {"fetching", "listing"}
    BY <2>1, DoneParts
  <2>3. RawTypeOK'
    BY <1>1, <2>1, <2>2, PassParts DEF RawTypeOK
  <2>4. ManifestsOK'
    BY <2>1 DEF RawInv, ManifestsOK, Whole
  <2>5. ReusableOK'
    BY <1>5, <2>2 DEF ReusableOK
  <2>6. FetchedOK'
    BY <1>1, <1>2, <2>1, <2>2 DEF RawInv, FetchedOK
  <2>7. ListedOK'
    BY <2>2 DEF ListedOK
  <2>. QED
    BY <2>3, <2>4, <2>5, <2>6, <2>7 DEF RawInv
<1>6. CASE a \in down /\ ~Fallback
  BY <1>1, <1>6, PassEnds DEF Get
<1>. QED
  BY <1>3, <1>4, <1>5, <1>6

\* A run that is created has nothing in it.
LEMMA CreateStep ==
  ASSUME RawInv, Create PROVE RawInv'
<1>. DEFINE n == Len(dirs) + 1
<1>1. /\ dirs \in Seq(Directory) /\ Created \in Directory
      /\ Len(dirs) \in Nat /\ DOMAIN dirs = 1 .. Len(dirs)
  BY PassParts
<1>2. dirs' = Append(dirs, Created)
  BY DEF Create
<1>3. /\ dirs' \in Seq(Directory) /\ DOMAIN dirs' = DOMAIN dirs \cup {n}
      /\ \A m \in DOMAIN dirs : dirs'[m] = dirs[m]
      /\ dirs'[n] = Created
  BY <1>1, <1>2
<1>4. pass' = [pass EXCEPT !.at = "fetching", !.run = n, !.left = Archives]
  BY DEF Create
<1>5. n \in Nat
  BY <1>1
<1>6. pass' \in Pass
  <2>. HIDE DEF n
  <2>. QED
    BY <1>4, <1>5, PassParts, Zenon DEF Pass
<1>7. pass'.at = "fetching" /\ pass'.run = n /\ pass'.reusable = pass.reusable
  BY <1>4, PassParts DEF Pass
<1>. HIDE DEF n
<1>8. RawTypeOK'
  BY <1>3, <1>6, PassParts DEF RawTypeOK, Create
<1>9. ManifestsOK'
  <2>1. ASSUME NEW m \in DOMAIN dirs'
        PROVE  dirs'[m].manifest \in {NoManifest, HalfWritten} \/ Whole(m)'
    <3>1. CASE m = n
      BY <1>3, <3>1 DEF Created
    <3>2. CASE m \in DOMAIN dirs
      BY <1>3, <3>2 DEF RawInv, ManifestsOK, Whole
    <3>. QED
      BY <1>3, <3>1, <3>2
  <2>. QED
    BY <2>1, Zenon DEF ManifestsOK, NoManifest, HalfWritten, Cut
<1>10. ReusableOK'
  BY <1>3, <1>7 DEF RawInv, ReusableOK, Whole, Create
<1>11. FetchedOK'
  BY <1>3, <1>7, RawAssumption DEF FetchedOK, Created, NoManifest, Cut
<1>12. ListedOK'
  BY <1>7 DEF ListedOK
<1>. QED
  BY <1>8, <1>9, <1>10, <1>11, <1>12 DEF RawInv

\* What is left of the directories is as good as it was.
LEMMA DirectoriesLeft ==
  ASSUME RawInv, dirs' \in Seq(Directory), pass' = Idle, UNCHANGED <<archived, down>>,
         \A n \in DOMAIN dirs' : \E m \in DOMAIN dirs : dirs'[n] = dirs[m]
  PROVE  RawInv'
<1>1. RawTypeOK'
  BY PassParts DEF RawTypeOK
<1>2. ManifestsOK'
  <2>1. ASSUME NEW n \in DOMAIN dirs'
        PROVE  dirs'[n].manifest \in {NoManifest, HalfWritten} \/ Whole(n)'
    <3>1. PICK m \in DOMAIN dirs : dirs'[n] = dirs[m]
      OBVIOUS
    <3>. QED
      BY <3>1 DEF RawInv, ManifestsOK, Whole
  <2>. QED
    BY <2>1, Zenon DEF ManifestsOK, NoManifest, HalfWritten, Cut
<1>3. ReusableOK' /\ FetchedOK' /\ ListedOK'
  BY PassParts DEF ReusableOK, FetchedOK, ListedOK
<1>. QED
  BY <1>1, <1>2, <1>3 DEF RawInv

\* A manifest, or an age, is all that changes of one directory.
LEMMA OneDirectory ==
  ASSUME RawInv, NEW n \in DOMAIN dirs, NEW d \in Directory,
         dirs' = [dirs EXCEPT ![n] = d], pass' \in Pass, UNCHANGED <<archived, down>>,
         d.manifest \in {NoManifest, HalfWritten} \/
            (d.manifest = d.file /\ \A a \in Archives : d.file[a] \in 1 .. MaxVersions)
  PROVE  /\ RawTypeOK' /\ ManifestsOK'
         /\ DOMAIN dirs' = DOMAIN dirs /\ dirs'[n] = d
         /\ \A m \in DOMAIN dirs : m # n => dirs'[m] = dirs[m]
<1>1. dirs \in Seq(Directory)
  BY PassParts
<1>2. /\ dirs' \in Seq(Directory) /\ DOMAIN dirs' = DOMAIN dirs /\ dirs'[n] = d
      /\ \A m \in DOMAIN dirs : m # n => dirs'[m] = dirs[m]
  BY <1>1
<1>3. RawTypeOK'
  BY <1>2, PassParts DEF RawTypeOK
<1>4. ASSUME NEW m \in DOMAIN dirs'
      PROVE  dirs'[m].manifest \in {NoManifest, HalfWritten} \/ Whole(m)'
  <2>1. CASE m = n
    BY <1>2, <2>1 DEF Whole
  <2>2. CASE m # n
    BY <1>2, <2>2 DEF RawInv, ManifestsOK, Whole
  <2>. QED
    BY <2>1, <2>2
<1>5. ManifestsOK'
  BY <1>4, Zenon DEF ManifestsOK, NoManifest, HalfWritten, Cut
<1>. QED
  BY <1>2, <1>3, <1>5

LEMMA ListStep ==
  ASSUME RawInv, List PROVE RawInv'
<1>. DEFINE n == pass.run
<1>1. pass.at = "listing" /\ UNCHANGED <<archived, down>>
  BY DEF List
<1>2. /\ n \in DOMAIN dirs /\ dirs[n].manifest = NoManifest
      /\ \A a \in Archives : dirs[n].file[a] # Cut
  BY <1>1 DEF RawInv, FetchedOK
<1>3. dirs \in Seq(Directory)
  BY PassParts
<1>4. dirs[n] \in Directory
  BY <1>2, <1>3
<1>5. CASE HasFiles(n)
  <2>. DEFINE d == [dirs[n] EXCEPT !.manifest = dirs[n].file]
  <2>1. dirs[n].file \in [Archives -> Contents]
    BY <1>4 DEF Directory
  <2>2. d \in Directory
    BY <1>4, <2>1, Zenon DEF Directory
  <2>3. d.manifest = dirs[n].file /\ d.file = dirs[n].file
    BY <1>4 DEF Directory
  <2>4. \A a \in Archives : dirs[n].file[a] \in 1 .. MaxVersions
    BY <1>2, <1>5, <2>1, RawAssumption DEF HasFiles, Contents, Cut
  <2>5. dirs' = [dirs EXCEPT ![n] = d] /\ pass' = [pass EXCEPT !.at = "pruning"]
    BY <1>5 DEF List
  <2>6. pass' \in Pass /\ pass'.at = "pruning" /\ pass'.run = n
    BY <2>5, PassParts DEF Pass
  <2>. HIDE DEF n, d
  <2>7. RawTypeOK' /\ ManifestsOK' /\ dirs'[n] = d /\ n \in DOMAIN dirs'
    BY <1>1, <1>2, <2>2, <2>3, <2>4, <2>5, <2>6, OneDirectory
  <2>8. ReusableOK' /\ FetchedOK' /\ ListedOK'
    BY <2>3, <2>4, <2>6, <2>7 DEF ReusableOK, FetchedOK, ListedOK, Whole
  <2>. QED
    BY <2>7, <2>8 DEF RawInv
<1>6. CASE ~HasFiles(n)
  <2>1. dirs' = Front(dirs) /\ pass' = Idle
    BY <1>6 DEF List
  <2>2. Len(dirs) \in Nat \ {0}
    BY <1>2, <1>3
  <2>3. /\ dirs' \in Seq(Directory) /\ DOMAIN dirs' \subseteq DOMAIN dirs
        /\ \A m \in DOMAIN dirs' : dirs'[m] = dirs[m]
    BY <1>3, <2>1, <2>2 DEF Front
  <2>. QED
    BY <1>1, <2>1, <2>3, DirectoriesLeft
<1>. QED
  BY <1>5, <1>6

LEMMA CrashStep ==
  ASSUME RawInv, Crash PROVE RawInv'
<1>1. pass' = Idle /\ UNCHANGED <<archived, down>>
  BY DEF Crash
<1>2. CASE dirs' = dirs
  BY <1>1, <1>2, PassEnds
<1>3. CASE dirs' # dirs
  <2>. DEFINE n == pass.run
              d == [dirs[n] EXCEPT !.manifest = HalfWritten]
  <2>1. pass.at \in {"listing", "checked"} /\ dirs' = [dirs EXCEPT ![n] = d]
    BY <1>3 DEF Crash
  <2>2. n \in DOMAIN dirs
    BY <2>1 DEF RawInv, FetchedOK, ListedOK
  <2>3. dirs[n] \in Directory
    <3>1. dirs \in Seq(Directory)
      BY PassParts
    <3>. QED
      BY <2>2, <3>1
  <2>4. HalfWritten \in [Archives -> Contents]
    BY PassParts
  <2>5. d \in Directory
    BY <2>3, <2>4, Zenon DEF Directory
  <2>6. d.manifest = HalfWritten
    BY <2>3 DEF Directory
  <2>. HIDE DEF n, d
  <2>7. RawTypeOK' /\ ManifestsOK'
    BY <1>1, <2>1, <2>2, <2>5, <2>6, PassParts, OneDirectory
  <2>8. ReusableOK' /\ FetchedOK' /\ ListedOK'
    BY <1>1, PassParts DEF ReusableOK, FetchedOK, ListedOK
  <2>. QED
    BY <2>7, <2>8 DEF RawInv
<1>. QED
  BY <1>2, <1>3

LEMMA PruneStep ==
  ASSUME RawInv, Prune PROVE RawInv'
<1>. DEFINE complete == {n \in DOMAIN dirs : Complete(n)}
            kept == {pass.run} \cup Retained(complete)
                    \cup {n \in DOMAIN dirs \ complete : ~dirs[n].old}
<1>1. pass.at = "pruning" /\ UNCHANGED <<archived, down>>
  BY DEF Prune
<1>2. pass.run \in DOMAIN dirs /\ Whole(pass.run)
  BY <1>1 DEF RawInv, ListedOK
<1>3. /\ dirs' = Kept(dirs, kept)
      /\ pass' = [pass EXCEPT !.at = "importing", !.run = Place(pass.run, kept)]
  BY DEF Prune
<1>4. pass.run \in kept /\ kept \subseteq DOMAIN dirs
  BY <1>2 DEF Retained
<1>5. dirs \in Seq(Directory)
  BY PassParts
<1>. HIDE DEF kept
<1>6. /\ dirs' \in Seq(Directory)
      /\ \A n \in kept : Place(n, kept) \in DOMAIN dirs' /\ dirs'[Place(n, kept)] = dirs[n]
      /\ \A i \in DOMAIN dirs' : \E n \in kept : Place(n, kept) = i /\ dirs'[i] = dirs[n]
  <2>. DEFINE left == Kept(dirs, kept)
  <2>1. left \in Seq(Directory)
    BY <1>4, <1>5, KeptType, Zenon
  <2>5. kept \subseteq Nat /\ IsFiniteSet(kept)
    BY <1>4, <1>5, PlacesOfSequence, Zenon
  <2>6. DOMAIN left = 1 .. Cardinality(kept)
    BY DEF Kept
  <2>2. ASSUME NEW n \in kept
        PROVE  Place(n, kept) \in DOMAIN left /\ left[Place(n, kept)] = dirs[n]
    <3>1. left[Place(n, kept)] = dirs[n]
      BY <2>5, KeptParts, Zenon
    <3>2. Place(n, kept) \in 1 .. Cardinality(kept)
      BY <2>5, PlacesFill, Zenon
    <3>. QED
      BY <2>6, <3>1, <3>2, Zenon
  <2>3. ASSUME NEW i \in DOMAIN left
        PROVE  \E n \in kept : Place(n, kept) = i /\ left[i] = dirs[n]
    <3>0. i \in 1 .. Cardinality(kept)
      BY <2>6, Zenon
    <3>1. PICK n \in kept : Place(n, kept) = i
      BY <2>5, <3>0, PlacesFill, Zenon
    <3>. QED
      BY <2>2, <3>1, Zenon
  <2>4. dirs' = left
    BY <1>3
  <2>. HIDE DEF left
  <2>. QED
    BY <2>1, <2>2, <2>3, <2>4
<1>7. Place(pass.run, kept) \in DOMAIN dirs' /\ dirs'[Place(pass.run, kept)] = dirs[pass.run]
  BY <1>4, <1>6
<1>8. Place(pass.run, kept) \in Nat
  BY <1>6, <1>7
<1>. DEFINE k == Place(pass.run, kept)
<1>. HIDE DEF k
<1>9. pass' \in Pass
  BY <1>3, <1>8, PassParts, Zenon DEF Pass
<1>10. pass'.at = "importing" /\ pass'.run = Place(pass.run, kept)
  BY <1>3, PassParts DEF Pass
<1>11. RawTypeOK'
  BY <1>1, <1>6, <1>9, PassParts DEF RawTypeOK
<1>12. ManifestsOK'
  <2>1. ASSUME NEW i \in DOMAIN dirs'
        PROVE  dirs'[i].manifest \in {NoManifest, HalfWritten} \/ Whole(i)'
    <3>1. PICK n \in kept : dirs'[i] = dirs[n]
      BY <1>6
    <3>2. n \in DOMAIN dirs
      BY <1>4
    <3>. QED
      BY <3>1, <3>2 DEF RawInv, ManifestsOK, Whole
  <2>. QED
    BY <2>1, Zenon DEF ManifestsOK, NoManifest, HalfWritten, Cut
<1>13. ListedOK'
  BY <1>2, <1>7, <1>10 DEF ListedOK, Whole
<1>14. ReusableOK' /\ FetchedOK'
  BY <1>10 DEF ReusableOK, FetchedOK
<1>. QED
  BY <1>11, <1>12, <1>13, <1>14 DEF RawInv

LEMMA GrowOldStep ==
  ASSUME RawInv, NEW n \in DOMAIN dirs, GrowOld(n) PROVE RawInv'
<1>. DEFINE d == [dirs[n] EXCEPT !.old = TRUE]
<1>1. dirs' = [dirs EXCEPT ![n] = d] /\ pass' = pass /\ UNCHANGED <<archived, down>>
  BY DEF GrowOld
<1>2. dirs[n] \in Directory
  <2>1. dirs \in Seq(Directory)
    BY PassParts
  <2>. QED
    BY <2>1
<1>3. d \in Directory
  BY <1>2 DEF Directory
<1>4. d.manifest = dirs[n].manifest /\ d.file = dirs[n].file
  BY <1>2 DEF Directory
<1>. HIDE DEF d
<1>5. d.manifest \in {NoManifest, HalfWritten} \/
         (d.manifest = d.file /\ \A a \in Archives : d.file[a] \in 1 .. MaxVersions)
  BY <1>4 DEF RawInv, ManifestsOK, Whole
<1>6. /\ RawTypeOK' /\ ManifestsOK'
      /\ DOMAIN dirs' = DOMAIN dirs /\ dirs'[n] = d
      /\ \A m \in DOMAIN dirs : m # n => dirs'[m] = dirs[m]
  BY <1>1, <1>3, <1>5, PassParts, OneDirectory
<1>7. \A m \in DOMAIN dirs : dirs'[m].manifest = dirs[m].manifest /\ dirs'[m].file = dirs[m].file
  BY <1>4, <1>6
<1>8. ReusableOK'
  BY <1>1, <1>6, <1>7 DEF RawInv, ReusableOK, Whole
<1>9. FetchedOK'
  BY <1>1, <1>6, <1>7 DEF RawInv, FetchedOK, NoManifest, Cut
<1>10. ListedOK'
  BY <1>1, <1>6, <1>7 DEF RawInv, ListedOK, Whole
<1>. QED
  BY <1>6, <1>8, <1>9, <1>10 DEF RawInv

\* Whatever the publisher answers and wherever the process stops: a run with
\* a manifest that can be read is whole, and so is the one found again.
THEOREM DownloadsInductive == RawSpec => []RawInv
<1>1. RawInit => RawInv
  <2>. SUFFICES ASSUME RawInit PROVE RawInv
    OBVIOUS
  <2>1. RawTypeOK
    <3>1. pass \in Pass
      BY RawAssumption DEF RawInit, Idle, NoManifest, Pass
    <3>2. archived \in [Archives -> 1 .. MaxVersions]
      BY RawAssumption DEF RawInit
    <3>. QED
      BY <3>1, <3>2 DEF RawInit, RawTypeOK
  <2>. QED
    BY <2>1 DEF RawInit, RawInv, ManifestsOK, ReusableOK, FetchedOK, ListedOK, Idle
<1>2. RawInv /\ [RawNext]_rawVars => RawInv'
  <2>. SUFFICES ASSUME RawInv, [RawNext]_rawVars PROVE RawInv'
    OBVIOUS
  <2>1. CASE Step
    BY <2>1, LookStep, ReuseStep, RewriteStep, CreateStep, ListStep, PruneStep, PassEnds,
       LinkStep, GetStep, FlushStep DEF Step, TakeIn
  <2>2. CASE Crash
    BY <2>2, CrashStep
  <2>3. CASE \E a \in Archives : PublishArchive(a) \/ Outage(a) \/ Restored(a)
    BY <2>3, OutsideStep
  <2>4. CASE \E n \in DOMAIN dirs : GrowOld(n)
    BY <2>4, GrowOldStep
  <2>5. CASE UNCHANGED rawVars
    BY <2>5 DEF rawVars, RawInv, RawTypeOK, ManifestsOK, ReusableOK, FetchedOK, ListedOK, Whole
  <2>. QED
    BY <2>1, <2>2, <2>3, <2>4, <2>5 DEF RawNext
<1>. QED
  BY <1>1, <1>2, PTL DEF RawSpec

\* What is imported is a whole download, of the versions its manifest names
\* (download_*_raw_run, raw_run_is_complete, find_reusable_raw_run).
THEOREM DownloadsAreWhole == RawSpec => []ImportedIsWhole
<1>1. RawInv => ImportedIsWhole
  BY DEF RawInv, ListedOK, Whole, ImportedIsWhole
<1>. QED
  BY <1>1, DownloadsInductive, PTL

-----------------------------------------------------------------------------
(* The import.                                                             *)

\* What the rows and an importer may hold, in parts.
LEMMA FeedParts ==
  ASSUME FeedInv
  PROVE  /\ published \in Files /\ repairs \in Nat /\ finished \in Seq(Runs)
         /\ route \in [Lines -> Runs \cup {None}] /\ service \in [Lines -> Runs \cup {None}]
         /\ trip \in [Lines -> Runs \cup {None}] /\ calls \in [Lines -> Call \cup {None}]
         /\ runs \in [Runs -> ImportRun] /\ importer \in [Importers -> Importer]
         /\ seen \subseteq (Runs \X {"trip", "calls"} \X Lines)
  BY DEF FeedInv, FeedTypeOK

LEMMA ImporterParts ==
  ASSUME FeedInv, NEW p \in Importers
  PROVE  /\ importer[p] \in Importer /\ importer[p].at \in Steps
         /\ importer[p].file \in Files \cup {None} /\ importer[p].run \in Runs \cup {None}
         /\ importer[p].left \subseteq Lines
  BY FeedParts DEF Importer

\* An importer that goes on keeps its version and its run.
LEMMA GoParts ==
  ASSUME FeedInv, NEW p \in Importers, NEW step \in Steps, Go(p, step)
  PROVE  /\ importer' \in [Importers -> Importer]
         /\ importer'[p].at = step /\ importer'[p].file = importer[p].file
         /\ importer'[p].run = importer[p].run /\ importer'[p].left = importer[p].left
<1>1. importer \in [Importers -> Importer] /\ importer[p] \in Importer
  BY FeedParts
<1>2. importer' = [importer EXCEPT ![p] = [importer[p] EXCEPT !.at = step]]
  BY <1>1 DEF Go
<1>3. [importer[p] EXCEPT !.at = step] \in Importer
  BY <1>1, Zenon DEF Importer
<1>4. importer' \in [Importers -> Importer] /\ importer'[p] = [importer[p] EXCEPT !.at = step]
  BY <1>1, <1>2, <1>3
<1>. QED
  BY <1>1, <1>4 DEF Importer

LEMMA GoWithParts ==
  ASSUME FeedInv, NEW p \in Importers, NEW step \in Steps, NEW left \in SUBSET Lines,
         GoWith(p, step, left)
  PROVE  /\ importer' \in [Importers -> Importer]
         /\ importer'[p].at = step /\ importer'[p].file = importer[p].file
         /\ importer'[p].run = importer[p].run /\ importer'[p].left = left
<1>1. importer \in [Importers -> Importer] /\ importer[p] \in Importer
  BY FeedParts
<1>2. importer' = [importer EXCEPT ![p] = [importer[p] EXCEPT !.at = step, !.left = left]]
  BY <1>1 DEF GoWith
<1>3. [importer[p] EXCEPT !.at = step, !.left = left] \in Importer
  BY <1>1, Zenon DEF Importer
<1>4. /\ importer' \in [Importers -> Importer]
      /\ importer'[p] = [importer[p] EXCEPT !.at = step, !.left = left]
  BY <1>1, <1>2, <1>3
<1>. QED
  BY <1>1, <1>4 DEF Importer

\* The importer is the only one.
LEMMA OnlyOne ==
  ASSUME FeedInv, NEW p \in Importers,
         FeedTypeOK', HistoryOK', RunOK(p)', RowsOK(p)', TablesOK(p)'
  PROVE  FeedInv'
<1>1. \A q \in Importers : q = p
  BY DEF FeedInv, Alone
<1>2. Alone'
  BY DEF FeedInv, Alone
<1>3. (\A q \in Importers : RunOK(q) /\ RowsOK(q) /\ TablesOK(q))'
  BY <1>1
<1>. QED
  BY <1>2, <1>3 DEF FeedInv

\* At rest it has nothing to answer for.
LEMMA AtRest ==
  ASSUME FeedInv, FeedTypeOK', HistoryOK', \A q \in Importers : importer'[q].at = "resting"
  PROVE  FeedInv'
<1>1. Alone'
  BY DEF FeedInv, Alone
<1>2. ASSUME NEW q \in Importers PROVE RunOK(q)' /\ RowsOK(q)' /\ TablesOK(q)'
  BY <1>2 DEF RunOK, RowsOK, TablesOK, At, Working, FromCalls, FromPrune, FromTrips,
              FromStamped, FromClearing
<1>. QED
  BY <1>1, <1>2 DEF FeedInv

LEMMA Abandoned ==
  ASSUME FeedInv, NEW p \in Importers, Abandon(p)
  PROVE  /\ importer' \in [Importers -> Importer]
         /\ \A q \in Importers : importer'[q].at = "resting"
<1>1. importer \in [Importers -> Importer]
  BY FeedParts
<1>2. Resting \in Importer /\ Resting.at = "resting"
  BY DEF Resting, Importer, Steps
<1>3. \A q \in Importers : q = p
  BY DEF FeedInv, Alone
<1>. QED
  BY <1>1, <1>2, <1>3 DEF Abandon

\* The rows are what they were, and so are the runs that succeeded.
LEMMA HistoryKept ==
  ASSUME FeedInv, UNCHANGED <<route, service, trip, calls, finished>>,
         \A r \in Runs : runs[r].status = "success" => runs'[r] = runs[r],
         \A r \in Runs : runs'[r].status = "success" => runs'[r] = runs[r]
  PROVE  HistoryOK'
<1>0. HistoryOK /\ finished \in Seq(Runs)
  BY FeedParts DEF FeedInv
<1>1. \A i \in DOMAIN finished' : runs'[finished'[i]].status = "success"
  BY <1>0 DEF HistoryOK
<1>2. \A l \in Lines : trip'[l] # None => route'[l] # None
  BY <1>0 DEF HistoryOK
<1>3. ASSUME NEW r \in Runs, runs'[r].status = "success"
      PROVE  /\ runs'[r].file \in Files /\ LinesOf(runs'[r].file) # {}
             /\ HasCoreSchedule(r)' => Holds(runs[r].file)'
  <2>1. runs'[r] = runs[r]
    BY <1>3
  <2>2. /\ runs[r].file \in Files /\ LinesOf(runs[r].file) # {}
        /\ HasCoreSchedule(r) => Holds(runs[r].file)
    BY <1>0, <1>3, <2>1 DEF HistoryOK
  <2>. QED
    BY <2>1, <2>2 DEF HasCoreSchedule, Holds
<1>. QED
  BY <1>1, <1>2, <1>3 DEF HistoryOK

\* While a trip of the import at work is there, no other run has its schedule.
LEMMA ScheduleGone ==
  ASSUME FeedInv, NEW p \in Importers, importer[p].at \in Working \ {"retaining"},
         UNCHANGED <<runs, finished>>,
         NEW l \in Lines, trip'[l] = importer[p].run,
         \A k \in Lines : trip'[k] # None => route'[k] # None
  PROVE  HistoryOK'
<1>1. /\ HistoryOK /\ importer[p].run \in Runs /\ importer[p].run # None
      /\ runs[importer[p].run].status \in {"running", "old"}
  BY FeedAssumption DEF FeedInv, RunOK, At
<1>2. \A i \in DOMAIN finished' : runs'[finished'[i]].status = "success"
  BY <1>1 DEF HistoryOK
<1>3. ASSUME NEW r \in Runs, runs'[r].status = "success"
      PROVE  /\ runs'[r].file \in Files /\ LinesOf(runs'[r].file) # {}
             /\ ~HasCoreSchedule(r)'
  <2>1. runs'[r].file \in Files /\ LinesOf(runs'[r].file) # {}
    BY <1>1, <1>3 DEF HistoryOK
  <2>2. r # importer[p].run
    BY <1>1, <1>3
  <2>. QED
    BY <1>1, <2>1, <2>2 DEF HasCoreSchedule
<1>. QED
  BY <1>2, <1>3 DEF HistoryOK

\* Where the import stands when it works.
LEMMA AtWork ==
  ASSUME FeedInv, NEW p \in Importers, importer[p].at \in Working
  PROVE  /\ importer[p].file \in Files /\ importer[p].run \in Runs
         /\ importer[p].run # None
         /\ runs[importer[p].run].file = importer[p].file
         /\ Read(p, importer[p].file) = LinesOf(importer[p].file)
         /\ LinesOf(importer[p].file) \subseteq Lines
<1>1. importer[p].file \in Files /\ importer[p].run \in Runs
      /\ runs[importer[p].run].file = importer[p].file
  BY DEF FeedInv, RunOK, At, Working, FromCalls, FromPrune, FromTrips, FromStamped, FromClearing
<1>2. p \notin Limited
  BY DEF FeedInv, Alone
<1>. QED
  BY <1>1, <1>2, FeedAssumption DEF Read, LinesOf

LEMMA FetchStep ==
  ASSUME FeedInv, NEW p \in Importers, Fetch(p) PROVE FeedInv'
<1>. DEFINE step == IF p \in Forced THEN "registering" ELSE "checking"
<1>1. importer \in [Importers -> Importer] /\ importer[p] \in Importer /\ published \in Files
  BY FeedParts
<1>2. importer' = [importer EXCEPT ![p] = [importer[p] EXCEPT !.file = published, !.at = step]]
  BY <1>1 DEF Fetch
<1>3. step \in {"checking", "registering"} /\ step \in Steps
  BY DEF Steps
<1>. HIDE DEF step
<1>4. [importer[p] EXCEPT !.file = published, !.at = step] \in Importer
  BY <1>1, <1>3, Zenon DEF Importer
<1>5. /\ importer' \in [Importers -> Importer]
      /\ importer'[p].at = step /\ importer'[p].file = published
  BY <1>1, <1>2, <1>4 DEF Importer
<1>6. FeedTypeOK'
  BY <1>5, FeedParts DEF Fetch, FeedTypeOK
<1>7. HistoryOK'
  BY HistoryKept DEF Fetch
<1>8. RunOK(p)' /\ RowsOK(p)' /\ TablesOK(p)'
  BY <1>1, <1>3, <1>5 DEF RunOK, RowsOK, TablesOK, At, Working, FromCalls, FromPrune,
                            FromTrips, FromStamped, FromClearing
<1>. QED
  BY <1>6, <1>7, <1>8, OnlyOne

LEMMA CheckStep ==
  ASSUME FeedInv, NEW p \in Importers, Check(p) PROVE FeedInv'
<1>1. runs \in [Runs -> ImportRun]
  BY FeedParts
<1>2. runs' = Recovered
  BY DEF Check
<1>3. ASSUME NEW r \in Runs PROVE /\ runs'[r] \in ImportRun
                                  /\ runs[r].status = "success" => runs'[r] = runs[r]
                                  /\ runs'[r].status = "success" => runs'[r] = runs[r]
  <2>1. runs[r] \in ImportRun
    BY <1>1
  <2>2. CASE runs[r].status = "old"
    <3>1. runs'[r] = [runs[r] EXCEPT !.status = "failed"]
      BY <1>2, <2>2 DEF Recovered
    <3>. QED
      BY <2>1, <2>2, <3>1 DEF ImportRun
  <2>3. CASE runs[r].status # "old"
    BY <1>2, <2>1, <2>3 DEF Recovered
  <2>. QED
    BY <2>2, <2>3
<1>4. runs' \in [Runs -> ImportRun]
  BY <1>2, <1>3 DEF Recovered
<1>5. HistoryOK'
  BY <1>3, HistoryKept DEF Check
<1>6. CASE Abandon(p)
  <2>1. FeedTypeOK'
    BY <1>4, <1>6, FeedParts, Abandoned DEF Check, FeedTypeOK
  <2>. QED
    BY <1>5, <1>6, <2>1, Abandoned, AtRest
<1>7. CASE Go(p, "registering")
  <2>1. "registering" \in Steps
    BY DEF Steps
  <2>2. /\ importer' \in [Importers -> Importer] /\ importer'[p].at = "registering"
        /\ importer'[p].file = importer[p].file
    BY <1>7, <2>1, GoParts
  <2>3. FeedTypeOK'
    BY <1>4, <2>2, FeedParts DEF Check, FeedTypeOK
  <2>4. importer[p].file \in Files
    BY DEF FeedInv, RunOK, Check, At
  <2>5. RunOK(p)' /\ RowsOK(p)' /\ TablesOK(p)'
    BY <2>2, <2>4 DEF RunOK, RowsOK, TablesOK, At, Working, FromCalls, FromPrune,
                      FromTrips, FromStamped, FromClearing
  <2>. QED
    BY <1>5, <2>3, <2>5, OnlyOne
<1>. QED
  BY <1>6, <1>7 DEF Check

LEMMA RegisterStep ==
  ASSUME FeedInv, NEW p \in Importers, Register(p) PROVE FeedInv'
<1>1. PICK r \in Fresh :
        /\ runs' = [runs EXCEPT ![r] = 
             [file |-> importer[p].file, complete |-> p \notin Limited, status |-> "running"]]
        /\ importer' = [importer EXCEPT ![p].at = "preparing", ![p].run = r]
  <2>. DEFINE s == CHOOSE r \in Fresh : TRUE
  <2>1. s \in Fresh
    BY DEF Register
  <2>. QED
    BY <2>1, Zenon DEF Register
<1>2. r \in Runs /\ ~InForce(r) /\ \A k \in seen : k[1] # r
  BY DEF Fresh
<1>3. importer[p].file \in Files /\ At(p, "registering")
  BY DEF FeedInv, RunOK, Register, At
<1>. DEFINE row == [file |-> importer[p].file, complete |-> p \notin Limited, status |-> "running"]
<1>4. row \in ImportRun /\ row.status = "running" /\ row.file = importer[p].file
  BY <1>3 DEF ImportRun
<1>. HIDE DEF row
<1>5. runs' = [runs EXCEPT ![r] = row]
  BY <1>1 DEF row
<1>6. runs \in [Runs -> ImportRun] /\ importer \in [Importers -> Importer] /\ importer[p] \in Importer
  BY FeedParts
<1>7. runs' \in [Runs -> ImportRun] /\ runs'[r] = row /\ \A s \in Runs : s # r => runs'[s] = runs[s]
  BY <1>2, <1>4, <1>5, <1>6
<1>8. HistoryOK'
  <2>1. runs[r].status # "success" /\ runs'[r].status # "success"
    BY <1>2, <1>4, <1>7 DEF InForce
  <2>2. \A s \in Runs : /\ runs[s].status = "success" => runs'[s] = runs[s]
                        /\ runs'[s].status = "success" => runs'[s] = runs[s]
    BY <1>7, <2>1
  <2>. QED
    BY <2>2, HistoryKept DEF Register
<1>9. importer' = [importer EXCEPT ![p] = [importer[p] EXCEPT !.at = "preparing", !.run = r]]
  BY <1>1, <1>6
<1>10. "preparing" \in Steps
  BY DEF Steps
<1>11. [importer[p] EXCEPT !.at = "preparing", !.run = r] \in Importer
  BY <1>2, <1>6, <1>10, Zenon DEF Importer
<1>12. /\ importer' \in [Importers -> Importer] /\ importer'[p].at = "preparing"
       /\ importer'[p].file = importer[p].file /\ importer'[p].run = r
  BY <1>6, <1>9, <1>11 DEF Importer
<1>13. FeedTypeOK'
  BY <1>7, <1>12, FeedParts DEF Register, FeedTypeOK
<1>14. RunOK(p)'
  BY <1>2, <1>3, <1>4, <1>7, <1>12 DEF RunOK, At, Working
<1>15. TripsIn(p)' = {} /\ CallsIn(p)' = {}
  BY <1>12 DEF TripsIn, CallsIn
<1>16. \A l \in Lines : <<r, "trip", l>> \notin seen' /\ <<r, "calls", l>> \notin seen'
  BY <1>2 DEF Register
<1>17. RowsOK(p)'
  BY <1>12, <1>15, <1>16 DEF RowsOK
<1>18. TablesOK(p)'
  BY <1>12 DEF TablesOK, FromCalls, FromPrune, FromTrips, FromStamped, FromClearing
<1>. QED
  BY <1>8, <1>13, <1>14, <1>17, <1>18, OnlyOne

LEMMA PrepareStep ==
  ASSUME FeedInv, NEW p \in Importers, Prepare(p) PROVE FeedInv'
<1>1. At(p, "preparing") /\ importer[p].at \in Working
  BY DEF Prepare, At, Working
<1>2. "routes" \in Steps
  BY DEF Steps
<1>3. /\ importer' \in [Importers -> Importer]
      /\ importer'[p].at = "routes" /\ importer'[p].file = importer[p].file
      /\ importer'[p].run = importer[p].run
  BY <1>2, GoParts DEF Prepare
<1>4. seen' \subseteq seen /\ \A k \in seen' : k[1] # importer[p].run
  BY DEF Prepare
<1>5. FeedTypeOK'
  BY <1>3, <1>4, FeedParts DEF Prepare, FeedTypeOK
<1>6. HistoryOK'
  BY HistoryKept DEF Prepare
<1>7. RunOK(p)'
  BY <1>1, <1>3 DEF FeedInv, RunOK, Prepare, At, Working
<1>8. TripsIn(p)' = {} /\ CallsIn(p)' = {}
  BY <1>3 DEF TripsIn, CallsIn
<1>9. \A l \in Lines : /\ <<importer[p].run, "trip", l>> \notin seen'
                       /\ <<importer[p].run, "calls", l>> \notin seen'
  BY <1>4
<1>10. RowsOK(p)'
  BY <1>3, <1>8, <1>9 DEF RowsOK
<1>11. TablesOK(p)'
  BY <1>3 DEF TablesOK, FromCalls, FromPrune, FromTrips, FromStamped, FromClearing
<1>. QED
  BY <1>5, <1>6, <1>7, <1>10, <1>11, OnlyOne

LEMMA WriteRoutesStep ==
  ASSUME FeedInv, NEW p \in Importers, WriteRoutes(p) PROVE FeedInv'
<1>. DEFINE own == LinesOf(importer[p].file)
            run == importer[p].run
<1>1. At(p, "routes") /\ importer[p].at \in Working
  BY DEF WriteRoutes, At, Working
<1>2. /\ importer[p].file \in Files /\ run \in Runs /\ run # None
      /\ Read(p, importer[p].file) = own /\ own \subseteq Lines
  BY <1>1, AtWork
<1>3. "trips" \in Steps
  BY DEF Steps
<1>4. /\ importer' \in [Importers -> Importer]
      /\ importer'[p].at = "trips" /\ importer'[p].file = importer[p].file
      /\ importer'[p].run = run /\ importer'[p].left = own
  BY <1>2, <1>3, GoWithParts DEF WriteRoutes
<1>. HIDE DEF own, run
<1>5. route' = [l \in Lines |-> IF l \in own THEN run ELSE route[l]]
  BY <1>2 DEF WriteRoutes, Stamped, own, run
<1>6. /\ route' \in [Lines -> Runs \cup {None}]
      /\ \A l \in own : route'[l] = run
      /\ \A l \in Lines : route[l] # None => route'[l] # None
  BY <1>2, <1>5, FeedParts
<1>7. FeedTypeOK'
  BY <1>4, <1>6, FeedParts DEF WriteRoutes, FeedTypeOK
<1>8. HistoryOK'
  <2>1. HistoryOK /\ UNCHANGED <<runs, finished, trip, calls, service>>
    BY DEF FeedInv, WriteRoutes
  <2>2. ASSUME NEW r \in Runs, runs[r].status = "success", HasCoreSchedule(r)'
        PROVE  Holds(runs[r].file)'
    <3>1. Holds(runs[r].file)
      BY <2>1, <2>2 DEF HistoryOK, HasCoreSchedule
    <3>2. \A l \in Lines \ LinesOf(runs[r].file) : trip'[l] = None /\ calls'[l] = None
      BY <2>1, <3>1 DEF Holds
    <3>3. ASSUME NEW l \in Lines, l \in LinesOf(runs[r].file)
          PROVE  /\ None \notin {route'[l], trip'[l], service'[l], calls'[l]}
                 /\ calls'[l].says = CallsOf[runs[r].file][l]
      BY <1>6, <2>1, <3>1, <3>3 DEF Holds
    <3>. QED
      BY <2>1, <3>2, <3>3 DEF Holds
  <2>. QED
    BY <1>6, <2>1, <2>2 DEF HistoryOK
<1>9. RunOK(p)'
  BY <1>1, <1>4 DEF FeedInv, RunOK, WriteRoutes, At, Working, run
<1>10. /\ TripsIn(p)' = {} /\ CallsIn(p)' = {}
       /\ TripsIn(p) = {} /\ CallsIn(p) = {}
  BY <1>1, <1>4 DEF TripsIn, CallsIn, At, own
<1>11. RowsOK(p)'
  <2>1. \A l \in Lines : <<run, "trip", l>> \notin seen /\ <<run, "calls", l>> \notin seen
    BY <1>1, <1>10 DEF FeedInv, RowsOK, At, FromClearing, run
  <2>2. seen' = seen
    BY DEF WriteRoutes
  <2>3. LinesOf(importer'[p].file) = own
    BY <1>4 DEF own
  <2>. QED
    BY <1>4, <1>10, <2>1, <2>2, <2>3 DEF RowsOK
<1>12. TablesOK(p)'
  <2>1. LinesOf(importer'[p].file) = own
    BY <1>4 DEF own
  <2>. QED
    BY <1>4, <1>6, <2>1 DEF TablesOK, FromCalls, FromPrune, FromTrips, FromStamped, FromClearing
<1>. QED
  BY <1>7, <1>8, <1>9, <1>11, <1>12, OnlyOne

\* The steps that fail leave the rows, and the runs, as they were.
LEMMA FailedStep ==
  ASSUME FeedInv, NEW p \in Importers, Abandon(p),
         UNCHANGED <<published, route, service, trip, calls, runs, finished, seen, repairs>>
  PROVE  FeedInv'
<1>1. FeedTypeOK'
  BY FeedParts, Abandoned DEF FeedTypeOK
<1>2. HistoryOK'
  BY HistoryKept
<1>. QED
  BY <1>1, <1>2, Abandoned, AtRest

LEMMA FlushTripsStep ==
  ASSUME FeedInv, NEW p \in Importers, FlushTrips(p) PROVE FeedInv'
<1>. DEFINE own == LinesOf(importer[p].file)
            run == importer[p].run
            left == importer[p].left
<1>1. importer[p].at = "trips" /\ importer[p].at \in Working
  BY DEF FlushTrips, At, Working
<1>2. /\ importer[p].file \in Files /\ run \in Runs /\ run # None
      /\ Read(p, importer[p].file) = own /\ own \subseteq Lines
  BY <1>1, AtWork
<1>3. left \subseteq own
  BY <1>1 DEF FeedInv, RowsOK
<1>4. PICK l \in left :
        IF route[l] = None
        THEN Abandon(p) /\ UNCHANGED <<trip, seen>>
        ELSE /\ trip' = [trip EXCEPT ![l] = run]
             /\ seen' = seen \cup {<<run, "trip", l>>}
             /\ IF left = {l} THEN GoWith(p, "calls", Read(p, importer[p].file))
                ELSE GoWith(p, "trips", left \ {l})
  BY DEF FlushTrips
<1>5. CASE route[l] = None
  BY <1>4, <1>5, FailedStep DEF FlushTrips
<1>6. CASE route[l] # None
  <2>. DEFINE step == IF left = {l} THEN "calls" ELSE "trips"
              rest == IF left = {l} THEN own ELSE left \ {l}
  <2>1. /\ trip' = [trip EXCEPT ![l] = run] /\ seen' = seen \cup {<<run, "trip", l>>}
        /\ GoWith(p, step, rest)
    BY <1>2, <1>4, <1>6
  <2>2. UNCHANGED <<published, route, service, calls, runs, finished, repairs>>
    BY DEF FlushTrips
  <2>3. step \in Steps /\ rest \in SUBSET Lines /\ l \in own /\ l \in Lines
    BY <1>2, <1>3 DEF Steps
  <2>4. /\ importer' \in [Importers -> Importer]
        /\ importer'[p].at = step /\ importer'[p].file = importer[p].file
        /\ importer'[p].run = run /\ importer'[p].left = rest
    BY <2>1, <2>3, GoWithParts
  <2>5. TripsIn(p) = own \ left /\ CallsIn(p) = {}
    BY <1>1 DEF TripsIn, CallsIn, At
  <2>6. TripsIn(p)' = (own \ left) \cup {l} /\ CallsIn(p)' = {}
    BY <1>3, <2>4 DEF TripsIn, CallsIn, At
  <2>7. step \in {"trips", "calls"} /\ rest \subseteq own
    BY <1>3
  <2>8. LinesOf(importer'[p].file) = own
    BY <2>4
  <2>9. /\ \A k \in own \ left : trip[k] = run
        /\ \A k \in Lines : /\ <<run, "trip", k>> \in seen <=> k \in own \ left
                            /\ <<run, "calls", k>> \notin seen
        /\ \A k \in own : route[k] = run
    BY <1>1, <2>5 DEF FeedInv, RowsOK, TablesOK, FromClearing
  <2>. HIDE DEF own, run, left, step, rest
  <2>10. /\ trip' \in [Lines -> Runs \cup {None}] /\ trip'[l] = run
         /\ \A k \in Lines : k # l => trip'[k] = trip[k]
    BY <1>2, <2>1, <2>3, FeedParts
  <2>11. seen' \subseteq (Runs \X {"trip", "calls"} \X Lines)
    BY <1>2, <2>1, <2>3, FeedParts
  <2>12. FeedTypeOK'
    BY <2>2, <2>4, <2>10, <2>11, FeedParts DEF FeedTypeOK
  <2>13. \A k \in Lines : trip'[k] # None => route'[k] # None
    BY <1>6, <2>2, <2>10 DEF FeedInv, HistoryOK
  <2>14. HistoryOK'
    BY <1>1, <2>2, <2>3, <2>10, <2>13, ScheduleGone DEF run
  <2>15. RunOK(p)'
    BY <1>1, <2>2, <2>4, <2>7 DEF FeedInv, RunOK, At, Working, FromCalls, run
  <2>16. RowsOK(p)'
    <3>1. \A k \in TripsIn(p)' : trip'[k] = run
      BY <1>2, <2>6, <2>9, <2>10
    <3>2. \A k \in Lines : /\ <<run, "trip", k>> \in seen' <=> k \in TripsIn(p)'
                           /\ <<run, "calls", k>> \notin seen'
      BY <2>1, <2>6, <2>9
    <3>. QED
      BY <2>4, <2>6, <2>7, <2>8, <3>1, <3>2 DEF RowsOK
  <2>17. TablesOK(p)'
    <3>1. \A k \in own : route'[k] = run
      BY <2>2, <2>9
    <3>. QED
      BY <2>3, <2>4, <2>7, <2>8, <3>1
      DEF TablesOK, FromCalls, FromPrune, FromTrips, FromStamped, FromClearing
  <2>. QED
    BY <2>12, <2>14, <2>15, <2>16, <2>17, OnlyOne
<1>. QED
  BY <1>5, <1>6

\* From the calls on, the trips of the version are there.
LEMMA TripsThere ==
  ASSUME FeedInv, NEW p \in Importers, importer[p].at \in FromCalls
  PROVE  /\ TripsIn(p) = LinesOf(importer[p].file) /\ LinesOf(importer[p].file) # {}
         /\ \A l \in LinesOf(importer[p].file) :
              trip[l] = importer[p].run /\ route[l] = importer[p].run
<1>1. TripsIn(p) = LinesOf(importer[p].file)
  BY DEF TripsIn, At, FromCalls, FromPrune, FromTrips, FromStamped, FromClearing
<1>2. importer[p].at \in Working /\ importer[p].at \in {"trips"} \cup FromCalls
  BY DEF Working
<1>. QED
  BY <1>1, <1>2 DEF FeedInv, RowsOK, TablesOK

LEMMA FlushCallsStep ==
  ASSUME FeedInv, NEW p \in Importers, FlushCalls(p) PROVE FeedInv'
<1>. DEFINE own == LinesOf(importer[p].file)
            run == importer[p].run
            left == importer[p].left
<1>1. importer[p].at = "calls" /\ importer[p].at \in Working /\ importer[p].at \in FromCalls
  BY DEF FlushCalls, At, Working, FromCalls
<1>2. /\ importer[p].file \in Files /\ run \in Runs /\ run # None /\ own \subseteq Lines
  BY <1>1, AtWork
<1>3. left \subseteq own
  BY <1>1 DEF FeedInv, RowsOK
<1>0. /\ TripsIn(p) = own /\ own # {} /\ \A l \in own : trip[l] = run /\ route[l] = run
  BY <1>1, TripsThere
<1>4. PICK l \in left :
        /\ calls' = [calls EXCEPT ![l] = Upserted(@, CallsOf[importer[p].file][l], run)]
        /\ seen' = seen \cup SeenCalls(p, l)
        /\ IF left = {l} THEN GoWith(p, "calendars", {})
           ELSE GoWith(p, "calls", left \ {l})
  BY <1>0, <1>2, <1>3 DEF FlushCalls
<1>. DEFINE step == IF left = {l} THEN "calendars" ELSE "calls"
            says == CallsOf[importer[p].file][l]
            row == Upserted(calls[l], says, run)
<1>5. l \in own /\ l \in Lines
  BY <1>2, <1>3
<1>6. row \in Call /\ row # None /\ row.says = says
  <2>1. says \in UNION {{CallsOf[f][k] : k \in LinesOf(f)} : f \in Files}
    BY <1>2, <1>5
  <2>2. calls[l] \in Call \cup {None}
    BY <1>5, FeedParts
  <2>3. [says |-> says, run |-> run] \in Call
    BY <1>2, <2>1 DEF Call
  <2>. HIDE DEF own, run, left, says
  <2>. QED
    BY <2>2, <2>3, FeedAssumption DEF Upserted
<1>7. GoWith(p, step, left \ {l})
  BY <1>4
<1>8. step \in Steps /\ left \ {l} \in SUBSET Lines
  BY <1>2, <1>3 DEF Steps
<1>9. /\ importer' \in [Importers -> Importer]
      /\ importer'[p].at = step /\ importer'[p].file = importer[p].file
      /\ importer'[p].run = run /\ importer'[p].left = left \ {l}
  BY <1>7, <1>8, GoWithParts
<1>10. CallsIn(p) = own \ left
  BY <1>1 DEF CallsIn, At
<1>11. TripsIn(p)' = own /\ CallsIn(p)' = (own \ left) \cup {l}
  BY <1>3, <1>9 DEF TripsIn, CallsIn, At
<1>12. step \in {"calls", "calendars"}
  OBVIOUS
<1>13. LinesOf(importer'[p].file) = own
  BY <1>9
<1>14. seen' = seen \cup {<<run, "calls", l>>}
  BY <1>4 DEF SeenCalls
<1>15. /\ \A k \in own \ left : calls[k] # None /\ calls[k].says = CallsOf[importer[p].file][k]
       /\ \A k \in Lines : /\ <<run, "trip", k>> \in seen <=> k \in own
                           /\ <<run, "calls", k>> \in seen <=> k \in own \ left
  BY <1>0, <1>1, <1>10 DEF FeedInv, RowsOK, FromClearing
<1>16. UNCHANGED <<published, route, service, trip, runs, finished, repairs>>
  BY DEF FlushCalls
<1>17. calls' = [calls EXCEPT ![l] = row]
  BY <1>4
<1>. HIDE DEF own, run, left, step, row
<1>18. /\ calls' \in [Lines -> Call \cup {None}] /\ calls'[l] = row
       /\ \A k \in Lines : k # l => calls'[k] = calls[k]
  BY <1>5, <1>6, <1>17, FeedParts
<1>19. seen' \subseteq (Runs \X {"trip", "calls"} \X Lines)
  BY <1>2, <1>5, <1>14, FeedParts
<1>20. FeedTypeOK'
  BY <1>9, <1>16, <1>18, <1>19, FeedParts DEF FeedTypeOK
<1>21. HistoryOK'
  <2>1. \A k \in Lines : trip'[k] # None => route'[k] # None
    BY <1>16 DEF FeedInv, HistoryOK
  <2>2. trip'[l] = run
    BY <1>0, <1>5, <1>16
  <2>. QED
    BY <1>1, <1>5, <1>16, <2>1, <2>2, ScheduleGone DEF run
<1>22. RunOK(p)'
  BY <1>1, <1>9, <1>12, <1>16 DEF FeedInv, RunOK, At, Working, FromCalls, run
<1>23. RowsOK(p)'
  <2>1. \A k \in TripsIn(p)' : trip'[k] = run
    BY <1>0, <1>11, <1>16
  <2>2. ASSUME NEW k \in CallsIn(p)'
        PROVE  calls'[k] # None /\ calls'[k].says = CallsOf[importer[p].file][k]
    BY <1>2, <1>6, <1>11, <1>15, <1>18
  <2>3. \A k \in Lines : /\ <<run, "trip", k>> \in seen' <=> k \in TripsIn(p)'
                         /\ <<run, "calls", k>> \in seen' <=> k \in CallsIn(p)'
    BY <1>11, <1>14, <1>15
  <2>4. importer'[p].left \subseteq LinesOf(importer'[p].file)
    BY <1>3, <1>9, <1>13
  <2>. QED
    BY <1>9, <2>1, <2>2, <2>3, <2>4 DEF RowsOK
<1>24. TablesOK(p)'
  BY <1>0, <1>9, <1>12, <1>13, <1>16
  DEF TablesOK, FromCalls, FromPrune, FromTrips, FromStamped, FromClearing
<1>. QED
  BY <1>20, <1>21, <1>22, <1>23, <1>24, OnlyOne

\* After the calls, everything of the version is written.
LEMMA AllWritten ==
  ASSUME FeedInv, NEW p \in Importers, importer[p].at \in FromCalls \ {"calls"}
  PROVE  /\ \A l \in LinesOf(importer[p].file) :
              /\ trip[l] = importer[p].run /\ route[l] = importer[p].run
              /\ calls[l] # None /\ calls[l].says = CallsOf[importer[p].file][l]
         /\ LinesOf(importer[p].file) # {} /\ LinesOf(importer[p].file) \subseteq Lines
         /\ importer[p].run \in Runs /\ importer[p].run # None
         /\ importer[p].file \in Files /\ runs[importer[p].run].file = importer[p].file
         /\ importer[p].at \in Working
         /\ importer[p].at \notin FromClearing => \A l \in Lines :
              /\ <<importer[p].run, "trip", l>> \in seen <=> l \in LinesOf(importer[p].file)
              /\ <<importer[p].run, "calls", l>> \in seen <=> l \in LinesOf(importer[p].file)
<1>1. importer[p].at \in Working /\ importer[p].at \in FromCalls
  BY DEF Working
<1>2. /\ TripsIn(p) = LinesOf(importer[p].file) /\ LinesOf(importer[p].file) # {}
      /\ \A l \in LinesOf(importer[p].file) :
           trip[l] = importer[p].run /\ route[l] = importer[p].run
  BY <1>1, TripsThere
<1>3. CallsIn(p) = LinesOf(importer[p].file)
  BY DEF CallsIn, At, FromCalls, FromPrune, FromTrips, FromStamped, FromClearing
<1>4. RowsOK(p)
  BY DEF FeedInv
<1>. QED
  BY <1>1, <1>2, <1>3, <1>4, AtWork DEF RowsOK

\* A later step that leaves what is written of the version, and its keys.
LEMMA Onward ==
  ASSUME FeedInv, NEW p \in Importers, importer[p].at \in FromCalls \ {"calls", "retaining"},
         NEW step \in FromCalls \ {"calls"}, Go(p, step),
         step \in FromClearing \/ (importer[p].at \notin FromClearing /\ seen' = seen),
         UNCHANGED <<published, runs, finished>>, repairs' \in Nat,
         seen' \subseteq (Runs \X {"trip", "calls"} \X Lines),
         route' \in [Lines -> Runs \cup {None}], service' \in [Lines -> Runs \cup {None}],
         trip' \in [Lines -> Runs \cup {None}], calls' \in [Lines -> Call \cup {None}],
         \A l \in LinesOf(importer[p].file) :
            trip'[l] = trip[l] /\ calls'[l] = calls[l] /\ route'[l] = route[l],
         \A l \in Lines : trip'[l] # None => route'[l] # None,
         TablesOK(p)'
  PROVE  FeedInv'
<1>. DEFINE own == LinesOf(importer[p].file)
            run == importer[p].run
<1>1. /\ \A l \in own : trip[l] = run /\ calls[l] # None /\ calls[l].says = CallsOf[importer[p].file][l]
      /\ own # {} /\ own \subseteq Lines /\ run \in Runs
      /\ importer[p].file \in Files /\ importer[p].at \in Working
      /\ importer[p].at \notin FromClearing => \A l \in Lines :
           /\ <<run, "trip", l>> \in seen <=> l \in own
           /\ <<run, "calls", l>> \in seen <=> l \in own
  BY AllWritten
<1>2. step \in Steps /\ step \in Working
  BY DEF Steps, Working, FromCalls, FromPrune, FromTrips, FromStamped, FromClearing
<1>3. /\ importer' \in [Importers -> Importer]
      /\ importer'[p].at = step /\ importer'[p].file = importer[p].file
      /\ importer'[p].run = run
  BY <1>2, GoParts
<1>4. FeedTypeOK'
  BY <1>3, FeedParts DEF FeedTypeOK
<1>5. HistoryOK'
  <2>1. PICK l \in own : TRUE
    BY <1>1
  <2>2. l \in Lines /\ trip'[l] = run
    BY <1>1, <2>1
  <2>3. importer[p].at \in Working \ {"retaining"}
    BY <1>1
  <2>. QED
    BY <2>2, <2>3, ScheduleGone
<1>6. RunOK(p)'
  BY <1>1, <1>3 DEF FeedInv, RunOK, At
<1>7. TripsIn(p)' = own /\ CallsIn(p)' = own
  BY <1>3 DEF TripsIn, CallsIn, At, FromCalls, FromPrune, FromTrips, FromStamped, FromClearing
<1>8. RowsOK(p)'
  <2>1. importer'[p].at \notin {"trips", "calls"}
    BY <1>3 DEF FromCalls, FromPrune, FromTrips, FromStamped, FromClearing
  <2>. HIDE DEF own, run
  <2>2. \A l \in own : /\ trip'[l] = run
                       /\ calls'[l] # None /\ calls'[l].says = CallsOf[importer[p].file][l]
    BY <1>1 DEF own
  <2>3. step \notin FromClearing => \A l \in Lines :
           /\ <<run, "trip", l>> \in seen' <=> l \in own
           /\ <<run, "calls", l>> \in seen' <=> l \in own
    BY <1>1
  <2>. QED
    BY <1>3, <1>7, <2>1, <2>2, <2>3 DEF RowsOK
<1>. QED
  BY <1>4, <1>5, <1>6, <1>8, OnlyOne

\* The tables are right when the rows of the version, and the others, are.
LEMMA TablesAre ==
  ASSUME FeedInv, NEW p \in Importers, importer[p].at \in FromCalls \ {"calls"},
         NEW step, importer'[p].at = step, importer'[p].file = importer[p].file,
         importer'[p].run = importer[p].run,
         \A l \in LinesOf(importer[p].file) : route'[l] = importer[p].run,
         step \in FromPrune => \A l \in LinesOf(importer[p].file) : service'[l] = importer[p].run,
         step \in FromTrips => \A l \in Lines \ LinesOf(importer[p].file) : calls'[l] = None,
         step \in FromStamped => \A l \in Lines \ LinesOf(importer[p].file) : trip'[l] = None
  PROVE  TablesOK(p)'
  BY AllWritten DEF TablesOK

LEMMA WriteCalendarsStep ==
  ASSUME FeedInv, NEW p \in Importers, WriteCalendars(p) PROVE FeedInv'
<1>. DEFINE own == LinesOf(importer[p].file)
            run == importer[p].run
            step == "calls prune"
<1>1. importer[p].at = "calendars"
  BY DEF WriteCalendars, At
<1>2. importer[p].at \in FromCalls \ {"calls", "retaining"} /\ importer[p].at \notin FromClearing
  BY <1>1 DEF FromCalls, FromPrune, FromTrips, FromStamped, FromClearing
<1>3. step \in FromCalls \ {"calls"} /\ step \in Steps /\ step \notin FromTrips /\ step \notin FromStamped
  BY DEF FromCalls, FromPrune, FromTrips, FromStamped, FromClearing, Steps
<1>4. /\ \A l \in own : route[l] = run
      /\ run \in Runs /\ own \subseteq Lines /\ importer[p].at \in Working
  BY <1>2, AllWritten
<1>5. Read(p, importer[p].file) = own
  BY <1>4, AtWork
<1>6. Go(p, step) /\ UNCHANGED <<published, route, trip, calls, runs, finished, seen, repairs>>
  BY DEF WriteCalendars
<1>7. /\ importer'[p].at = step /\ importer'[p].file = importer[p].file
      /\ importer'[p].run = run
  BY <1>3, <1>6, GoParts
<1>. HIDE DEF own, run, step
<1>8. service' = [l \in Lines |-> IF l \in own THEN run ELSE service[l]]
  BY <1>5 DEF WriteCalendars, Stamped, own, run
<1>9. service' \in [Lines -> Runs \cup {None}] /\ \A l \in own : service'[l] = run
  BY <1>4, <1>8, FeedParts
<1>10. TablesOK(p)'
  BY <1>2, <1>3, <1>4, <1>6, <1>7, <1>9, TablesAre DEF own, run
<1>11. \A l \in Lines : trip'[l] # None => route'[l] # None
  BY <1>6 DEF FeedInv, HistoryOK
<1>. QED
  BY <1>2, <1>3, <1>6, <1>9, <1>10, <1>11, FeedParts, Onward

LEMMA PruneCallsStep ==
  ASSUME FeedInv, NEW p \in Importers, PruneCalls(p) PROVE FeedInv'
<1>. DEFINE own == LinesOf(importer[p].file)
            run == importer[p].run
            step == "trips prune"
<1>1. importer[p].at = "calls prune" /\ p \notin Limited
  BY DEF PruneCalls, At, FeedInv, Alone
<1>2. /\ importer[p].at \in FromCalls \ {"calls", "retaining"} /\ importer[p].at \notin FromClearing
      /\ importer[p].at \in FromPrune
  BY <1>1 DEF FromCalls, FromPrune, FromTrips, FromStamped, FromClearing
<1>3. step \in FromCalls \ {"calls"} /\ step \in Steps /\ step \notin FromStamped
  BY DEF FromCalls, FromPrune, FromTrips, FromStamped, FromClearing, Steps
<1>4. /\ \A l \in own : route[l] = run
      /\ own \subseteq Lines
      /\ \A l \in Lines : <<run, "calls", l>> \in seen <=> l \in own
  BY <1>2, AllWritten
<1>5. \A l \in own : service[l] = run
  BY <1>2 DEF FeedInv, TablesOK
<1>6. /\ Go(p, step)
      /\ UNCHANGED <<published, route, service, trip, runs, finished, seen, repairs>>
      /\ calls' = [l \in Lines |-> IF <<run, "calls", l>> \in seen THEN calls[l] ELSE None]
  BY <1>1 DEF PruneCalls
<1>7. /\ importer'[p].at = step /\ importer'[p].file = importer[p].file
      /\ importer'[p].run = run
  BY <1>3, <1>6, GoParts
<1>. HIDE DEF own, run, step
<1>8. /\ calls' \in [Lines -> Call \cup {None}]
      /\ \A l \in own : calls'[l] = calls[l]
      /\ \A l \in Lines \ own : calls'[l] = None
  BY <1>4, <1>6, FeedParts
<1>9. TablesOK(p)'
  BY <1>2, <1>3, <1>4, <1>5, <1>6, <1>7, <1>8, TablesAre DEF own, run
<1>10. \A l \in Lines : trip'[l] # None => route'[l] # None
  BY <1>6 DEF FeedInv, HistoryOK
<1>. QED
  BY <1>2, <1>3, <1>6, <1>8, <1>9, <1>10, FeedParts, Onward DEF own

LEMMA PruneTripsStep ==
  ASSUME FeedInv, NEW p \in Importers, PruneTrips(p) PROVE FeedInv'
<1>. DEFINE own == LinesOf(importer[p].file)
            run == importer[p].run
            step == "stamped prune"
            gone == {l \in Lines : trip[l] # None /\ <<run, "trip", l>> \notin seen}
<1>1. importer[p].at = "trips prune"
  BY DEF PruneTrips, At
<1>2. /\ importer[p].at \in FromCalls \ {"calls", "retaining"} /\ importer[p].at \notin FromClearing
      /\ importer[p].at \in FromPrune /\ importer[p].at \in FromTrips
  BY <1>1 DEF FromCalls, FromPrune, FromTrips, FromStamped, FromClearing
<1>3. step \in FromCalls \ {"calls"} /\ step \in Steps
  BY DEF FromCalls, FromPrune, FromTrips, FromStamped, FromClearing, Steps
<1>4. /\ \A l \in own : route[l] = run
      /\ own \subseteq Lines
      /\ \A l \in Lines : <<run, "trip", l>> \in seen <=> l \in own
  BY <1>2, AllWritten
<1>5. /\ \A l \in own : service[l] = run
      /\ \A l \in Lines \ own : calls[l] = None
  BY <1>2 DEF FeedInv, TablesOK
<1>6. UNCHANGED <<published, route, service, calls, runs, finished, seen, repairs>>
  BY DEF PruneTrips
<1>7. CASE Abandon(p) /\ UNCHANGED trip
  BY <1>6, <1>7, FailedStep
<1>8. CASE Go(p, step) /\ trip' = [l \in Lines |-> IF l \in gone THEN None ELSE trip[l]]
  <2>1. /\ importer'[p].at = step /\ importer'[p].file = importer[p].file
        /\ importer'[p].run = run
    BY <1>3, <1>8, GoParts
  <2>2. \A l \in Lines : l \in gone <=> trip[l] # None /\ l \notin own
    BY <1>4
  <2>. HIDE DEF own, run, step, gone
  <2>3. /\ trip' \in [Lines -> Runs \cup {None}]
        /\ \A l \in own : trip'[l] = trip[l]
        /\ \A l \in Lines \ own : trip'[l] = None
        /\ \A l \in Lines : trip'[l] # None => trip'[l] = trip[l]
    BY <1>4, <1>8, <2>2, FeedParts
  <2>4. TablesOK(p)'
    BY <1>2, <1>4, <1>5, <1>6, <2>1, <2>3, TablesAre DEF own, run
  <2>5. \A l \in Lines : trip'[l] # None => route'[l] # None
    BY <1>6, <2>3 DEF FeedInv, HistoryOK
  <2>. QED
    BY <1>2, <1>3, <1>6, <1>8, <2>3, <2>4, <2>5, FeedParts, Onward DEF own
<1>. QED
  BY <1>7, <1>8 DEF PruneTrips

LEMMA PruneStampedStep ==
  ASSUME FeedInv, NEW p \in Importers, PruneStamped(p) PROVE FeedInv'
<1>. DEFINE own == LinesOf(importer[p].file)
            run == importer[p].run
            step == "clearing"
            kept(rows) == [l \in Lines |-> IF rows[l] = run THEN rows[l] ELSE None]
<1>1. importer[p].at = "stamped prune"
  BY DEF PruneStamped, At
<1>2. /\ importer[p].at \in FromCalls \ {"calls", "retaining"} /\ importer[p].at \notin FromClearing
      /\ importer[p].at \in FromPrune /\ importer[p].at \in FromTrips /\ importer[p].at \in FromStamped
  BY <1>1 DEF FromCalls, FromPrune, FromTrips, FromStamped, FromClearing
<1>3. step \in FromCalls \ {"calls"} /\ step \in Steps /\ step \in FromClearing
  BY DEF FromCalls, FromPrune, FromTrips, FromStamped, FromClearing, Steps
<1>4. /\ \A l \in own : route[l] = run
      /\ own \subseteq Lines /\ run # None
  BY <1>2, AllWritten
<1>5. /\ \A l \in own : service[l] = run
      /\ \A l \in Lines \ own : calls[l] = None
      /\ \A l \in Lines \ own : trip[l] = None
  BY <1>2 DEF FeedInv, TablesOK
<1>6. UNCHANGED <<published, trip, calls, runs, finished, seen, repairs>>
  BY DEF PruneStamped
<1>7. CASE Abandon(p) /\ UNCHANGED <<route, service>>
  BY <1>6, <1>7, FailedStep
<1>8. CASE /\ Go(p, step) /\ route' = kept(route) /\ service' = kept(service)
           /\ ~\E l \in Lines : kept(route)[l] = None /\ trip[l] # None
  <2>1. /\ importer'[p].at = step /\ importer'[p].file = importer[p].file
        /\ importer'[p].run = run
    BY <1>3, <1>8, GoParts
  <2>2. \A l \in Lines : trip'[l] # None => route'[l] # None
    BY <1>6, <1>8
  <2>. HIDE DEF own, run, step
  <2>3. /\ route' \in [Lines -> Runs \cup {None}] /\ service' \in [Lines -> Runs \cup {None}]
        /\ \A l \in own : route'[l] = run /\ service'[l] = run
    BY <1>4, <1>5, <1>8, FeedParts
  <2>4. TablesOK(p)'
    BY <1>2, <1>4, <1>5, <1>6, <2>1, <2>3, TablesAre DEF own, run
  <2>5. \A l \in own : route'[l] = route[l]
    BY <1>4, <2>3
  <2>. QED
    BY <1>2, <1>3, <1>6, <1>8, <2>2, <2>3, <2>4, <2>5, FeedParts, Onward DEF own
<1>. QED
  BY <1>7, <1>8 DEF PruneStamped

\* What an import has left when it clears its keys.
LEMMA TablesThere ==
  ASSUME FeedInv, NEW p \in Importers, importer[p].at \in FromClearing
  PROVE  /\ importer[p].at \in FromCalls \ {"calls"}
         /\ \A l \in LinesOf(importer[p].file) :
              route[l] = importer[p].run /\ service[l] = importer[p].run
         /\ \A l \in Lines \ LinesOf(importer[p].file) : calls[l] = None /\ trip[l] = None
<1>1. importer[p].at \in FromCalls \ {"calls"} /\ importer[p].at \in FromPrune
      /\ importer[p].at \in FromTrips /\ importer[p].at \in FromStamped
  BY DEF FromCalls, FromPrune, FromTrips, FromStamped, FromClearing
<1>. QED
  BY <1>1, AllWritten DEF FeedInv, TablesOK

\* It is the schedule of its version.
LEMMA WrittenIsHeld ==
  ASSUME FeedInv, NEW p \in Importers, importer[p].at \in FromClearing
  PROVE  Holds(importer[p].file)
<1>1. importer[p].at \in FromCalls \ {"calls"}
  BY TablesThere
<1>2. \A l \in LinesOf(importer[p].file) :
        /\ None \notin {route[l], trip[l], service[l], calls[l]}
        /\ calls[l].says = CallsOf[importer[p].file][l]
  BY <1>1, TablesThere, AllWritten
<1>3. \A l \in Lines \ LinesOf(importer[p].file) : calls[l] = None /\ trip[l] = None
  BY TablesThere
<1>. QED
  BY <1>2, <1>3 DEF Holds

LEMMA ClosingStep ==
  ASSUME FeedInv, NEW p \in Importers, Clear(p) \/ Repair(p) PROVE FeedInv'
<1>. DEFINE own == LinesOf(importer[p].file)
            run == importer[p].run
            step == IF importer[p].at = "clearing" THEN "repairing" ELSE "succeeding"
<1>1. importer[p].at \in {"clearing", "repairing"} /\ importer[p].at \in FromClearing
  BY DEF Clear, Repair, At, FromClearing
<1>2. importer[p].at \in FromCalls \ {"calls", "retaining"}
  BY <1>1 DEF FromCalls, FromPrune, FromTrips, FromStamped, FromClearing
<1>3. step \in FromCalls \ {"calls"} /\ step \in Steps /\ step \in FromClearing
  BY DEF FromCalls, FromPrune, FromTrips, FromStamped, FromClearing, Steps
<1>4. Go(p, step) /\ seen' \subseteq seen
  BY <1>1 DEF Clear, Repair, At
<1>5. UNCHANGED <<published, route, service, trip, calls, runs, finished>> /\ repairs' \in Nat
  BY FeedParts DEF Clear, Repair
<1>6. /\ importer'[p].at = step /\ importer'[p].file = importer[p].file
      /\ importer'[p].run = run
  BY <1>3, <1>4, GoParts
<1>7. TablesOK(p)'
  <2>. HIDE DEF step
  <2>. QED
    BY <1>1, <1>2, <1>5, <1>6, TablesThere, TablesAre
<1>8. \A l \in Lines : trip'[l] # None => route'[l] # None
  BY <1>5 DEF FeedInv, HistoryOK
<1>9. seen' \subseteq (Runs \X {"trip", "calls"} \X Lines)
  BY <1>4, FeedParts
<1>. HIDE DEF step
<1>. QED
  BY <1>2, <1>3, <1>4, <1>5, <1>7, <1>8, <1>9, FeedParts, Onward

LEMMA SucceedStep ==
  ASSUME FeedInv, NEW p \in Importers, Succeed(p) PROVE FeedInv'
<1>. DEFINE own == LinesOf(importer[p].file)
            r == importer[p].run
            row == [runs[r] EXCEPT !.status = "success", !.complete = None]
            step == "retaining"
<1>1. importer[p].at = "succeeding" /\ importer[p].at \in FromClearing
  BY DEF Succeed, At, FromClearing
<1>2. step \in FromClearing /\ step \in Steps /\ step \in Working /\ step \notin {"trips", "calls"}
  BY DEF FromClearing, Steps, Working, FromCalls, FromPrune, FromTrips, FromStamped
<1>3. /\ importer[p].at \in FromCalls \ {"calls"}
      /\ \A l \in own : route[l] = r /\ service[l] = r
      /\ \A l \in Lines \ own : calls[l] = None /\ trip[l] = None
  BY <1>1, TablesThere
<1>4. /\ \A l \in own : /\ trip[l] = r
                        /\ calls[l] # None /\ calls[l].says = CallsOf[importer[p].file][l]
      /\ own # {} /\ own \subseteq Lines /\ r \in Runs /\ r # None
      /\ importer[p].file \in Files /\ runs[r].file = importer[p].file
  BY <1>3, AllWritten
<1>5. Holds(importer[p].file)
  BY <1>1, WrittenIsHeld
<1>6. UNCHANGED <<published, route, service, trip, calls, seen, repairs>>
  BY DEF Succeed
<1>7. runs \in [Runs -> ImportRun] /\ runs[r] \in ImportRun
  BY <1>4, FeedParts
<1>8. runs' = [runs EXCEPT ![r] = row] /\ finished' = Append(finished, r)
  BY <1>4, <1>7 DEF Succeed
<1>9. row \in ImportRun /\ row.status = "success" /\ row.file = importer[p].file
  BY <1>4, <1>7 DEF ImportRun
<1>10. /\ importer' \in [Importers -> Importer]
       /\ importer'[p].at = step /\ importer'[p].file = importer[p].file
       /\ importer'[p].run = r
  BY <1>2, GoParts DEF Succeed
<1>. HIDE DEF own, r, row, step
<1>11. runs' \in [Runs -> ImportRun] /\ runs'[r] = row /\ \A s \in Runs : s # r => runs'[s] = runs[s]
  BY <1>4, <1>7, <1>8, <1>9
<1>12. finished \in Seq(Runs) /\ finished' \in Seq(Runs)
  BY <1>4, <1>8, FeedParts
<1>13. FeedTypeOK'
  BY <1>6, <1>10, <1>11, <1>12, FeedParts DEF FeedTypeOK
<1>14. HistoryOK'
  <2>1. HistoryOK
    BY DEF FeedInv
  <2>2. ASSUME NEW i \in DOMAIN finished' PROVE runs'[finished'[i]].status = "success"
    <3>1. CASE finished'[i] = r
      BY <1>9, <1>11, <3>1
    <3>2. CASE finished'[i] # r
      <4>1. i \in DOMAIN finished /\ finished'[i] = finished[i] /\ finished[i] \in Runs
        BY <1>8, <1>12, <3>2
      <4>. QED
        BY <1>11, <2>1, <3>2, <4>1 DEF HistoryOK
    <3>. QED
      BY <3>1, <3>2
  <2>3. \A l \in Lines : trip'[l] # None => route'[l] # None
    BY <1>6, <2>1 DEF HistoryOK
  <2>4. ASSUME NEW s \in Runs, runs'[s].status = "success"
        PROVE  /\ runs'[s].file \in Files /\ LinesOf(runs'[s].file) # {}
               /\ HasCoreSchedule(s)' => Holds(runs[s].file)'
    <3>1. CASE s = r
      <4>1. runs'[s].file = importer[p].file
        BY <1>9, <1>11, <3>1
      <4>2. Holds(importer[p].file) => Holds(runs[s].file)'
        BY <1>6, <4>1 DEF Holds
      <4>. QED
        BY <1>4, <1>5, <4>1, <4>2 DEF own
    <3>2. CASE s # r
      <4>1. runs'[s] = runs[s]
        BY <1>11, <3>2
      <4>2. /\ runs[s].file \in Files /\ LinesOf(runs[s].file) # {}
            /\ HasCoreSchedule(s) => Holds(runs[s].file)
        BY <1>3, <2>4, <4>1, <2>1 DEF HistoryOK
      <4>. QED
        BY <1>6, <4>1, <4>2 DEF HasCoreSchedule, Holds
    <3>. QED
      BY <3>1, <3>2
  <2>. QED
    BY <2>2, <2>3, <2>4 DEF HistoryOK
<1>15. RunOK(p)'
  BY <1>4, <1>9, <1>10, <1>11 DEF RunOK, At, step
<1>16. RowsOK(p)'
  <2>1. TripsIn(p)' = own /\ CallsIn(p)' = own
    BY <1>10 DEF TripsIn, CallsIn, At, own, step
  <2>2. \A l \in own : /\ trip'[l] = r
                       /\ calls'[l] # None /\ calls'[l].says = CallsOf[importer[p].file][l]
    BY <1>4, <1>6
  <2>. QED
    BY <1>2, <1>10, <2>1, <2>2 DEF RowsOK
<1>17. TablesOK(p)'
  BY <1>3, <1>6, <1>10, TablesAre DEF own, r
<1>. QED
  BY <1>13, <1>14, <1>15, <1>16, <1>17, OnlyOne

\* What the runs that are kept leave of their order.
LEMMA KeptRuns ==
  ASSUME NEW s \in Seq(Runs), NEW kept, kept \subseteq DOMAIN s
  PROVE  /\ Kept(s, kept) \in Seq(Runs) /\ Len(Kept(s, kept)) = Cardinality(kept)
         /\ \A i \in DOMAIN Kept(s, kept) : \E n \in kept :
              Place(n, kept) = i /\ Kept(s, kept)[i] = s[n]
<1>1. kept \subseteq Nat /\ IsFiniteSet(kept)
  BY PlacesOfSequence, Zenon
<1>2. Kept(s, kept) \in Seq(Runs) /\ Len(Kept(s, kept)) = Cardinality(kept)
  BY KeptType, Zenon
<1>3. DOMAIN Kept(s, kept) = 1 .. Cardinality(kept)
  BY DEF Kept
<1>4. ASSUME NEW i \in DOMAIN Kept(s, kept)
      PROVE  \E n \in kept : Place(n, kept) = i /\ Kept(s, kept)[i] = s[n]
  <2>1. i \in 1 .. Cardinality(kept)
    BY <1>3, Zenon
  <2>2. PICK n \in kept : Place(n, kept) = i
    BY <1>1, <2>1, PlacesFill, Zenon
  <2>3. Kept(s, kept)[Place(n, kept)] = s[n]
    BY <1>1, KeptParts, Zenon
  <2>. QED
    BY <2>2, <2>3, Zenon
<1>. QED
  BY <1>2, <1>4, Zenon

LEMMA RetainStep ==
  ASSUME FeedInv, NEW p \in Importers, Retain(p) PROVE FeedInv'
<1>1. p \notin Limited
  BY DEF FeedInv, Alone
<1>2. PICK gone \in SUBSET Runs :
        /\ finished' = Kept(finished, {i \in DOMAIN finished : finished[i] \notin gone})
        /\ runs' = [r \in Runs |-> IF r \in gone
             THEN [file |-> None, complete |-> None, status |-> "none"] ELSE runs[r]]
  <2>. DEFINE kept == {finished[i] : i \in {j \in DOMAIN finished : j + RunsKept > Len(finished)}}
              gone == {r \in Runs : runs[r].status \in {"failed", "success"}
                                    /\ r \notin kept /\ r \notin Stamps}
  <2>1. /\ finished' = Kept(finished, {i \in DOMAIN finished : finished[i] \notin gone})
        /\ runs' = [r \in Runs |-> IF r \in gone
             THEN [file |-> None, complete |-> None, status |-> "none"] ELSE runs[r]]
    BY <1>1, Zenon DEF Retain
  <2>2. gone \in SUBSET Runs
    OBVIOUS
  <2>. HIDE DEF gone
  <2>. QED
    BY <2>1, <2>2
<1>. DEFINE left == {i \in DOMAIN finished : finished[i] \notin gone}
<1>3. left \subseteq DOMAIN finished /\ \A i \in left : finished[i] \notin gone
  OBVIOUS
<1>4. finished' = Kept(finished, left)
  BY <1>2
<1>5. finished \in Seq(Runs) /\ runs \in [Runs -> ImportRun] /\ HistoryOK
  BY FeedParts DEF FeedInv
<1>. HIDE DEF left
<1>6. finished' \in Seq(Runs)
  BY <1>3, <1>4, <1>5, KeptRuns
<1>7. ASSUME NEW i \in DOMAIN finished'
      PROVE  \E n \in left : finished'[i] = finished[n]
  BY <1>3, <1>4, <1>5, <1>7, KeptRuns
<1>8. [file |-> None, complete |-> None, status |-> "none"] \in ImportRun
  BY DEF ImportRun
<1>9. /\ runs' \in [Runs -> ImportRun]
      /\ \A r \in Runs \ gone : runs'[r] = runs[r]
      /\ \A r \in gone : runs'[r].status # "success"
  BY <1>2, <1>5, <1>8
<1>10. Abandon(p) /\ UNCHANGED <<published, route, service, trip, calls, seen, repairs>>
  BY DEF Retain
<1>11. FeedTypeOK'
  BY <1>6, <1>9, <1>10, FeedParts, Abandoned DEF FeedTypeOK
<1>12. HistoryOK'
  <2>1. ASSUME NEW i \in DOMAIN finished' PROVE runs'[finished'[i]].status = "success"
    <3>1. PICK n \in left : finished'[i] = finished[n]
      BY <1>7
    <3>2. n \in DOMAIN finished /\ finished[n] \in Runs \ gone
      BY <1>3, <1>5
    <3>3. runs[finished[n]].status = "success"
      BY <1>5, <3>2 DEF HistoryOK
    <3>. QED
      BY <1>9, <3>1, <3>2, <3>3
  <2>2. \A l \in Lines : trip'[l] # None => route'[l] # None
    BY <1>5, <1>10 DEF HistoryOK
  <2>3. ASSUME NEW r \in Runs, runs'[r].status = "success"
        PROVE  /\ runs'[r].file \in Files /\ LinesOf(runs'[r].file) # {}
               /\ HasCoreSchedule(r)' => Holds(runs[r].file)'
    <3>1. runs'[r] = runs[r]
      BY <1>9, <2>3
    <3>2. /\ runs[r].file \in Files /\ LinesOf(runs[r].file) # {}
          /\ HasCoreSchedule(r) => Holds(runs[r].file)
      BY <1>5, <2>3, <3>1 DEF HistoryOK
    <3>. QED
      BY <1>10, <3>1, <3>2 DEF HasCoreSchedule, Holds
  <2>. QED
    BY <2>1, <2>2, <2>3 DEF HistoryOK
<1>. QED
  BY <1>10, <1>11, <1>12, Abandoned, AtRest

\* What goes on around an import.
LEMMA AroundStep ==
  ASSUME FeedInv,
         \/ \E p \in Importers : CutOff(p)
         \/ Publish \/ DatabaseCrash \/ Lose
         \/ \E r \in Runs : Age(r)
  PROVE  FeedInv'
<1>1. CASE \E p \in Importers : CutOff(p)
  BY <1>1, FailedStep DEF CutOff
<1>2. CASE Publish
  <2>1. FeedTypeOK'
    BY <1>2, FeedParts DEF Publish, FeedTypeOK
  <2>2. HistoryOK'
    BY <1>2, HistoryKept DEF Publish
  <2>3. Alone' /\ importer' = importer /\ UNCHANGED <<route, service, trip, calls, runs, seen>>
    BY <1>2 DEF FeedInv, Alone, Publish
  <2>4. ASSUME NEW p \in Importers PROVE RunOK(p)' /\ RowsOK(p)' /\ TablesOK(p)'
    <3>1. TripsIn(p)' = TripsIn(p) /\ CallsIn(p)' = CallsIn(p)
      BY <2>3 DEF TripsIn, CallsIn, At
    <3>. QED
      BY <2>3, <3>1 DEF FeedInv, RunOK, RowsOK, TablesOK, At
  <2>. QED
    BY <2>1, <2>2, <2>3, <2>4 DEF FeedInv
<1>3. CASE DatabaseCrash
  <2>1. importer' = [p \in Importers |-> Resting] /\ seen' = {}
        /\ UNCHANGED <<published, route, service, trip, calls, runs, finished, repairs>>
    BY <1>3 DEF DatabaseCrash, FeedInv, Alone
  <2>2. Resting \in Importer /\ Resting.at = "resting"
    BY DEF Resting, Importer, Steps
  <2>3. FeedTypeOK'
    BY <2>1, <2>2, FeedParts DEF FeedTypeOK
  <2>4. HistoryOK'
    BY <2>1, HistoryKept
  <2>. QED
    BY <2>1, <2>2, <2>3, <2>4, AtRest
<1>4. CASE Lose
  <2>1. /\ calls' = [l \in Lines |-> None] /\ importer' = importer
        /\ UNCHANGED <<published, route, service, trip, runs, finished, seen, repairs>>
        /\ \A p \in Importers : importer[p].at = "resting"
    BY <1>4 DEF Lose, At
  <2>2. calls' \in [Lines -> Call \cup {None}] /\ \A l \in Lines : calls'[l] = None
    BY <2>1
  <2>3. FeedTypeOK'
    BY <2>1, <2>2, FeedParts DEF FeedTypeOK
  <2>4. HistoryOK'
    <3>1. \A r \in Runs : ~HasCoreSchedule(r)'
      BY <2>2 DEF HasCoreSchedule
    <3>. QED
      BY <2>1, <3>1 DEF FeedInv, HistoryOK
  <2>. QED
    BY <2>1, <2>3, <2>4, AtRest
<1>5. ASSUME NEW r \in Runs, Age(r) PROVE FeedInv'
  <2>1. /\ runs[r].status = "running" /\ runs' = [runs EXCEPT ![r].status = "old"]
        /\ importer' = importer
        /\ UNCHANGED <<published, route, service, trip, calls, finished, seen, repairs>>
    BY <1>5 DEF Age
  <2>2. runs \in [Runs -> ImportRun] /\ runs[r] \in ImportRun
    BY FeedParts
  <2>3. runs' = [runs EXCEPT ![r] = [runs[r] EXCEPT !.status = "old"]]
    BY <2>1, <2>2
  <2>4. /\ [runs[r] EXCEPT !.status = "old"] \in ImportRun
        /\ [runs[r] EXCEPT !.status = "old"].status = "old"
        /\ [runs[r] EXCEPT !.status = "old"].file = runs[r].file
    BY <2>2 DEF ImportRun
  <2>5. /\ runs' \in [Runs -> ImportRun]
        /\ runs'[r].status = "old" /\ runs'[r].file = runs[r].file
        /\ \A s \in Runs : s # r => runs'[s] = runs[s]
    BY <2>2, <2>3, <2>4
  <2>6. FeedTypeOK'
    BY <2>1, <2>5, FeedParts DEF FeedTypeOK
  <2>7. HistoryOK'
    <3>1. \A s \in Runs : /\ runs[s].status = "success" => runs'[s] = runs[s]
                          /\ runs'[s].status = "success" => runs'[s] = runs[s]
      BY <2>1, <2>5
    <3>. QED
      BY <2>1, <3>1, HistoryKept
  <2>8. ASSUME NEW p \in Importers PROVE RunOK(p)' /\ RowsOK(p)' /\ TablesOK(p)'
    <3>1. TripsIn(p)' = TripsIn(p) /\ CallsIn(p)' = CallsIn(p)
      BY <2>1 DEF TripsIn, CallsIn, At
    <3>2. RowsOK(p)' /\ TablesOK(p)'
      BY <2>1, <3>1 DEF FeedInv, RowsOK, TablesOK
    <3>3. RunOK(p)'
      BY <2>1, <2>5 DEF FeedInv, RunOK, At
    <3>. QED
      BY <3>2, <3>3
  <2>. QED
    BY <2>6, <2>7, <2>8 DEF FeedInv, Alone
<1>. QED
  BY <1>1, <1>2, <1>3, <1>4, <1>5

LEMMA FeedStart == Alone /\ FeedInit => FeedInv
<1>. SUFFICES ASSUME Alone, FeedInit PROVE FeedInv
  OBVIOUS
<1>1. Resting \in Importer /\ Resting.at = "resting"
  BY DEF Resting, Importer, Steps
<1>2. [file |-> None, complete |-> None, status |-> "none"] \in ImportRun
  BY DEF ImportRun
<1>3. FeedTypeOK
  BY <1>1, <1>2 DEF FeedInit, FeedTypeOK
<1>4. \A r \in Runs : runs[r].status = "none"
  BY DEF FeedInit
<1>5. HistoryOK
  BY <1>4 DEF FeedInit, HistoryOK
<1>6. ASSUME NEW p \in Importers PROVE RunOK(p) /\ RowsOK(p) /\ TablesOK(p)
  <2>1. importer[p].at = "resting"
    BY <1>1 DEF FeedInit
  <2>. QED
    BY <2>1 DEF RunOK, RowsOK, TablesOK, At, Working, FromCalls, FromPrune, FromTrips,
                FromStamped, FromClearing
<1>. QED
  BY <1>3, <1>5, <1>6 DEF FeedInv

LEMMA FeedStep == FeedInv /\ [FeedNext]_feedVars => FeedInv'
<1>. SUFFICES ASSUME FeedInv, [FeedNext]_feedVars PROVE FeedInv'
  OBVIOUS
<1>1. ASSUME NEW p \in Importers, Import(p) PROVE FeedInv'
  BY <1>1, FetchStep, CheckStep, RegisterStep, PrepareStep, WriteRoutesStep, FlushTripsStep,
     FlushCallsStep, WriteCalendarsStep, PruneCallsStep, PruneTripsStep, PruneStampedStep,
     ClosingStep, SucceedStep, RetainStep DEF Import
<1>2. CASE \/ \E p \in Importers : CutOff(p)
           \/ Publish \/ DatabaseCrash \/ Lose
           \/ \E r \in Runs : Age(r)
  BY <1>2, AroundStep
<1>3. CASE UNCHANGED feedVars
  <2>1. UNCHANGED <<published, route, service, trip, calls, runs, finished, seen, repairs, importer>>
    BY <1>3 DEF feedVars
  <2>2. FeedTypeOK' /\ Alone'
    BY <2>1 DEF FeedInv, FeedTypeOK, Alone
  <2>3. HistoryOK'
    BY <2>1, HistoryKept
  <2>4. ASSUME NEW p \in Importers PROVE RunOK(p)' /\ RowsOK(p)' /\ TablesOK(p)'
    <3>1. TripsIn(p)' = TripsIn(p) /\ CallsIn(p)' = CallsIn(p)
      BY <2>1 DEF TripsIn, CallsIn, At
    <3>. QED
      BY <2>1, <3>1 DEF FeedInv, RunOK, RowsOK, TablesOK, At
  <2>. QED
    BY <2>2, <2>3, <2>4 DEF FeedInv
<1>. QED
  BY <1>1, <1>2, <1>3 DEF FeedNext

\* One importer that takes whole versions and is cut off with the database:
\* its keys are those of what it has written, what its statements leave is
\* its version, and the trips of a successful run alone are its schedule.
THEOREM ImportInductive == Alone /\ FeedSpec => []FeedInv
  BY FeedStart, FeedStep, PTL DEF FeedSpec

LEMMA SkippedIsHeld == FeedInv => SkipIsRight
<1>. SUFFICES ASSUME FeedInv, NEW p \in Importers, At(p, "checking"),
                     ChecksumUnchanged(importer[p].file)
              PROVE  Holds(importer[p].file)
  BY DEF SkipIsRight
<1>. DEFINE f == importer[p].file
            S == {i \in DOMAIN finished : runs[finished[i]].file = f}
            n == NewestIn(S)
<1>1. finished \in Seq(Runs) /\ HistoryOK
  BY FeedParts DEF FeedInv
<1>2. S \subseteq DOMAIN finished
  OBVIOUS
<1>3. \A i \in S : runs[finished[i]].file = f
  OBVIOUS
<1>4. LastRunOf(f) # None /\ HasCoreSchedule(LastRunOf(f))
  BY DEF ChecksumUnchanged
<1>5. LastRunOf(f) = IF n = 0 THEN None ELSE finished[n]
  BY DEF LastRunOf
<1>. HIDE DEF S, f
<1>6. S \subseteq Nat \ {0} /\ IsFiniteSet(S)
  BY <1>1, <1>2, PlacesOfSequence, Zenon
<1>7. IF S = {} THEN NewestIn(S) = 0 ELSE NewestIn(S) \in S
  BY <1>6, NewestIs, Zenon
<1>8. n \in S /\ LastRunOf(f) = finished[n]
  BY <1>4, <1>5, <1>7
<1>. HIDE DEF n
<1>9. n \in DOMAIN finished /\ finished[n] \in Runs /\ runs[finished[n]].file = f
  BY <1>1, <1>2, <1>3, <1>8
<1>10. runs[finished[n]].status = "success"
  BY <1>1, <1>9 DEF HistoryOK
<1>11. Holds(f)
  BY <1>1, <1>4, <1>8, <1>9, <1>10 DEF HistoryOK
<1>. QED
  BY <1>11 DEF f

\* An unchanged download is skipped only while the schedule it holds is what
\* the rows say (database_import_skip_reason), whatever was cut off or lost.
THEOREM ImportSkipsRightly == Alone /\ FeedSpec => []SkipIsRight
  BY ImportInductive, SkippedIsHeld, PTL

\* A run that ends with success leaves the rows of its version and no others
\* (prune_stale_feed_schedule_rows and what comes before it).
THEOREM ImportsAreWhole == Alone /\ FeedSpec => []SuccessIsWhole
<1>1. FeedInv => SuccessIsWhole
  <2>. SUFFICES ASSUME FeedInv, NEW p \in Importers, At(p, "retaining")
                PROVE  Holds(importer[p].file)
    BY DEF SuccessIsWhole
  <2>1. importer[p].at \in FromClearing
    BY DEF At, FromClearing
  <2>. QED
    BY <2>1, WrittenIsHeld
<1>. QED
  BY <1>1, ImportInductive, PTL

-----------------------------------------------------------------------------
(* The timetable in memory.                                                *)

\* The last successful run ...
LEMMA LastSuccessIs ==
  FeedInv =>
    IF finished = <<>> THEN LastSuccess = None
    ELSE /\ LastSuccess \in Runs /\ LastSuccess # None
         /\ LastSuccess = finished[Len(finished)] /\ Len(finished) \in DOMAIN finished
         /\ runs[LastSuccess].status = "success"
         /\ runs[LastSuccess].file \in Files /\ LinesOf(runs[LastSuccess].file) # {}
         /\ LinesOf(runs[LastSuccess].file) \subseteq Lines
<1>. SUFFICES ASSUME FeedInv, finished # <<>>
              PROVE  /\ LastSuccess \in Runs /\ LastSuccess # None
                     /\ LastSuccess = finished[Len(finished)] /\ Len(finished) \in DOMAIN finished
                     /\ runs[LastSuccess].status = "success"
                     /\ runs[LastSuccess].file \in Files /\ LinesOf(runs[LastSuccess].file) # {}
                     /\ LinesOf(runs[LastSuccess].file) \subseteq Lines
  BY DEF LastSuccess
<1>1. finished \in Seq(Runs) /\ HistoryOK
  BY FeedParts DEF FeedInv
<1>2. Len(finished) \in DOMAIN finished /\ finished[Len(finished)] \in Runs
  BY <1>1
<1>3. LastSuccess = finished[Len(finished)]
  BY DEF LastSuccess, Last
<1>4. runs[LastSuccess].status = "success"
  BY <1>1, <1>2, <1>3 DEF HistoryOK
<1>5. runs[LastSuccess].file \in Files /\ LinesOf(runs[LastSuccess].file) # {}
  BY <1>1, <1>2, <1>3, <1>4 DEF HistoryOK
<1>. QED
  BY <1>2, <1>3, <1>4, <1>5, FeedAssumption DEF LinesOf

\* ... and the timetable of a schedule that is whole.
LEMMA WholeTimetable ==
  FeedInv /\ WholeSchedule =>
    Timetable = IF enabled THEN {<<l, CallsOf[runs[LastSuccess].file][l]>> :
                                   l \in LinesOf(runs[LastSuccess].file)}
                ELSE {}
<1>. SUFFICES ASSUME FeedInv, WholeSchedule
              PROVE  Timetable = IF enabled
                       THEN {<<l, CallsOf[runs[LastSuccess].file][l]>> :
                               l \in LinesOf(runs[LastSuccess].file)}
                       ELSE {}
  OBVIOUS
<1>. DEFINE f == runs[LastSuccess].file
            own == LinesOf(f)
            K == {k \in Lines :
                    /\ enabled
                    /\ LastSuccess # None
                    /\ trip[k] = LastSuccess
                    /\ route[k] # None
                    /\ calls[k] # None
                    /\ service[k] # None \/ \A m \in Lines : service[m] = None}
<1>1. LastSuccess \in Runs /\ LastSuccess # None /\ own \subseteq Lines
  BY LastSuccessIs DEF WholeSchedule
<1>2. /\ \A l \in own : /\ route[l] # None /\ trip[l] # None /\ service[l] # None /\ calls[l] # None
                        /\ calls[l].says = CallsOf[f][l]
      /\ \A l \in Lines \ own : trip[l] = None
      /\ \A l \in Lines : trip[l] \in {None, LastSuccess}
  BY <1>1 DEF WholeSchedule, Holds
<1>3. Timetable = {<<l, calls[l].says>> : l \in K}
  BY DEF Timetable
<1>. HIDE DEF f, own
<1>4. K = IF enabled THEN own ELSE {}
  BY <1>1, <1>2
<1>. HIDE DEF K
<1>5. Timetable = IF enabled THEN {<<l, CallsOf[f][l]>> : l \in own} ELSE {}
  <2>1. CASE enabled
    <3>1. K = own
      BY <1>4, <2>1
    <3>2. \A l \in own : calls[l].says = CallsOf[f][l]
      BY <1>2
    <3>3. {<<l, calls[l].says>> : l \in own} = {<<l, CallsOf[f][l]>> : l \in own}
      BY <3>2
    <3>. QED
      BY <1>3, <2>1, <3>1, <3>3
  <2>2. CASE ~enabled
    BY <1>3, <1>4, <2>2
  <2>. QED
    BY <2>1, <2>2
<1>. QED
  BY <1>5 DEF f, own

\* It stays as long as the last successful run and its version do.
LEMMA TimetableStays ==
  (/\ FeedInv /\ FeedInv' /\ WholeSchedule /\ WholeSchedule'
   /\ LastSuccess' = LastSuccess
   /\ runs'[LastSuccess].file = runs[LastSuccess].file
   /\ enabled' = enabled)
  => Timetable' = Timetable
<1>1. (FeedInv /\ WholeSchedule =>
        Timetable = IF enabled THEN {<<l, CallsOf[runs[LastSuccess].file][l]>> :
                                       l \in LinesOf(runs[LastSuccess].file)}
                    ELSE {})'
  BY WholeTimetable, PTL
<1>. QED
  BY <1>1, WholeTimetable

\* The runs that are kept end with the same one.
LEMMA LastRunKept ==
  ASSUME FeedInv, NEW p \in Importers, Retain(p)
  PROVE  /\ LastSuccess' = LastSuccess
         /\ finished' = <<>> <=> finished = <<>>
         /\ finished # <<>> => runs'[LastSuccess] = runs[LastSuccess]
<1>. DEFINE kept == {finished[i] : i \in {j \in DOMAIN finished : j + RunsKept > Len(finished)}}
            gone == {r \in Runs : runs[r].status \in {"failed", "success"}
                                  /\ r \notin kept /\ r \notin Stamps}
            left == {i \in DOMAIN finished : finished[i] \notin gone}
            n == Len(finished)
<1>1. p \notin Limited
  BY DEF FeedInv, Alone
<1>2. /\ finished' = Kept(finished, left)
      /\ runs' = [r \in Runs |-> IF r \in gone
             THEN [file |-> None, complete |-> None, status |-> "none"] ELSE runs[r]]
  BY <1>1, Zenon DEF Retain
<1>3. finished \in Seq(Runs) /\ n \in Nat /\ DOMAIN finished = 1 .. n
  BY FeedParts
<1>4. finished # <<>> => n \in left /\ finished[n] \notin gone
  <2>1. SUFFICES ASSUME finished # <<>> PROVE finished[n] \in kept /\ n \in DOMAIN finished
    OBVIOUS
  <2>2. n \in DOMAIN finished /\ n + RunsKept > Len(finished)
    BY <1>3, <2>1, FeedAssumption
  <2>. QED
    BY <2>2
<1>5. left \subseteq DOMAIN finished
  OBVIOUS
<1>. HIDE DEF left, gone
<1>6. /\ Len(finished') = Cardinality(left) /\ finished' \in Seq(Runs)
      /\ left \subseteq Nat /\ IsFiniteSet(left)
  <2>1. Kept(finished, left) \in Seq(Runs) /\ Len(Kept(finished, left)) = Cardinality(left)
    BY <1>3, <1>5, KeptRuns
  <2>2. left \subseteq Nat /\ IsFiniteSet(left)
    BY <1>3, <1>5, PlacesOfSequence, Zenon
  <2>. QED
    BY <1>2, <2>1, <2>2
<1>7. CASE finished = <<>>
  <2>1. left = {}
    BY <1>5, <1>7
  <2>2. Len(finished') = 0
    BY <1>6, <2>1, FS_EmptySet
  <2>3. finished' = <<>>
    BY <1>6, <2>2
  <2>. QED
    BY <1>7, <2>3 DEF LastSuccess
<1>8. CASE finished # <<>>
  <2>1. n \in left /\ finished[n] \in Runs \ gone
    BY <1>3, <1>4, <1>8
  <2>2. {m \in left : m <= n} = left
    BY <1>3, <1>5
  <2>3. Place(n, left) = Cardinality(left)
    BY <2>2 DEF Place
  <2>4. Place(n, left) \in 1 .. Cardinality(left) /\ Cardinality(left) \in Nat
    BY <1>6, <2>1, PlacesFill, Zenon
  <2>5. Kept(finished, left)[Place(n, left)] = finished[n]
    <3>1. left \subseteq Nat /\ IsFiniteSet(left)
      BY <1>6
    <3>2. n \in left
      BY <2>1
    <3>. HIDE DEF n
    <3>3. \A m \in left : Kept(finished, left)[Place(m, left)] = finished[m]
      BY <3>1, KeptParts
    <3>. QED
      BY <3>2, <3>3
  <2>6. finished'[Len(finished')] = finished[n] /\ Len(finished') # 0
    BY <1>2, <1>6, <2>3, <2>4, <2>5
  <2>7. finished' # <<>>
    BY <2>6
  <2>8. LastSuccess = finished[n] /\ LastSuccess' = finished'[Len(finished')]
    BY <1>8, <2>7 DEF LastSuccess, Last
  <2>9. runs'[finished[n]] = runs[finished[n]]
    BY <1>2, <2>1
  <2>. QED
    BY <1>8, <2>6, <2>7, <2>8, <2>9
<1>. QED
  BY <1>7, <1>8

\* Where the import is after its repairs.
LEMMA RepairsMove ==
  ASSUME FeedInv, FeedNext
  PROVE  /\ repairs' \in {repairs, repairs + 1}
         /\ \A p \in Importers : importer'[p].at = "succeeding" =>
              \/ repairs' = repairs + 1
              \/ /\ importer[p].at = "succeeding" /\ importer'[p].run = importer[p].run
                 /\ repairs' = repairs
<1>1. ASSUME NEW p \in Importers, importer' = importer, repairs' = repairs
      PROVE  importer'[p].at = "succeeding" =>
               importer[p].at = "succeeding" /\ importer'[p].run = importer[p].run
  BY <1>1
<1>2. ASSUME NEW p \in Importers, NEW q \in Importers, Import(p) \/ CutOff(p)
      PROVE  /\ repairs' \in {repairs, repairs + 1}
             /\ importer'[q].at = "succeeding" => repairs' = repairs + 1
  <2>1. q = p /\ importer \in [Importers -> Importer] /\ importer[p] \in Importer
    BY FeedParts DEF FeedInv, Alone
  <2>2. CASE Abandon(p)
    <3>1. importer'[q].at = "resting"
      BY <2>2, Abandoned
    <3>2. repairs' \in {repairs, repairs + 1}
      BY <1>2 DEF Import, Fetch, Check, Register, Prepare, WriteRoutes, FlushTrips, FlushCalls,
        WriteCalendars, PruneCalls, PruneTrips, PruneStamped, Clear, Repair, Succeed, Retain, CutOff
    <3>. QED
      BY <3>1, <3>2
  <2>3. ASSUME NEW step \in Steps, Go(p, step) PROVE importer'[p].at = step
    BY <2>3, GoParts
  <2>4. ASSUME NEW step, NEW left, GoWith(p, step, left) PROVE importer'[p].at = step
    <3>1. importer' = [importer EXCEPT ![p] = [importer[p] EXCEPT !.at = step, !.left = left]]
      BY <2>1, <2>4 DEF GoWith
    <3>2. importer'[p] = [importer[p] EXCEPT !.at = step, !.left = left]
      BY <2>1, <3>1
    <3>. QED
      BY <2>1, <3>2 DEF Importer
  <2>5. CASE Fetch(p)
    <3>1. importer'[p].at \in {"registering", "checking"}
      BY <2>1, <2>5 DEF Fetch, Importer
    <3>. QED
      BY <2>1, <2>5, <3>1 DEF Fetch
  <2>6. CASE Register(p)
    <3>1. importer'[p].at = "preparing"
      <4>1. PICK r : importer' = [importer EXCEPT ![p].at = "preparing", ![p].run = r]
        BY <2>6, Zenon DEF Register
      <4>. QED
        BY <2>1, <4>1 DEF Importer
    <3>. QED
      BY <2>1, <2>6, <3>1 DEF Register
  <2>7. CASE Repair(p)
    BY <2>7, FeedParts DEF Repair
  <2>8. CASE Check(p)
    BY <2>1, <2>2, <2>3, <2>8 DEF Check, Steps
  <2>9. CASE Prepare(p) \/ WriteCalendars(p) \/ Clear(p) \/ Succeed(p)
    BY <2>1, <2>3, <2>9 DEF Prepare, WriteCalendars, Clear, Succeed, Steps
  <2>10. CASE WriteRoutes(p)
    BY <2>1, <2>4, <2>10 DEF WriteRoutes
  <2>11. CASE FlushTrips(p)
    BY <2>1, <2>2, <2>4, <2>11 DEF FlushTrips
  <2>12. CASE FlushCalls(p)
    BY <2>1, <2>2, <2>4, <2>12 DEF FlushCalls
  <2>13. CASE PruneCalls(p)
    BY <2>1, <2>3, <2>13 DEF PruneCalls, Steps
  <2>14. CASE PruneTrips(p)
    BY <2>1, <2>2, <2>3, <2>14 DEF PruneTrips, Steps
  <2>15. CASE PruneStamped(p)
    BY <2>1, <2>2, <2>3, <2>15 DEF PruneStamped, Steps
  <2>16. CASE Retain(p) \/ CutOff(p)
    BY <2>2, <2>16 DEF Retain, CutOff
  <2>. QED
    BY <1>2, <2>5, <2>6, <2>7, <2>8, <2>9, <2>10, <2>11, <2>12, <2>13, <2>14, <2>15, <2>16
       DEF Import
<1>3. CASE \E p \in Importers : Import(p) \/ CutOff(p)
  BY <1>2, <1>3
<1>4. CASE DatabaseCrash
  <2>1. importer' = [p \in Importers |-> Resting] /\ repairs' = repairs
    BY <1>4 DEF DatabaseCrash, FeedInv, Alone
  <2>. QED
    BY <2>1 DEF Resting
<1>5. CASE Publish \/ Lose \/ \E r \in Runs : Age(r)
  <2>1. importer' = importer /\ repairs' = repairs
    BY <1>5 DEF Publish, Lose, Age
  <2>. QED
    BY <1>1, <2>1
<1>. QED
  BY <1>3, <1>4, <1>5 DEF FeedNext

\* A run becomes the last to succeed where its import is past the repairs.
LEMMA LastMoves ==
  ASSUME FeedInv, FeedNext
  PROVE  \/ LastSuccess' = LastSuccess
         \/ /\ repairs' = repairs /\ finished' # <<>>
            /\ \E p \in Importers : /\ At(p, "succeeding") /\ LastSuccess' = importer[p].run
                                    /\ LastSuccess' # LastSuccess
<1>1. ASSUME NEW p \in Importers, Succeed(p)
      PROVE  /\ repairs' = repairs /\ At(p, "succeeding") /\ LastSuccess' = importer[p].run
             /\ LastSuccess' # LastSuccess /\ finished' # <<>>
  <2>1. importer[p].at = "succeeding" /\ importer[p].at \in Working \ {"retaining"}
    BY <1>1 DEF Succeed, At, Working, FromCalls, FromPrune, FromTrips, FromStamped, FromClearing
  <2>2. importer[p].run \in Runs /\ importer[p].run # None
        /\ runs[importer[p].run].status \in {"running", "old"}
    BY <2>1, AtWork DEF FeedInv, RunOK, At
  <2>3. finished \in Seq(Runs) /\ finished' = Append(finished, importer[p].run)
    BY <1>1, FeedParts DEF Succeed
  <2>4. finished' # <<>> /\ finished'[Len(finished')] = importer[p].run
    BY <2>2, <2>3
  <2>5. LastSuccess' = importer[p].run
    BY <2>4 DEF LastSuccess, Last
  <2>6. LastSuccess # importer[p].run
    BY <2>2, LastSuccessIs DEF LastSuccess
  <2>. QED
    BY <1>1, <2>4, <2>5, <2>6 DEF Succeed
<1>2. ASSUME NEW p \in Importers, Retain(p) PROVE LastSuccess' = LastSuccess
  BY <1>2, LastRunKept
<1>3. ASSUME finished' = finished PROVE LastSuccess' = LastSuccess
  BY <1>3 DEF LastSuccess
<1>4. ASSUME NEW p \in Importers, Import(p) \/ CutOff(p), ~Succeed(p), ~Retain(p)
      PROVE  finished' = finished
  BY <1>4 DEF Import, Fetch, Check, Register, Prepare, WriteRoutes, FlushTrips, FlushCalls,
    WriteCalendars, PruneCalls, PruneTrips, PruneStamped, Clear, Repair, CutOff
<1>5. CASE Publish \/ DatabaseCrash \/ Lose \/ \E r \in Runs : Age(r)
  <2>1. finished' = finished
    BY <1>5 DEF Publish, DatabaseCrash, Lose, Age
  <2>. QED
    BY <1>3, <2>1
<1>6. CASE \E p \in Importers : Import(p) \/ CutOff(p)
  BY <1>1, <1>2, <1>3, <1>4, <1>6
<1>. QED
  BY <1>5, <1>6 DEF FeedNext

\* A schedule that is whole under the same revision was so before the step.
LEMMA WholeBefore ==
  ASSUME FeedInv, FeedNext, WholeSchedule', LastSuccess' = LastSuccess
  PROVE  /\ WholeSchedule
         /\ runs'[LastSuccess].file = runs[LastSuccess].file
<1>. DEFINE r == LastSuccess
            f == runs[r].file
<1>0. ASSUME finished # <<>>
      PROVE  /\ r \in Runs /\ r # None /\ runs[r].status = "success" /\ f \in Files
             /\ LinesOf(f) # {} /\ LinesOf(f) \subseteq Lines
  BY <1>0, LastSuccessIs
\* A step that leaves the rows.
<1>1. ASSUME UNCHANGED <<route, service, trip, calls>>, finished' # <<>> => finished # <<>>,
             finished # <<>> => runs'[r].file = f
      PROVE  WholeSchedule /\ runs'[r].file = f
  BY <1>1 DEF WholeSchedule, Holds
\* A step of an import that has written a trip.
<1>2. ASSUME NEW p \in Importers, importer[p].at \in Working \ {"retaining"},
             NEW l \in Lines, trip'[l] = importer[p].run, UNCHANGED <<finished, runs>>
      PROVE  FALSE
  <2>1. importer[p].run \in Runs /\ importer[p].run # None
        /\ runs[importer[p].run].status \in {"running", "old"}
    BY <1>2, AtWork DEF FeedInv, RunOK, At
  <2>2. finished # <<>> /\ trip'[l] \in {None, r}
    BY <1>2 DEF WholeSchedule
  <2>. QED
    BY <1>0, <1>2, <2>1, <2>2
<1>3. runs \in [Runs -> ImportRun] /\ HistoryOK
  BY FeedParts DEF FeedInv
<1>4. ASSUME NEW p \in Importers, Import(p) \/ CutOff(p)
      PROVE  WholeSchedule /\ runs'[r].file = f
  <2>1. ASSUME importer[p].at \in FromCalls \ {"calls", "retaining"},
               UNCHANGED <<finished, runs>>,
               \A l \in LinesOf(importer[p].file) : trip'[l] = trip[l]
        PROVE  FALSE
    <3>1. PICK l \in LinesOf(importer[p].file) : l \in Lines /\ trip[l] = importer[p].run
      BY <2>1, AllWritten
    <3>2. importer[p].at \in Working \ {"retaining"}
      BY <2>1, AllWritten
    <3>. QED
      BY <1>2, <2>1, <3>1, <3>2
  <2>2. CASE Fetch(p) \/ Prepare(p) \/ Clear(p) \/ Repair(p) \/ CutOff(p)
    BY <1>1, <2>2 DEF Fetch, Prepare, Clear, Repair, CutOff
  <2>3. CASE Check(p)
    <3>1. finished # <<>> => runs'[r].file = f
      BY <1>0, <1>3, <2>3 DEF Check, Recovered
    <3>. QED
      BY <1>1, <2>3, <3>1 DEF Check
  <2>4. CASE Register(p)
    <3>1. PICK s \in Fresh :
            runs' = [runs EXCEPT ![s] =
              [file |-> importer[p].file, complete |-> p \notin Limited, status |-> "running"]]
      <4>. DEFINE s == CHOOSE s \in Fresh : TRUE
      <4>1. s \in Fresh
        BY <2>4 DEF Register
      <4>. QED
        BY <2>4, <4>1, Zenon DEF Register
    <3>2. finished # <<>> => s # r
      BY <1>0 DEF Fresh, InForce
    <3>3. finished # <<>> => runs'[r].file = f
      BY <1>0, <1>3, <3>1, <3>2
    <3>. QED
      BY <1>1, <2>4, <3>3 DEF Register
  <2>5. CASE WriteRoutes(p)
    <3>1. UNCHANGED <<service, trip, calls, runs, finished>>
      BY <2>5 DEF WriteRoutes
    <3>2. Holds(f)
      <4>1. \A l \in Lines : trip[l] # None => route[l] # None
        BY <1>3 DEF HistoryOK
      <4>2. \A l \in Lines :
              IF l \in LinesOf(f)
              THEN /\ None \notin {trip[l], service[l], calls[l]}
                   /\ calls[l].says = CallsOf[f][l]
              ELSE trip[l] = None /\ calls[l] = None
        BY <3>1 DEF WholeSchedule, Holds
      <4>. QED
        BY <4>1, <4>2 DEF Holds
    <3>. QED
      BY <3>1, <3>2 DEF WholeSchedule
  <2>6. CASE FlushTrips(p)
    <3>1. PICK l \in importer[p].left :
            IF route[l] = None THEN UNCHANGED trip
            ELSE trip' = [trip EXCEPT ![l] = importer[p].run]
      BY <2>6 DEF FlushTrips
    <3>2. l \in Lines /\ UNCHANGED <<route, service, calls, runs, finished>>
          /\ importer[p].at \in Working \ {"retaining"}
      BY <2>6, ImporterParts DEF FlushTrips, At, Working
    <3>3. CASE route[l] = None
      BY <1>1, <3>1, <3>2, <3>3
    <3>4. CASE route[l] # None
      <4>1. trip'[l] = importer[p].run
        BY <3>1, <3>2, <3>4, FeedParts
      <4>. QED
        BY <1>2, <3>2, <4>1
    <3>. QED
      BY <3>3, <3>4
  <2>7. CASE FlushCalls(p)
    <3>1. importer[p].at \in FromCalls /\ importer[p].at \in Working \ {"retaining"}
          /\ UNCHANGED <<trip, runs, finished>>
      BY <2>7 DEF FlushCalls, At, FromCalls, Working
    <3>2. PICK l \in LinesOf(importer[p].file) : l \in Lines /\ trip[l] = importer[p].run
      BY <3>1, TripsThere, AtWork
    <3>. QED
      BY <1>2, <3>1, <3>2
  <2>8. CASE WriteCalendars(p) \/ PruneCalls(p) \/ PruneStamped(p)
    <3>1. importer[p].at \in FromCalls \ {"calls", "retaining"} /\ UNCHANGED <<trip, runs, finished>>
      BY <2>8 DEF WriteCalendars, PruneCalls, PruneStamped, At, FromCalls, FromPrune, FromTrips,
                  FromStamped
    <3>. QED
      BY <2>1, <3>1
  <2>9. CASE PruneTrips(p)
    <3>1. importer[p].at \in FromCalls \ {"calls", "retaining"} /\ UNCHANGED <<runs, finished>>
          /\ importer[p].at \notin FromClearing
      BY <2>9 DEF PruneTrips, At, FromCalls, FromPrune, FromTrips, FromStamped, FromClearing
    <3>2. ASSUME NEW l \in LinesOf(importer[p].file) PROVE trip'[l] = trip[l]
      <4>1. l \in Lines /\ <<importer[p].run, "trip", l>> \in seen
        BY <3>1, AllWritten
      <4>. QED
        BY <2>9, <4>1 DEF PruneTrips
    <3>. QED
      BY <2>1, <3>1, <3>2
  <2>10. CASE Succeed(p)
    <3>1. importer[p].at \in Working \ {"retaining"}
      BY <2>10 DEF Succeed, At, Working, FromCalls, FromPrune, FromTrips, FromStamped, FromClearing
    <3>2. importer[p].run \in Runs /\ importer[p].run # None
          /\ runs[importer[p].run].status \in {"running", "old"}
      BY <3>1, AtWork DEF FeedInv, RunOK, At
    <3>3. finished \in Seq(Runs) /\ finished' = Append(finished, importer[p].run)
      BY <2>10, FeedParts DEF Succeed
    <3>4. finished' # <<>> /\ finished'[Len(finished')] = importer[p].run
      BY <3>2, <3>3
    <3>5. LastSuccess' = importer[p].run
      BY <3>4 DEF LastSuccess, Last
    <3>6. LastSuccess # importer[p].run
      BY <1>0, <3>2 DEF LastSuccess
    <3>. QED
      BY <3>5, <3>6
  <2>11. CASE Retain(p)
    BY <1>1, <2>11, LastRunKept DEF Retain
  <2>. QED
    BY <1>4, <2>2, <2>3, <2>4, <2>5, <2>6, <2>7, <2>8, <2>9, <2>10, <2>11 DEF Import
<1>5. CASE Publish \/ DatabaseCrash
  BY <1>1, <1>5 DEF Publish, DatabaseCrash
<1>6. ASSUME NEW s \in Runs, Age(s) PROVE WholeSchedule /\ runs'[r].file = f
  <2>1. runs[s] \in ImportRun /\ runs' = [runs EXCEPT ![s].status = "old"]
    BY <1>3, <1>6 DEF Age
  <2>2. finished # <<>> => runs'[r].file = f
    BY <1>0, <1>3, <2>1 DEF ImportRun
  <2>. QED
    BY <1>1, <1>6, <2>2 DEF Age
<1>7. CASE Lose
  <2>1. UNCHANGED <<runs, finished>> /\ \A l \in Lines : calls'[l] = None
    BY <1>7 DEF Lose
  <2>2. finished # <<>>
    BY <2>1 DEF WholeSchedule
  <2>3. PICK l \in LinesOf(f) : l \in Lines
    BY <1>0, <2>2
  <2>4. calls'[l] # None
    BY <2>1, <2>3 DEF WholeSchedule, Holds
  <2>. QED
    BY <2>1, <2>3, <2>4
<1>. QED
  BY <1>4, <1>5, <1>6, <1>7 DEF FeedNext

\* What the memory, the files and the callers hold, in parts.
LEMMA SnapshotParts ==
  ASSUME SnapshotInv
  PROVE  /\ FeedInv /\ enabled \in BOOLEAN /\ toggles \in Nat
         /\ memory \subseteq Cells /\ files \in Seq(Cells)
         /\ caller \in [Callers -> [at : {"aside", "looking", "building", "writing", "ensuring"},
                                    token : Tokens \cup {None}, found : Timetables]]
         /\ Empty \in Timetables /\ Aside.at = "aside"
         /\ Aside \in [at : {"aside", "looking", "building", "writing", "ensuring"},
                       token : Tokens \cup {None}, found : Timetables]
<1>1. Empty \in Timetables
  BY DEF Empty, Timetables
<1>2. Aside \in [at : {"aside", "looking", "building", "writing", "ensuring"},
                 token : Tokens \cup {None}, found : Timetables]
  BY <1>1 DEF Aside
<1>3. Aside.at = "aside"
  BY DEF Aside
<1>. QED
  BY <1>1, <1>2, <1>3 DEF SnapshotInv, TypeOK

\* The revision of the data is one that may be kept, and so is its timetable.
LEMMA RevisionIsGood ==
  ASSUME SnapshotInv
  PROVE  NotAhead(Revision) /\ Timetable \in Timetables
<1>1. FeedInv /\ enabled \in BOOLEAN /\ repairs \in Nat
  BY SnapshotParts, FeedParts
<1>2. LastSuccess \in Runs \cup {None}
  BY <1>1, LastSuccessIs DEF LastSuccess
<1>3. ASSUME NEW p \in Importers, At(p, "succeeding") PROVE LastSuccess # importer[p].run
  <2>1. importer[p].at \in Working \ {"retaining"}
    BY <1>3 DEF At, Working, FromCalls, FromPrune, FromTrips, FromStamped, FromClearing
  <2>2. importer[p].run \in Runs /\ importer[p].run # None
        /\ runs[importer[p].run].status \in {"running", "old"}
    BY <1>1, <2>1, AtWork DEF FeedInv, RunOK, At
  <2>. QED
    BY <1>1, <2>2, LastSuccessIs DEF LastSuccess
<1>4. Revision \in Tokens
  BY <1>1, <1>2 DEF Revision, Tokens
<1>5. Revision[1] = LastSuccess /\ Revision[2] = repairs /\ Revision[3] = enabled
  BY DEF Revision
<1>6. enabled \/ toggles # 0
  BY DEF SnapshotInv
<1>7. NotAhead(Revision)
  BY <1>1, <1>3, <1>4, <1>5, <1>6 DEF NotAhead
<1>8. ASSUME NEW l \in Lines, calls[l] # None PROVE calls[l].says \in {c.says : c \in Call}
  <2>1. calls[l] \in Call
    BY <1>1, <1>8, FeedParts
  <2>. QED
    BY <2>1
<1>9. Timetable \subseteq Lines \X {c.says : c \in Call}
  BY <1>8 DEF Timetable
<1>. QED
  BY <1>7, <1>9 DEF Timetables

Good(c) == NotAhead(c.token) /\ IsCurrent(c)

\* A step of the API keeps the invariant when what it holds is good.
LEMMA ApiStep ==
  ASSUME SnapshotInv,
         UNCHANGED <<published, route, service, trip, calls, runs, finished, seen, repairs, importer>>,
         UNCHANGED <<enabled, toggles>>,
         memory' \subseteq Cells, files' \in Seq(Cells),
         caller' \in [Callers -> [at : {"aside", "looking", "building", "writing", "ensuring"},
                                  token : Tokens \cup {None}, found : Timetables]],
         \A c : c \in memory' \/ c \in ToSet(files') => Good(c),
         \A o \in Callers : caller'[o].at # "aside" =>
            Good([token |-> caller'[o].token, timetable |-> caller'[o].found])
  PROVE  SnapshotInv'
<1>1. FeedInv'
  <2>1. FeedInv /\ FeedTypeOK' /\ Alone'
    BY DEF SnapshotInv, FeedInv, FeedTypeOK, Alone
  <2>2. HistoryOK'
    BY <2>1, HistoryKept
  <2>3. ASSUME NEW p \in Importers PROVE RunOK(p)' /\ RowsOK(p)' /\ TablesOK(p)'
    <3>1. TripsIn(p)' = TripsIn(p) /\ CallsIn(p)' = CallsIn(p)
      BY DEF TripsIn, CallsIn, At
    <3>. QED
      BY <2>1, <3>1 DEF FeedInv, RunOK, RowsOK, TablesOK, At
  <2>. QED
    BY <2>1, <2>2, <2>3 DEF FeedInv
<1>2. TypeOK'
  BY DEF SnapshotInv, TypeOK, FeedTypeOK
<1>3. ASSUME NEW c, c \in Held' PROVE Good(c)
  BY <1>3 DEF Held
<1>4. ASSUME NEW c, Good(c) PROVE NotAhead(c.token)' /\ IsCurrent(c)'
  <2>1. Revision' = Revision /\ LastSuccess' = LastSuccess
    BY DEF Revision, LastSuccess
  <2>2. WholeSchedule' = WholeSchedule
    BY <2>1 DEF WholeSchedule, Holds
  <2>3. Timetable' = Timetable
    BY <2>1 DEF Timetable
  <2>4. NotAhead(c.token)'
    BY <1>4 DEF Good, NotAhead, At
  <2>. QED
    BY <1>4, <2>1, <2>2, <2>3, <2>4 DEF Good, IsCurrent
<1>. QED
  BY <1>1, <1>2, <1>3, <1>4 DEF SnapshotInv

\* What is held now is good.
LEMMA HeldIsGood ==
  ASSUME SnapshotInv
  PROVE  /\ \A c : c \in memory \/ c \in ToSet(files) => Good(c)
         /\ \A q \in Callers : caller[q].at # "aside" =>
              Good([token |-> caller[q].token, timetable |-> caller[q].found])
  BY DEF SnapshotInv, Held, Good

\* A caller goes on with a good timetable, or is done.
LEMMA CallerGoes ==
  ASSUME SnapshotInv, NEW q \in Callers, caller[q].at # "aside", NEW found \in Timetables,
         Good([token |-> caller[q].token, timetable |-> found]),
         \/ \E step \in {"building", "writing", "ensuring"} : Turn(q, step, found)
         \/ Served(q, found)
         \/ caller' = [caller EXCEPT ![q] = Aside]
  PROVE  /\ caller' \in [Callers -> [at : {"aside", "looking", "building", "writing", "ensuring"},
                                     token : Tokens \cup {None}, found : Timetables]]
         /\ \A o \in Callers : caller'[o].at # "aside" =>
              Good([token |-> caller'[o].token, timetable |-> caller'[o].found])
<1>. DEFINE Caller == [at : {"aside", "looking", "building", "writing", "ensuring"},
                       token : Tokens \cup {None}, found : Timetables]
<1>1. caller \in [Callers -> Caller] /\ caller[q] \in Caller /\ Aside \in Caller /\ Aside.at = "aside"
  BY SnapshotParts
<1>2. CASE caller' = [caller EXCEPT ![q] = Aside]
  <2>. HIDE DEF Caller
  <2>1. caller' \in [Callers -> Caller] /\ caller'[q] = Aside
        /\ \A o \in Callers : o # q => caller'[o] = caller[o]
    BY <1>1, <1>2
  <2>2. ASSUME NEW o \in Callers, caller'[o].at # "aside"
        PROVE  Good([token |-> caller'[o].token, timetable |-> caller'[o].found])
    <3>1. o # q
      BY <1>1, <2>1, <2>2
    <3>2. caller'[o] = caller[o]
      BY <2>1, <3>1
    <3>3. caller[o].at # "aside"
      BY <2>2, <3>2
    <3>4. Good([token |-> caller[o].token, timetable |-> caller[o].found])
      BY <3>3, HeldIsGood
    <3>. QED
      BY <3>2, <3>4, Zenon
  <2>. QED
    BY <2>1, <2>2 DEF Caller
<1>3. ASSUME NEW step \in {"building", "writing", "ensuring"}, Turn(q, step, found)
      PROVE  /\ caller' \in [Callers -> Caller]
             /\ \A o \in Callers : caller'[o].at # "aside" =>
                  Good([token |-> caller'[o].token, timetable |-> caller'[o].found])
  <2>. DEFINE row == [caller[q] EXCEPT !.at = step, !.found = found]
  <2>1. row \in Caller /\ row.token = caller[q].token /\ row.found = found
    BY <1>1
  <2>2. caller' = [caller EXCEPT ![q] = row]
    BY <1>1, <1>3 DEF Turn
  <2>. HIDE DEF Caller, row
  <2>3. caller' \in [Callers -> Caller] /\ caller'[q] = row
        /\ \A o \in Callers : o # q => caller'[o] = caller[o]
    BY <1>1, <2>1, <2>2
  <2>4. ASSUME NEW o \in Callers, caller'[o].at # "aside"
        PROVE  Good([token |-> caller'[o].token, timetable |-> caller'[o].found])
    <3>1. CASE o = q
      <4>1. caller'[o].token = caller[q].token /\ caller'[o].found = found
        BY <2>1, <2>3, <3>1
      <4>. QED
        BY <4>1, Zenon
    <3>2. CASE o # q
      <4>1. caller'[o] = caller[o]
        BY <2>3, <3>2
      <4>2. caller[o].at # "aside"
        BY <2>4, <4>1
      <4>3. Good([token |-> caller[o].token, timetable |-> caller[o].found])
        BY <4>2, HeldIsGood
      <4>. QED
        BY <4>1, <4>3, Zenon
    <3>. QED
      BY <3>1, <3>2
  <2>. QED
    BY <2>3, <2>4
<1>4. CASE Served(q, found)
  <2>1. CASE q = Warmer
    BY <1>3, <1>4, <2>1 DEF Served
  <2>2. CASE q # Warmer
    BY <1>2, <1>4, <2>2 DEF Served
  <2>. QED
    BY <2>1, <2>2
<1>. QED
  BY <1>2, <1>3, <1>4

LEMMA ReadRevisionStep ==
  ASSUME SnapshotInv, NEW q \in Callers, ReadRevision(q) PROVE SnapshotInv'
<1>. DEFINE Caller == [at : {"aside", "looking", "building", "writing", "ensuring"},
                       token : Tokens \cup {None}, found : Timetables]
            row == [at |-> "looking", token |-> Revision, found |-> Empty]
<1>1. caller \in [Callers -> Caller] /\ Empty \in Timetables
  BY SnapshotParts
<1>2. NotAhead(Revision) /\ Revision \in Tokens
  BY RevisionIsGood DEF NotAhead
<1>3. row \in Caller /\ row.token = Revision /\ row.found = Empty
  BY <1>1, <1>2
<1>4. caller' = [caller EXCEPT ![q] = row]
  BY DEF ReadRevision
<1>. HIDE DEF Caller, row
<1>5. caller' \in [Callers -> Caller] /\ caller'[q] = row
      /\ \A o \in Callers : o # q => caller'[o] = caller[o]
  BY <1>1, <1>3, <1>4
<1>6. ASSUME NEW o \in Callers, caller'[o].at # "aside"
      PROVE  Good([token |-> caller'[o].token, timetable |-> caller'[o].found])
  <2>1. CASE o = q
    <3>1. caller'[o].token = Revision /\ caller'[o].found = Empty
      BY <1>3, <1>5, <2>1
    <3>2. Good([token |-> Revision, timetable |-> Empty])
      BY <1>2 DEF Good, IsCurrent
    <3>. QED
      BY <3>1, <3>2, Zenon
  <2>2. CASE o # q
    <3>1. caller'[o] = caller[o]
      BY <1>5, <2>2
    <3>2. caller[o].at # "aside"
      BY <1>6, <3>1
    <3>3. Good([token |-> caller[o].token, timetable |-> caller[o].found])
      BY <3>2, HeldIsGood
    <3>. QED
      BY <3>1, <3>3, Zenon
  <2>. QED
    BY <2>1, <2>2
<1>7. UNCHANGED <<published, route, service, trip, calls, runs, finished, seen, repairs, importer>>
      /\ UNCHANGED <<enabled, toggles>> /\ UNCHANGED <<memory, files>>
  BY DEF ReadRevision, feedVars
<1>8. memory' \subseteq Cells /\ files' \in Seq(Cells)
      /\ \A c : c \in memory' \/ c \in ToSet(files') => Good(c)
  BY <1>7, SnapshotParts, HeldIsGood
<1>. QED
  BY <1>5, <1>6, <1>7, <1>8, ApiStep DEF Caller

\* A caller that is at work holds a revision that may be kept.
LEMMA AtWorkHolds ==
  ASSUME SnapshotInv, NEW q \in Callers, caller[q].at # "aside"
  PROVE  /\ caller[q].token \in Tokens /\ caller[q].found \in Timetables
         /\ NotAhead(caller[q].token)
         /\ Good([token |-> caller[q].token, timetable |-> caller[q].found])
         /\ Good([token |-> caller[q].token, timetable |-> Empty])
         /\ [token |-> caller[q].token, timetable |-> Empty] \in Cells
<1>1. caller[q] \in [at : {"aside", "looking", "building", "writing", "ensuring"},
                     token : Tokens \cup {None}, found : Timetables]
  BY SnapshotParts
<1>2. Good([token |-> caller[q].token, timetable |-> caller[q].found])
  BY HeldIsGood
<1>3. NotAhead(caller[q].token) /\ caller[q].token \in Tokens
  BY <1>2 DEF Good, NotAhead
<1>4. Good([token |-> caller[q].token, timetable |-> Empty])
  BY <1>3 DEF Good, IsCurrent
<1>5. [token |-> caller[q].token, timetable |-> Empty] \in Cells
  BY <1>3, SnapshotParts DEF Cells
<1>. QED
  BY <1>1, <1>2, <1>3, <1>4, <1>5

LEMMA LookUpStep ==
  ASSUME SnapshotInv, NEW q \in Callers, LookUp(q) PROVE SnapshotInv'
<1>. DEFINE token == caller[q].token
            newest == files[NewestIn(Usable(token))]
<1>1. caller[q].at = "looking" /\ caller[q].at # "aside"
  BY DEF LookUp
<1>2. /\ UNCHANGED <<published, route, service, trip, calls, runs, finished, seen, repairs, importer>>
      /\ UNCHANGED <<enabled, toggles>> /\ files' = files
  BY DEF LookUp, feedVars
<1>3. PICK t : /\ memory' = {[token |-> token, timetable |-> t]}
               /\ \/ Filled(token) /\ t = InMemory(token) /\ Served(q, t)
                  \/ Usable(token) # {} /\ t = newest.timetable /\ Served(q, t)
                  \/ t = Empty /\ Turn(q, "building", t)
  BY DEF LookUp
<1>. DEFINE c == [token |-> token, timetable |-> t]
<1>4. c \in Cells /\ Good(c) /\ t \in Timetables
  <2>0. /\ token \in Tokens /\ Good([token |-> token, timetable |-> Empty])
        /\ [token |-> token, timetable |-> Empty] \in Cells /\ Empty \in Timetables
    BY <1>1, AtWorkHolds, SnapshotParts
  <2>1. CASE Filled(token) /\ t = InMemory(token)
    <3>1. PICK d \in Cell(token) : t = d.timetable
      BY <2>1 DEF Filled, InMemory
    <3>2. d \in memory /\ d \in Cells /\ d.token = token
      BY <3>1, SnapshotParts DEF Cell
    <3>3. d = c
      BY <3>1, <3>2 DEF Cells
    <3>4. Good(d)
      BY <3>2, HeldIsGood
    <3>. QED
      BY <3>2, <3>3, <3>4 DEF Cells
  <2>2. CASE Usable(token) # {} /\ t = newest.timetable
    <3>1. files \in Seq(Cells) /\ Usable(token) \subseteq DOMAIN files
      BY SnapshotParts DEF Usable, Snapshot
    <3>2. Usable(token) \subseteq Nat \ {0} /\ IsFiniteSet(Usable(token))
      BY <3>1, PlacesOfSequence, Zenon
    <3>3. NewestIn(Usable(token)) \in Usable(token)
      BY <2>2, <3>2, NewestIs, Zenon
    <3>7. PICK n \in DOMAIN files : n = NewestIn(Usable(token)) /\ files[n].token = token
      BY <3>3 DEF Usable, Snapshot
    <3>8. files[n] \in Cells /\ files[n] \in ToSet(files)
      BY <3>1 DEF ToSet
    <3>4. newest \in Cells /\ newest \in ToSet(files) /\ newest.token = token
      BY <3>7, <3>8
    <3>5. newest = c
      BY <2>2, <3>4 DEF Cells
    <3>6. Good(newest)
      BY <3>4, HeldIsGood
    <3>. QED
      BY <2>2, <3>4, <3>5, <3>6 DEF Cells
  <2>3. CASE t = Empty
    BY <2>0, <2>3
  <2>. QED
    BY <1>3, <2>1, <2>2, <2>3
<1>5. memory' \subseteq Cells /\ files' \in Seq(Cells)
  BY <1>2, <1>3, <1>4, SnapshotParts
<1>6. \A d : d \in memory' \/ d \in ToSet(files') => Good(d)
  BY <1>2, <1>3, <1>4, HeldIsGood
<1>7. Served(q, t) \/ \E step \in {"building", "writing", "ensuring"} : Turn(q, step, t)
  BY <1>3
<1>. HIDE DEF c, token, newest
<1>8. /\ caller' \in [Callers -> [at : {"aside", "looking", "building", "writing", "ensuring"},
                                  token : Tokens \cup {None}, found : Timetables]]
      /\ \A o \in Callers : caller'[o].at # "aside" =>
           Good([token |-> caller'[o].token, timetable |-> caller'[o].found])
  BY <1>1, <1>4, <1>7, CallerGoes DEF c, token
<1>. QED
  BY <1>2, <1>5, <1>6, <1>8, ApiStep

LEMMA BuildStep ==
  ASSUME SnapshotInv, NEW q \in Callers, Build(q) PROVE SnapshotInv'
<1>1. caller[q].at # "aside" /\ Turn(q, "writing", Timetable)
  BY DEF Build
<1>2. /\ UNCHANGED <<published, route, service, trip, calls, runs, finished, seen, repairs, importer>>
      /\ UNCHANGED <<enabled, toggles>> /\ files' = files /\ memory' = memory
  BY DEF Build, feedVars
<1>3. Timetable \in Timetables /\ NotAhead(caller[q].token)
  BY <1>1, RevisionIsGood, AtWorkHolds
<1>4. Good([token |-> caller[q].token, timetable |-> Timetable])
  BY <1>3 DEF Good, IsCurrent
<1>5. /\ caller' \in [Callers -> [at : {"aside", "looking", "building", "writing", "ensuring"},
                                  token : Tokens \cup {None}, found : Timetables]]
      /\ \A o \in Callers : caller'[o].at # "aside" =>
           Good([token |-> caller'[o].token, timetable |-> caller'[o].found])
  BY <1>1, <1>3, <1>4, CallerGoes
<1>6. /\ memory' \subseteq Cells /\ files' \in Seq(Cells)
      /\ \A d : d \in memory' \/ d \in ToSet(files') => Good(d)
  BY <1>2, SnapshotParts, HeldIsGood
<1>. QED
  BY <1>2, <1>5, <1>6, ApiStep

LEMMA WriteStep ==
  ASSUME SnapshotInv, NEW q \in Callers, Write(q) PROVE SnapshotInv'
<1>. DEFINE token == caller[q].token
            c == [token |-> token, timetable |-> caller[q].found]
            left == DOMAIN files \ Snapshot(token)
<1>1. caller[q].at # "aside" /\ Served(q, caller[q].found)
  BY DEF Write
<1>2. /\ UNCHANGED <<published, route, service, trip, calls, runs, finished, seen, repairs, importer>>
      /\ UNCHANGED <<enabled, toggles>> /\ memory' = Fill(token, caller[q].found)
      /\ files' = Append(Kept(files, left), c) \/ files' = files
  BY DEF Write, feedVars, Written
<1>3. token \in Tokens /\ caller[q].found \in Timetables /\ c \in Cells /\ Good(c)
  BY <1>1, AtWorkHolds DEF Cells
<1>4. /\ caller' \in [Callers -> [at : {"aside", "looking", "building", "writing", "ensuring"},
                                  token : Tokens \cup {None}, found : Timetables]]
      /\ \A o \in Callers : caller'[o].at # "aside" =>
           Good([token |-> caller'[o].token, timetable |-> caller'[o].found])
  BY <1>1, <1>3, CallerGoes
<1>5. memory' \subseteq Cells /\ \A d \in memory' : Good(d)
  <2>1. memory' \subseteq memory \cup {c}
    BY <1>2 DEF Fill
  <2>. QED
    BY <1>3, <2>1, SnapshotParts, HeldIsGood
<1>6. files' \in Seq(Cells) /\ \A d \in ToSet(files') : Good(d)
  <2>1. files \in Seq(Cells) /\ left \subseteq DOMAIN files
    BY SnapshotParts
  <2>2. CASE files' = files
    BY <2>1, <2>2, HeldIsGood
  <2>3. CASE files' = Append(Kept(files, left), c)
    <3>. HIDE DEF left, c
    <3>1. Kept(files, left) \in Seq(Cells)
      BY <2>1, KeptType, Zenon
    <3>2. ASSUME NEW i \in DOMAIN Kept(files, left)
          PROVE  Good(Kept(files, left)[i])
      <4>1. left \subseteq Nat /\ IsFiniteSet(left)
        BY <2>1, PlacesOfSequence, Zenon
      <4>2. DOMAIN Kept(files, left) = 1 .. Cardinality(left)
        BY DEF Kept
      <4>3. i \in 1 .. Cardinality(left)
        BY <4>2, Zenon
      <4>4. PICK n \in left : Place(n, left) = i
        BY <4>1, <4>3, PlacesFill, Zenon
      <4>5. Kept(files, left)[Place(n, left)] = files[n]
        BY <4>1, KeptParts, Zenon
      <4>6. n \in DOMAIN files
        BY <2>1
      <4>7. files[n] \in ToSet(files)
        BY <4>6 DEF ToSet
      <4>. QED
        BY <4>4, <4>5, <4>7, HeldIsGood, Zenon
    <3>. DEFINE K == Kept(files, left)
    <3>. HIDE DEF K
    <3>3. K \in Seq(Cells) /\ \A i \in DOMAIN K : Good(K[i])
      BY <3>1, <3>2, Zenon DEF K
    <3>4. files' = Append(K, c)
      BY <2>3 DEF K
    <3>5. files' \in Seq(Cells) /\ \A i \in DOMAIN files' : Good(files'[i])
      BY <1>3, <3>3, <3>4
    <3>6. ASSUME NEW d \in ToSet(files') PROVE Good(d)
      <4>1. PICK i \in DOMAIN files' : d = files'[i]
        BY DEF ToSet
      <4>. QED
        BY <3>5, <4>1, Zenon
    <3>. QED
      BY <3>5, <3>6, Zenon
  <2>. QED
    BY <1>2, <2>2, <2>3
<1>7. \A d : d \in memory' \/ d \in ToSet(files') => Good(d)
  BY <1>5, <1>6
<1>. QED
  BY <1>2, <1>4, <1>5, <1>6, <1>7, ApiStep

LEMMA EnsureStep ==
  ASSUME SnapshotInv, NEW q \in Callers, Ensure(q) PROVE SnapshotInv'
<1>. DEFINE token == caller[q].token
            c == [token |-> token, timetable |-> caller[q].found]
            d == IF Snapshot(token) = {} THEN c ELSE Last(files)
<1>1. caller[q].at # "aside" /\ caller' = [caller EXCEPT ![q] = Aside]
  BY DEF Ensure
<1>2. /\ UNCHANGED <<published, route, service, trip, calls, runs, finished, seen, repairs, importer>>
      /\ UNCHANGED <<enabled, toggles>> /\ memory' = memory /\ files' = <<d>>
  BY DEF Ensure, feedVars
<1>3. caller[q].found \in Timetables /\ c \in Cells /\ Good(c)
  BY <1>1, AtWorkHolds DEF Cells
<1>4. /\ caller' \in [Callers -> [at : {"aside", "looking", "building", "writing", "ensuring"},
                                  token : Tokens \cup {None}, found : Timetables]]
      /\ \A o \in Callers : caller'[o].at # "aside" =>
           Good([token |-> caller'[o].token, timetable |-> caller'[o].found])
  BY <1>1, <1>3, CallerGoes
<1>5. d \in Cells /\ Good(d)
  <2>1. CASE Snapshot(token) = {}
    BY <1>3, <2>1
  <2>2. CASE Snapshot(token) # {}
    <3>1. files \in Seq(Cells) /\ DOMAIN files # {}
      BY <2>2, SnapshotParts DEF Snapshot
    <3>2. Len(files) \in DOMAIN files
      BY <3>1
    <3>3. Last(files) \in Cells /\ Last(files) \in ToSet(files)
      BY <3>1, <3>2 DEF Last, ToSet
    <3>. QED
      BY <2>2, <3>3, HeldIsGood
  <2>. QED
    BY <2>1, <2>2
<1>. HIDE DEF d
<1>6. files' \in Seq(Cells) /\ ToSet(files') = {d}
  BY <1>2, <1>5 DEF ToSet
<1>7. memory' \subseteq Cells /\ \A e : e \in memory' \/ e \in ToSet(files') => Good(e)
  BY <1>2, <1>5, <1>6, SnapshotParts, HeldIsGood
<1>. QED
  BY <1>2, <1>4, <1>6, <1>7, ApiStep

LEMMA RestartStep == SnapshotInv /\ Restart => SnapshotInv'
<1>. SUFFICES ASSUME SnapshotInv, Restart PROVE SnapshotInv'
  OBVIOUS
<1>1. /\ UNCHANGED <<published, route, service, trip, calls, runs, finished, seen, repairs, importer>>
      /\ UNCHANGED <<enabled, toggles>> /\ files' = files
      /\ memory' = {} /\ caller' = [q \in Callers |-> Aside]
  BY DEF Restart
<1>2. /\ caller' \in [Callers -> [at : {"aside", "looking", "building", "writing", "ensuring"},
                                  token : Tokens \cup {None}, found : Timetables]]
      /\ \A o \in Callers : caller'[o].at = "aside"
  BY <1>1, SnapshotParts
<1>3. /\ memory' \subseteq Cells /\ files' \in Seq(Cells)
      /\ \A d : d \in memory' \/ d \in ToSet(files') => Good(d)
  BY <1>1, SnapshotParts, HeldIsGood
<1>. QED
  BY <1>1, <1>2, <1>3, ApiStep

\* A feed that is disabled gives the data a revision that nothing is kept under.
LEMMA ToggleStep == MaxToggles \in {0, 1} /\ SnapshotInv /\ Toggle => SnapshotInv'
<1>. SUFFICES ASSUME MaxToggles \in {0, 1}, SnapshotInv, Toggle PROVE SnapshotInv'
  OBVIOUS
<1>1. /\ UNCHANGED feedVars /\ UNCHANGED <<memory, files, caller>>
      /\ toggles = 0 /\ toggles' = 1 /\ enabled' = ~enabled
  BY SnapshotParts DEF Toggle
<1>2. enabled = TRUE /\ enabled' = FALSE
  BY <1>1, SnapshotParts DEF SnapshotInv
<1>3. FeedInv'
  BY <1>1, FeedStep DEF SnapshotInv
<1>4. TypeOK'
  BY <1>1, <1>2, <1>3 DEF SnapshotInv, TypeOK, FeedInv
<1>5. Held' = Held
  BY <1>1 DEF Held
<1>6. ASSUME NEW c \in Held PROVE NotAhead(c.token)' /\ IsCurrent(c)'
  <2>1. NotAhead(c.token)
    BY DEF SnapshotInv
  <2>2. NotAhead(c.token)'
    BY <1>1, <2>1 DEF NotAhead, At, feedVars
  <2>3. c.token[3]
    BY <1>1, <2>1 DEF NotAhead
  <2>4. Revision'[3] = FALSE
    BY <1>2 DEF Revision
  <2>5. c.token # Revision'
    BY <2>3, <2>4, Zenon
  <2>. QED
    BY <2>2, <2>5 DEF IsCurrent
<1>. QED
  BY <1>1, <1>2, <1>3, <1>4, <1>5, <1>6 DEF SnapshotInv

\* A step of an import, or of what goes on around it.
LEMMA RowsStep == SnapshotInv /\ FeedNext /\ UNCHANGED snapshotVars => SnapshotInv'
<1>. SUFFICES ASSUME SnapshotInv, FeedNext, UNCHANGED snapshotVars PROVE SnapshotInv'
  OBVIOUS
<1>1. UNCHANGED <<enabled, memory, files, caller, toggles>>
  BY DEF snapshotVars
<1>2. FeedInv /\ FeedInv'
  BY FeedStep DEF SnapshotInv
<1>3. TypeOK'
  BY <1>1, <1>2 DEF SnapshotInv, TypeOK, FeedInv
<1>4. Held' = Held
  BY <1>1 DEF Held
<1>5. repairs \in Nat /\ repairs' \in {repairs, repairs + 1}
  BY <1>2, FeedParts, RepairsMove
<1>6. ASSUME NEW c \in Held PROVE NotAhead(c.token)'
  <2>1. NotAhead(c.token)
    BY DEF SnapshotInv
  <2>2. c.token[2] \in Nat /\ c.token[2] <= repairs
    BY <2>1 DEF NotAhead, Tokens
  <2>3. ASSUME NEW p \in Importers, importer'[p].at = "succeeding", c.token[2] = repairs'
        PROVE  c.token[1] # importer'[p].run
    <3>1. importer[p].at = "succeeding" /\ importer'[p].run = importer[p].run /\ repairs' = repairs
      BY <1>2, <1>5, <2>2, <2>3, RepairsMove
    <3>. QED
      BY <2>1, <2>3, <3>1 DEF NotAhead, At
  <2>4. c.token[2] <= repairs'
    BY <1>5, <2>2
  <2>5. c.token \in Tokens /\ (c.token[3] \/ toggles' # 0)
    BY <1>1, <2>1 DEF NotAhead
  <2>. QED
    BY <2>3, <2>4, <2>5 DEF NotAhead, At
<1>7. ASSUME NEW c \in Held, c.token = Revision', WholeSchedule', c.timetable # Empty
      PROVE  c.timetable = Timetable'
  <2>1. NotAhead(c.token) /\ IsCurrent(c)
    BY DEF SnapshotInv
  <2>2. c.token[1] = LastSuccess' /\ c.token[2] = repairs' /\ c.token[3] = enabled
    BY <1>1, <1>7 DEF Revision
  <2>3. repairs' = repairs
    BY <1>5, <2>1, <2>2 DEF NotAhead
  <2>4. LastSuccess' = LastSuccess
    <3>1. SUFFICES ASSUME NEW p \in Importers, At(p, "succeeding"), LastSuccess' = importer[p].run
                   PROVE  FALSE
      BY <1>2, LastMoves
    <3>. QED
      BY <2>1, <2>2, <2>3, <3>1 DEF NotAhead
  <2>5. WholeSchedule /\ runs'[LastSuccess].file = runs[LastSuccess].file
    BY <1>2, <1>7, <2>4, WholeBefore
  <2>6. Revision' = Revision
    BY <1>1, <2>3, <2>4 DEF Revision
  <2>7. Timetable' = Timetable
    BY <1>1, <1>2, <1>7, <2>4, <2>5, TimetableStays
  <2>. QED
    BY <1>7, <2>1, <2>5, <2>6, <2>7 DEF IsCurrent
<1>8. \A c \in Held' : NotAhead(c.token)' /\ IsCurrent(c)'
  BY <1>4, <1>6, <1>7 DEF IsCurrent
<1>. QED
  BY <1>1, <1>2, <1>3, <1>8 DEF SnapshotInv

LEMMA SnapshotStart == Alone /\ Init => SnapshotInv
<1>. SUFFICES ASSUME Alone, Init PROVE SnapshotInv
  OBVIOUS
<1>1. FeedInv
  BY FeedStart DEF Init
<1>2. Empty \in Timetables
  BY DEF Empty, Timetables
<1>3. Aside \in [at : {"aside", "looking", "building", "writing", "ensuring"},
                 token : Tokens \cup {None}, found : Timetables]
  BY <1>2 DEF Aside
<1>4. TypeOK
  BY <1>1, <1>3 DEF Init, TypeOK, FeedInv
<1>5. ToSet(files) = {} /\ \A q \in Callers : caller[q].at = "aside"
  BY DEF Init, ToSet, Aside
<1>6. Held = {}
  BY <1>5 DEF Init, Held
<1>. QED
  BY <1>1, <1>4, <1>6 DEF Init, SnapshotInv

LEMMA SnapshotStep == MaxToggles \in {0, 1} /\ SnapshotInv /\ [Next]_vars => SnapshotInv'
<1>. SUFFICES ASSUME MaxToggles \in {0, 1}, SnapshotInv, [Next]_vars PROVE SnapshotInv'
  OBVIOUS
<1>1. CASE FeedNext /\ UNCHANGED snapshotVars
  BY <1>1, RowsStep
<1>2. ASSUME NEW q \in Callers, ReadRevision(q) PROVE SnapshotInv'
  BY <1>2, ReadRevisionStep
<1>3. ASSUME NEW q \in Callers, Proceed(q) PROVE SnapshotInv'
  BY <1>3, LookUpStep, BuildStep, WriteStep, EnsureStep DEF Proceed
<1>4. CASE Restart
  BY <1>4, RestartStep
<1>5. CASE Toggle
  BY <1>5, ToggleStep
<1>6. CASE UNCHANGED vars
  <2>1. /\ UNCHANGED <<published, route, service, trip, calls, runs, finished, seen, repairs, importer>>
        /\ UNCHANGED <<enabled, toggles>> /\ UNCHANGED <<memory, files, caller>>
    BY <1>6 DEF vars, feedVars, snapshotVars
  <2>2. /\ memory' \subseteq Cells /\ files' \in Seq(Cells)
        /\ \A d : d \in memory' \/ d \in ToSet(files') => Good(d)
    BY <2>1, SnapshotParts, HeldIsGood
  <2>3. /\ caller' \in [Callers -> [at : {"aside", "looking", "building", "writing", "ensuring"},
                                    token : Tokens \cup {None}, found : Timetables]]
        /\ \A o \in Callers : caller'[o].at # "aside" =>
             Good([token |-> caller'[o].token, timetable |-> caller'[o].found])
    BY <2>1, SnapshotParts, HeldIsGood
  <2>. QED
    BY <2>1, <2>2, <2>3, ApiStep
<1>. QED
  BY <1>1, <1>2, <1>3, <1>4, <1>5, <1>6 DEF Next

\* The invariant of the import and of the timetables in memory, on disk and
\* in the hands of the searches, for one importer that takes whole versions
\* and a feed that is disabled once at most (raptor_timetable_cached_for_
\* revision_db beside database_import).
THEOREM SnapshotInductive == Alone /\ MaxToggles \in {0, 1} /\ Spec => []SnapshotInv
<1>1. Alone /\ Init => SnapshotInv
  BY SnapshotStart
<1>. SUFFICES ASSUME MaxToggles \in {0, 1} PROVE Alone /\ Spec => []SnapshotInv
  OBVIOUS
<1>2. SnapshotInv /\ [Next]_vars => SnapshotInv'
  BY SnapshotStep
<1>. QED
  BY <1>1, <1>2, PTL DEF Spec

\* Once an import is through, a timetable kept under the revision of the data
\* is the whole schedule, however the imports, the searches, the warmer, the
\* restarts and the crashes before it have interleaved.
THEOREM CurrentTimetable == Alone /\ MaxToggles \in {0, 1} /\ Spec => []CurrentTimetableIsWhole
<1>. SUFFICES ASSUME MaxToggles \in {0, 1} PROVE Alone /\ Spec => []CurrentTimetableIsWhole
  OBVIOUS
<1>1. SnapshotInv => CurrentTimetableIsWhole
  <2>1. SUFFICES ASSUME SnapshotInv, Settled, NEW c \in memory \cup ToSet(files),
                        c.token = Revision, c.timetable # Empty
                 PROVE  c.timetable = Timetable
    BY DEF CurrentTimetableIsWhole
  <2>2. WholeSchedule
    BY <2>1 DEF Settled, WholeSchedule
  <2>3. Good(c)
    BY <2>1, HeldIsGood
  <2>. QED
    BY <2>1, <2>2, <2>3 DEF Good, IsCurrent
<1>2. Alone /\ Spec => []SnapshotInv
  BY SnapshotInductive
<1>. QED
  BY <1>1, <1>2, PTL

-----------------------------------------------------------------------------
(* Merged stops.                                                           *)

MergeData ==
  [active : SUBSET Stops, calls : [Trips -> Seq(Stops)], match : [Stops -> Stops \cup {NoStop}]]

\* Nothing is left of what is merged, but for chains.
Unchained(data) == \A s \in Merged(data) : data.match[s] \notin Merged(data)

Gone(data, some) ==
  /\ data.active \cap some = {}
  /\ \A t \in Trips : \A n \in DOMAIN data.calls[t] : data.calls[t][n] \notin some

LastsIn(data) == Unchained(data) => Gone(data, Merged(data))

\* Every one of finitely many stops has its turn.
LEMMA NthIs ==
  ASSUME NEW some, some \subseteq Nat, IsFiniteSet(some)
  PROVE  /\ Cardinality(some) \in Nat
         /\ \A n \in 1 .. Cardinality(some) : Nth(n, some) \in some
         /\ \A s \in some : \E n \in 1 .. Cardinality(some) : Nth(n, some) = s
<1>1. /\ Cardinality(some) \in Nat
      /\ \A n \in some : Place(n, some) \in 1 .. Cardinality(some)
      /\ \A i \in 1 .. Cardinality(some) : \E n \in some : Place(n, some) = i
  BY PlacesFill, Zenon
<1>2. \A n \in 1 .. Cardinality(some) : Nth(n, some) \in some
  BY <1>1 DEF Nth
<1>3. \A m, n \in some : m < n => Place(m, some) < Place(n, some)
  BY PlacesInOrder, Zenon
<1>4. ASSUME NEW s \in some PROVE Nth(Place(s, some), some) = s
  <2>1. ASSUME NEW r \in some, Place(r, some) = Place(s, some) PROVE r = s
    <3>1. ~(r < s) /\ ~(s < r)
      BY <1>1, <1>3, <2>1
    <3>2. r \in Nat /\ s \in Nat
      OBVIOUS
    <3>. QED
      BY <3>1, <3>2
  <2>. QED
    BY <2>1 DEF Nth
<1>. QED
  BY <1>1, <1>2, <1>4, Zenon

\* The loop takes a turn after the other.
LEMMA TurnsTaken ==
  ASSUME NEW data, Cardinality(Merged(data)) \in Nat
  PROVE  \A n \in 0 .. Cardinality(Merged(data)) :
           Turns(data)[n] = IF n = 0 THEN data
                            ELSE MoveStop(Turns(data)[n - 1], Nth(n, Merged(data)))
<1>. DEFINE N == Cardinality(Merged(data))
            Moved(x, n) == MoveStop(x, Nth(n, Merged(data)))
            Loop(g, m) == \A n \in 0 .. m : g[n] = IF n = 0 THEN data ELSE Moved(g[n - 1], n)
            Reached == {m \in 1 .. N + 1 : \E g : Loop(g, m - 1)}
<1>1. Turns(data) = CHOOSE g : g = [n \in 0 .. N |-> IF n = 0 THEN data ELSE Moved(g[n - 1], n)]
  BY DEF Turns
<1>2. N \in Nat
  OBVIOUS
<1>. HIDE DEF N, Moved
<1>3. Reached \subseteq Nat \ {0} /\ IsFiniteSet(Reached)
  <2>1. IsFiniteSet(1 .. N + 1)
    BY <1>2, FS_Interval
  <2>2. Reached \subseteq 1 .. N + 1
    OBVIOUS
  <2>. HIDE DEF Reached
  <2>3. IsFiniteSet(Reached)
    BY <2>1, <2>2, FS_Subset, Zenon
  <2>. QED
    BY <1>2, <2>2, <2>3
<1>4. 1 \in Reached
  <2>1. Loop([n \in {0} |-> data], 1 - 1)
    OBVIOUS
  <2>. HIDE DEF Loop
  <2>2. \E g : Loop(g, 1 - 1)
    BY <2>1, Zenon
  <2>. QED
    BY <1>2, <2>2
<1>5. PICK top \in Reached : \A m \in Reached : m <= top
  <2>. HIDE DEF Reached
  <2>1. NewestIn(Reached) \in Reached /\ \A m \in Reached : m <= NewestIn(Reached)
    BY <1>3, <1>4, NewestIs
  <2>. QED
    BY <2>1, Zenon
<1>6. top \in 1 .. N + 1
  OBVIOUS
<1>7. PICK g : Loop(g, top - 1)
  OBVIOUS
<1>8. top = N + 1
  <2>1. SUFFICES ASSUME top # N + 1 PROVE FALSE
    OBVIOUS
  <2>. DEFINE h == [n \in 0 .. top |-> IF n = top THEN Moved(g[n - 1], n) ELSE g[n]]
  <2>2. top \in Nat /\ top >= 1 /\ top <= N
    BY <1>2, <1>6, <2>1
  <2>3. ASSUME NEW n \in 0 .. top PROVE h[n] = IF n = 0 THEN data ELSE Moved(h[n - 1], n)
    <3>1. CASE n = top
      <4>1. n - 1 \in 0 .. top /\ n - 1 # top /\ n # 0
        BY <2>2, <3>1
      <4>. QED
        BY <3>1, <4>1
    <3>2. CASE n # top
      <4>1. n \in 0 .. top - 1
        BY <2>2, <3>2
      <4>2. h[n] = IF n = 0 THEN data ELSE Moved(g[n - 1], n)
        BY <1>7, <3>2, <4>1
      <4>3. n # 0 => n - 1 \in 0 .. top /\ n - 1 # top
        BY <2>2, <3>2
      <4>. QED
        BY <4>2, <4>3
    <3>. QED
      BY <3>1, <3>2
  <2>4. Loop(h, (top + 1) - 1)
    <3>. HIDE DEF h
    <3>1. (top + 1) - 1 = top
      BY <2>2
    <3>. QED
      BY <2>3, <3>1
  <2>. HIDE DEF Loop
  <2>5. \E f : Loop(f, (top + 1) - 1)
    BY <2>4, Zenon
  <2>6. top + 1 \in Reached
    BY <1>2, <2>2, <2>5
  <2>. HIDE DEF Reached
  <2>7. top + 1 <= top
    BY <1>5, <2>6
  <2>. QED
    BY <2>2, <2>7
<1>9. Loop(g, N)
  <2>. HIDE DEF Loop
  <2>1. top - 1 = N
    BY <1>2, <1>8
  <2>. QED
    BY <1>7, <2>1
<1>. DEFINE f == [n \in 0 .. N |-> g[n]]
<1>10. f = [n \in 0 .. N |-> IF n = 0 THEN data ELSE Moved(f[n - 1], n)]
  <2>1. ASSUME NEW n \in 0 .. N PROVE f[n] = IF n = 0 THEN data ELSE Moved(f[n - 1], n)
    <3>1. f[n] = IF n = 0 THEN data ELSE Moved(g[n - 1], n)
      BY <1>9
    <3>2. n # 0 => f[n - 1] = g[n - 1]
      BY <1>2
    <3>. QED
      BY <3>1, <3>2
  <2>2. f = [n \in 0 .. N |-> f[n]]
    OBVIOUS
  <2>. HIDE DEF f
  <2>. QED
    BY <2>1, <2>2
<1>. HIDE DEF f
<1>11. Turns(data) = [n \in 0 .. N |-> IF n = 0 THEN data ELSE Moved(Turns(data)[n - 1], n)]
  BY <1>1, <1>10
<1>12. \A n \in 0 .. N : Turns(data)[n] = IF n = 0 THEN data ELSE Moved(Turns(data)[n - 1], n)
  BY <1>11
<1>. QED
  BY <1>12 DEF N, Moved

\* What is true of 0 and passed on is true up to the end.
LEMMA Climbing ==
  ASSUME NEW N \in Nat, NEW S, 0 \in S, \A n \in S : n \in 0 .. N - 1 => n + 1 \in S
  PROVE  \A n \in 0 .. N : n \in S
<1>. DEFINE Up == {m \in 1 .. N + 1 : \A n \in 0 .. m - 1 : n \in S}
<1>1. Up \subseteq Nat \ {0} /\ IsFiniteSet(Up)
  <2>1. IsFiniteSet(1 .. N + 1)
    BY FS_Interval
  <2>2. Up \subseteq 1 .. N + 1
    OBVIOUS
  <2>. HIDE DEF Up
  <2>3. IsFiniteSet(Up)
    BY <2>1, <2>2, FS_Subset, Zenon
  <2>. QED
    BY <2>2, <2>3
<1>2. 1 \in Up
  OBVIOUS
<1>3. PICK top \in Up : \A m \in Up : m <= top
  <2>. HIDE DEF Up
  <2>1. NewestIn(Up) \in Up /\ \A m \in Up : m <= NewestIn(Up)
    BY <1>1, <1>2, NewestIs
  <2>. QED
    BY <2>1, Zenon
<1>4. top \in 1 .. N + 1 /\ \A n \in 0 .. top - 1 : n \in S
  OBVIOUS
<1>5. top = N + 1
  <2>1. SUFFICES ASSUME top # N + 1 PROVE FALSE
    OBVIOUS
  <2>2. top - 1 \in 0 .. N - 1 /\ top - 1 \in S /\ (top - 1) + 1 = top
    BY <1>4, <2>1
  <2>3. top \in S
    BY <2>2
  <2>4. top + 1 \in Up
    BY <1>4, <2>1, <2>3
  <2>. HIDE DEF Up
  <2>5. top + 1 <= top
    BY <1>3, <2>4
  <2>. QED
    BY <1>4, <2>5
<1>. QED
  BY <1>4, <1>5

\* A turn moves the calls at its stop.
LEMMA StopMoved ==
  ASSUME NEW data \in MergeData, NEW s \in Merged(data)
  PROVE  /\ MoveStop(data, s) \in MergeData
         /\ MoveStop(data, s).match = data.match
         /\ MoveStop(data, s).active = data.active \ {s}
         /\ \A t \in Trips :
              /\ DOMAIN MoveStop(data, s).calls[t] = DOMAIN data.calls[t]
              /\ \A n \in DOMAIN data.calls[t] :
                   MoveStop(data, s).calls[t][n] = IF data.calls[t][n] = s THEN data.match[s]
                                                  ELSE data.calls[t][n]
<1>. DEFINE went(t) == [n \in DOMAIN data.calls[t] |->
                          IF data.calls[t][n] = s THEN data.match[s] ELSE data.calls[t][n]]
<1>1. data.calls \in [Trips -> Seq(Stops)] /\ data.active \subseteq Stops
      /\ data.match \in [Stops -> Stops \cup {NoStop}] /\ s \in Stops /\ data.match[s] \in Stops
  BY DEF MergeData, Merged
<1>2. MoveStop(data, s) = [active |-> data.active \ {s}, calls |-> [t \in Trips |-> went(t)],
                           match |-> data.match]
  <2>. DEFINE moved == [t \in Trips |-> went(t)]
              left == data.active \ {s}
  <2>1. MoveStop(data, s) = [data EXCEPT !.active = left, !.calls = moved]
    BY DEF MoveStop
  <2>. HIDE DEF moved, left
  <2>2. MoveStop(data, s) = [active |-> left, calls |-> moved, match |-> data.match]
    BY <2>1 DEF MergeData
  <2>. QED
    BY <2>2 DEF moved, left
<1>3. ASSUME NEW t \in Trips PROVE went(t) \in Seq(Stops)
  <2>1. data.calls[t] \in Seq(Stops)
    BY <1>1
  <2>. QED
    BY <1>1, <2>1
<1>. HIDE DEF went
<1>4. [t \in Trips |-> went(t)] \in [Trips -> Seq(Stops)]
  BY <1>3
<1>5. /\ MoveStop(data, s) \in MergeData
      /\ MoveStop(data, s).match = data.match
      /\ MoveStop(data, s).active = data.active \ {s}
      /\ MoveStop(data, s).calls = [t \in Trips |-> went(t)]
  BY <1>1, <1>2, <1>4 DEF MergeData
<1>. QED
  BY <1>5 DEF went

\* The mappings are applied to the end: of what is merged nothing is left, but for chains.
LEMMA MergesApplied ==
  ASSUME NEW data \in MergeData
  PROVE  ApplyMerges(data) \in MergeData /\ LastsIn(ApplyMerges(data))
<1>. DEFINE M == Merged(data)
            N == Cardinality(M)
            at == [n \in 1 .. N |-> Nth(n, M)]
            T == Turns(data)
            Had(n) == {at[i] : i \in 1 .. n}
<1>1. M \subseteq Nat /\ IsFiniteSet(M) /\ M \subseteq Stops
  <2>1. M \subseteq Stops
    BY DEF Merged
  <2>. HIDE DEF M
  <2>. QED
    BY <2>1, MergesAssumption, FS_Subset
<1>2. N \in Nat /\ (\A n \in 1 .. N : at[n] \in M) /\ \A s \in M : \E n \in 1 .. N : at[n] = s
  <2>. HIDE DEF M
  <2>. QED
    BY <1>1, NthIs
<1>3. \A n \in 0 .. N : T[n] = IF n = 0 THEN data ELSE MoveStop(T[n - 1], at[n])
  <2>1. \A n \in 0 .. N : T[n] = IF n = 0 THEN data ELSE MoveStop(T[n - 1], Nth(n, M))
    BY <1>2, TurnsTaken
  <2>. HIDE DEF M, N, T
  <2>. QED
    BY <1>2, <2>1
<1>4. ApplyMerges(data) = T[N]
  BY DEF ApplyMerges
<1>5. \A s \in M : data.match[s] \in Stops
  BY DEF Merged, MergeData
<1>6. Unchained(data) <=> \A s \in M : data.match[s] \notin M
  BY DEF Unchained
<1>. DEFINE S == {n \in 0 .. N : T[n] \in MergeData /\ T[n].match = data.match
                                 /\ (Unchained(data) => Gone(T[n], Had(n)))}
<1>. HIDE DEF N, at, T
<1>7. 0 \in S
  <2>1. T[0] = data
    BY <1>2, <1>3
  <2>2. Had(0) = {}
    OBVIOUS
  <2>3. Gone(data, {})
    BY DEF Gone
  <2>. QED
    BY <1>2, <2>1, <2>2, <2>3
<1>8. ASSUME NEW n \in S, n \in 0 .. N - 1 PROVE n + 1 \in S
  <2>1. n + 1 \in 1 .. N /\ n + 1 \in 0 .. N /\ (n + 1) - 1 = n /\ n + 1 # 0
    BY <1>2, <1>8
  <2>. DEFINE s == at[n + 1]
  <2>2. s \in M
    BY <1>2, <2>1
  <2>3. T[n + 1] = MoveStop(T[n], s)
    BY <1>3, <2>1
  <2>4. T[n] \in MergeData /\ T[n].match = data.match /\ (Unchained(data) => Gone(T[n], Had(n)))
    OBVIOUS
  <2>5. s \in Merged(T[n])
    BY <2>2, <2>4 DEF Merged
  <2>. HIDE DEF s
  <2>6. /\ T[n + 1] \in MergeData
        /\ T[n + 1].match = data.match
        /\ T[n + 1].active = T[n].active \ {s}
        /\ \A t \in Trips :
             /\ DOMAIN T[n + 1].calls[t] = DOMAIN T[n].calls[t]
             /\ \A i \in DOMAIN T[n].calls[t] :
                  T[n + 1].calls[t][i] = IF T[n].calls[t][i] = s THEN data.match[s]
                                         ELSE T[n].calls[t][i]
    BY <2>3, <2>4, <2>5, StopMoved
  <2>7. Had(n + 1) \subseteq Had(n) \cup {s}
    <3>1. ASSUME NEW i \in 1 .. n + 1 PROVE i \in 1 .. n \/ i = n + 1
      BY <1>2, <1>8
    <3>. QED
      BY <3>1 DEF s
  <2>8. Had(n + 1) \subseteq M
    <3>1. ASSUME NEW i \in 1 .. n + 1 PROVE i \in 1 .. N
      BY <1>2, <1>8
    <3>. QED
      BY <1>2, <3>1
  <2>. HIDE DEF Had
  <2>9. ASSUME Unchained(data) PROVE Gone(T[n + 1], Had(n + 1))
    <3>1. Gone(T[n], Had(n)) /\ data.match[s] \notin M
      BY <1>6, <2>2, <2>4, <2>9
    <3>2. T[n + 1].active \cap Had(n + 1) = {}
      BY <2>6, <2>7, <3>1 DEF Gone
    <3>3. ASSUME NEW t \in Trips, NEW i \in DOMAIN T[n + 1].calls[t]
          PROVE  T[n + 1].calls[t][i] \notin Had(n + 1)
      <4>1. i \in DOMAIN T[n].calls[t] /\ T[n].calls[t][i] \notin Had(n)
        BY <2>6, <3>1, <3>3 DEF Gone
      <4>2. T[n + 1].calls[t][i] = IF T[n].calls[t][i] = s THEN data.match[s]
                                         ELSE T[n].calls[t][i]
        BY <2>6, <4>1
      <4>. QED
        BY <2>7, <2>8, <3>1, <4>1, <4>2
    <3>. QED
      BY <3>2, <3>3 DEF Gone
  <2>. QED
    BY <2>1, <2>6, <2>9
<1>9. N \in S
  <2>. HIDE DEF S
  <2>1. \A n \in 0 .. N : n \in S
    BY <1>2, <1>7, <1>8, Climbing
  <2>. QED
    BY <1>2, <2>1
<1>10. Had(N) = M
  BY <1>2
<1>11. T[N] \in MergeData /\ T[N].match = data.match /\ (Unchained(data) => Gone(T[N], M))
  BY <1>9, <1>10
<1>12. Merged(T[N]) = M
  BY <1>11 DEF Merged
<1>13. Unchained(T[N]) <=> Unchained(data)
  BY <1>6, <1>11, <1>12 DEF Unchained
<1>. QED
  BY <1>4, <1>11, <1>12, <1>13 DEF LastsIn

LEMMA LeastOf ==
  ASSUME NEW S, S \subseteq Nat, S # {}
  PROVE  \E n \in S : \A m \in S : n <= m
<1>1. PICK top \in S : top \in Nat
  OBVIOUS
<1>. DEFINE L == {n \in S : n <= top}
<1>2. L \subseteq 0 .. top /\ L \subseteq Nat /\ top \in L
  <2>1. ASSUME NEW n \in L PROVE n \in 0 .. top /\ n \in Nat
    <3>1. n \in S /\ n <= top
      OBVIOUS
    <3>2. n \in Nat
      BY <3>1
    <3>. QED
      BY <1>1, <3>1, <3>2
  <2>2. top \in L
    BY <1>1
  <2>. HIDE DEF L
  <2>. QED
    BY <2>1, <2>2
<1>3. IsFiniteSet(0 .. top)
  BY <1>1, FS_Interval
<1>. HIDE DEF L
<1>4. IsFiniteSet(L)
  BY <1>2, <1>3, FS_Subset, Zenon
<1>5. Cardinality(L) \in Nat /\ Cardinality(L) # 0
  BY <1>2, <1>4, FS_CardinalityType, FS_EmptySet
<1>6. 1 \in 1 .. Cardinality(L)
  BY <1>5
<1>7. PICK n \in L : Place(n, L) = 1
  BY <1>2, <1>4, <1>6, PlacesFill, Zenon
<1>8. ASSUME NEW m \in L, m < n PROVE FALSE
  <2>1. Place(m, L) < 1 /\ Place(m, L) \in 1 .. Cardinality(L)
    BY <1>2, <1>4, <1>7, <1>8, PlacesFill, PlacesInOrder
  <2>. QED
    BY <2>1
<1>. QED
  BY <1>1, <1>2, <1>8 DEF L

LEMMA MostOf ==
  ASSUME NEW S, IsFiniteSet(S), S # {}, NEW f \in [S -> Nat]
  PROVE  \E s \in S : \A r \in S : f[r] <= f[s]
<1>. DEFINE V == {f[s] + 1 : s \in S}
            g == [s \in S |-> f[s] + 1]
<1>1. V \subseteq Nat \ {0} /\ V # {}
  OBVIOUS
<1>2. g \in Surjection(S, V)
  <2>1. g \in [S -> V] /\ \A v \in V : \E s \in S : g[s] = v
    OBVIOUS
  <2>. HIDE DEF V, g
  <2>. QED
    BY <2>1 DEF Surjection
<1>3. IsFiniteSet(V)
  <2>. HIDE DEF V, g
  <2>. QED
    BY <1>2, FS_Surjection
<1>4. PICK v \in V : \A w \in V : w <= v
  <2>. HIDE DEF V
  <2>1. NewestIn(V) \in V /\ \A m \in V : m <= NewestIn(V)
    BY <1>1, <1>3, NewestIs
  <2>. QED
    BY <2>1, Zenon
<1>5. PICK s \in S : v = f[s] + 1
  OBVIOUS
<1>6. ASSUME NEW r \in S PROVE f[r] <= f[s]
  <2>1. f[r] + 1 <= f[s] + 1
    BY <1>4, <1>5
  <2>. QED
    BY <2>1
<1>. QED
  BY <1>6

\* Some stop of a group comes before all others.
LEMMA BestIs ==
  ASSUME NEW group, group \subseteq Stops, group # {}, NEW use \in [Stops -> Nat]
  PROVE  Best(group, use) \in group
<1>0. /\ Stops \subseteq Nat /\ IsFiniteSet(Stops) /\ \A s \in Stops : PriorityOf[s] \in Nat
      /\ group \subseteq Stops
  BY MergesAssumption
<1>. USE <1>0
<1>1. PICK p \in group : \A r \in group : PriorityOf[p] <= PriorityOf[r]
  <2>. DEFINE V == {PriorityOf[s] : s \in group}
  <2>1. V \subseteq Nat /\ V # {}
    OBVIOUS
  <2>2. \E v \in V : \A w \in V : v <= w
    <3>. HIDE DEF V
    <3>. QED
      BY <2>1, LeastOf
  <2>. QED
    BY <2>2
<1>. DEFINE G == {s \in group : PriorityOf[s] = PriorityOf[p]}
<1>2. G \subseteq group /\ p \in G
  OBVIOUS
<1>3. IsFiniteSet(G)
  <2>. HIDE DEF G
  <2>1. G \subseteq Stops
    BY <1>2
  <2>. QED
    BY <2>1, FS_Subset
<1>4. PICK u \in G : \A r \in G : use[r] <= use[u]
  <2>. DEFINE f == [s \in G |-> use[s]]
  <2>1. f \in [G -> Nat]
    BY <1>2
  <2>2. \E s \in G : \A r \in G : f[r] <= f[s]
    <3>. HIDE DEF f, G
    <3>. QED
      BY <1>2, <1>3, <2>1, MostOf
  <2>. HIDE DEF G
  <2>. QED
    BY <2>2
<1>. DEFINE U == {s \in G : use[s] = use[u]}
<1>5. PICK s \in U : \A r \in U : s <= r
  <2>1. U \subseteq Nat /\ u \in U
    OBVIOUS
  <2>. HIDE DEF U
  <2>. QED
    BY <2>1, LeastOf
<1>6. ASSUME NEW r \in group \ {s}
      PROVE  \/ PriorityOf[s] < PriorityOf[r]
             \/ /\ PriorityOf[s] = PriorityOf[r]
                /\ use[s] > use[r] \/ (use[s] = use[r] /\ s < r)
  <2>1. PriorityOf[s] = PriorityOf[p] /\ use[s] = use[u] /\ s \in Stops /\ r \in Stops
    BY <1>2
  <2>2. PriorityOf[p] <= PriorityOf[r] /\ PriorityOf[p] \in Nat /\ PriorityOf[r] \in Nat
    BY <1>1, <2>1
  <2>3. use[r] \in Nat /\ use[u] \in Nat /\ s \in Nat /\ r \in Nat
    BY <2>1
  <2>4. CASE r \notin G
    BY <2>1, <2>2, <2>4
  <2>5. CASE r \in G /\ r \notin U
    <3>1. use[r] <= use[u] /\ use[r] # use[u]
      BY <1>4, <2>5
    <3>. QED
      BY <2>1, <2>3, <2>5, <3>1
  <2>6. CASE r \in U
    BY <1>5, <2>1, <2>3, <2>6
  <2>. QED
    BY <2>4, <2>5, <2>6
<1>7. s \in group
  BY <1>2
<1>. HIDE DEF G, U
<1>. QED
  BY <1>6, <1>7 DEF Best

\* Finding duplicates leaves the data as they are or every mapping applied.
LEMMA Deduplicated ==
  ASSUME NEW data \in MergeData, NEW groups, \A g \in groups : g \subseteq Stops,
         NEW use \in [Stops -> Nat]
  PROVE  /\ Deduplicate(data, groups, use) \in MergeData
         /\ Deduplicate(data, groups, use) = data \/ LastsIn(Deduplicate(data, groups, use))
<1>. DEFINE safe == {g \in groups : Cardinality(g) > 1 /\ ~Conflict(data, g)}
            best == [s \in UNION safe |-> Best(CHOOSE g \in safe : s \in g, use)]
            new == {s \in UNION safe : data.match[s] = NoStop /\ s # best[s]}
            mapped == [s \in Stops |-> IF s \in new THEN best[s] ELSE data.match[s]]
<1>1. Deduplicate(data, groups, use) =
        IF new = {} THEN data ELSE ApplyMerges([data EXCEPT !.match = mapped])
  BY DEF Deduplicate
<1>2. ASSUME NEW s \in UNION safe PROVE best[s] \in Stops
  <2>. DEFINE g == CHOOSE h \in safe : s \in h
  <2>1. \E h \in safe : s \in h
    BY <1>2
  <2>2. g \in safe /\ s \in g
    BY <2>1
  <2>3. g \subseteq Stops /\ g # {}
    BY <2>2
  <2>4. best[s] = Best(g, use)
    OBVIOUS
  <2>. HIDE DEF g, best
  <2>. QED
    BY <2>3, <2>4, BestIs
<1>. HIDE DEF safe, best
<1>3. mapped \in [Stops -> Stops \cup {NoStop}]
  BY <1>2 DEF MergeData
<1>. HIDE DEF mapped, new
<1>4. [data EXCEPT !.match = mapped] \in MergeData
  BY <1>3 DEF MergeData
<1>. QED
  BY <1>1, <1>4, MergesApplied

LEMMA UsageIs ==
  ASSUME NEW data \in MergeData
  PROVE  Usage(data) \in [Stops -> Nat]
<1>. USE MergesAssumption
<1>. DEFINE C(t) == {t} \X DOMAIN data.calls[t]
            All == UNION {C(t) : t \in Trips}
<1>1. ASSUME NEW t \in Trips PROVE IsFiniteSet(C(t))
  <2>1. data.calls[t] \in Seq(Stops)
    BY DEF MergeData
  <2>2. Len(data.calls[t]) \in Nat /\ DOMAIN data.calls[t] = 1 .. Len(data.calls[t])
    BY <2>1
  <2>3. IsFiniteSet(DOMAIN data.calls[t]) /\ IsFiniteSet({t})
    <3>1. IsFiniteSet(1 .. Len(data.calls[t]))
      BY <2>2, FS_Interval
    <3>2. IsFiniteSet({t})
      BY FS_Singleton, Zenon
    <3>. QED
      BY <2>2, <3>1, <3>2, Zenon
  <2>. DEFINE A == {t}
              B == DOMAIN data.calls[t]
  <2>. HIDE DEF A, B
  <2>4. IsFiniteSet(A \X B)
    BY <2>3, FS_Product, Zenon DEF A, B
  <2>. QED
    BY <2>4 DEF A, B
<1>. HIDE DEF C
<1>2. IsFiniteSet(All)
  <2>. DEFINE T == {C(t) : t \in Trips}
              f == [t \in Trips |-> C(t)]
  <2>1. f \in Surjection(Trips, T)
    <3>1. f \in [Trips -> T] /\ \A S \in T : \E t \in Trips : f[t] = S
      OBVIOUS
    <3>. HIDE DEF T, f
    <3>. QED
      BY <3>1 DEF Surjection
  <2>2. \A S \in T : IsFiniteSet(S)
    <3>1. ASSUME NEW S \in T PROVE IsFiniteSet(S)
      <4>1. PICK t \in Trips : S = C(t)
        OBVIOUS
      <4>. HIDE DEF T
      <4>. QED
        BY <1>1, <4>1, Zenon
    <3>. HIDE DEF T
    <3>. QED
      BY <3>1
  <2>. HIDE DEF T, f
  <2>3. IsFiniteSet(T)
    BY <2>1, FS_Surjection
  <2>4. IsFiniteSet(UNION T)
    BY <2>2, <2>3, FS_UNION
  <2>. QED
    BY <2>4 DEF T
<1>3. ASSUME NEW s \in Stops PROVE Cardinality({c \in All : data.calls[c[1]][c[2]] = s}) \in Nat
  <2>. DEFINE S == {c \in All : data.calls[c[1]][c[2]] = s}
  <2>1. S \subseteq All
    OBVIOUS
  <2>. HIDE DEF S, All
  <2>2. Cardinality(S) \in Nat
    BY <1>2, <2>1, FS_Subset, FS_CardinalityType
  <2>. QED
    BY <2>2 DEF S
<1>. QED
  BY <1>3 DEF Usage, C

LEMMA Repaired ==
  ASSUME NEW data \in MergeData
  PROVE  /\ SafeRepairs(data) \in MergeData
         /\ SafeRepairs(data) = data \/ LastsIn(SafeRepairs(data))
<1>1. ASSUME NEW d \in MergeData
      PROVE  /\ DeduplicateExact(d) \in MergeData
             /\ DeduplicateExact(d) = d \/ LastsIn(DeduplicateExact(d))
  <2>. DEFINE at(p) == {s \in d.active : PlaceOf[s] = p}
              apart(g) == \A r, s \in g : r # s => FeedOf[r] # FeedOf[s]
              groups == {g \in {at(PlaceOf[s]) : s \in Stops} : apart(g)}
              use == [s \in Stops |-> 0]
  <2>1. DeduplicateExact(d) = Deduplicate(d, groups, use)
    BY DEF DeduplicateExact
  <2>2. (\A g \in groups : g \subseteq Stops) /\ use \in [Stops -> Nat]
    BY DEF MergeData
  <2>. HIDE DEF groups, use
  <2>. QED
    BY <2>1, <2>2, Deduplicated
<1>2. ASSUME NEW d \in MergeData
      PROVE  /\ DeduplicateNearby(d) \in MergeData
             /\ DeduplicateNearby(d) = d \/ LastsIn(DeduplicateNearby(d))
  <2>. DEFINE near(c) == {s \in d.active : NearOf[s] = c /\ Directed(d, s)}
              groups == {near(NearOf[s]) : s \in Stops}
  <2>1. DeduplicateNearby(d) = Deduplicate(d, groups, Usage(d))
    BY DEF DeduplicateNearby
  <2>2. (\A g \in groups : g \subseteq Stops) /\ Usage(d) \in [Stops -> Nat]
    BY UsageIs DEF MergeData
  <2>. HIDE DEF groups
  <2>. QED
    BY <2>1, <2>2, Deduplicated
<1>. QED
  BY <1>1, <1>2 DEF SafeRepairs

\* Types, what an import has begun and what merges leave.
MergesInv ==
  /\ MergesTypeOK
  /\ \A f \in Feeds : stage[f] # "idle" => taken[f] # 0
  /\ MergesLast

\* What refers to stops is data, and what a version holds too.
LEMMA MergeParts ==
  ASSUME MergesTypeOK
  PROVE  /\ Data \in MergeData
         /\ Merged(Data) = {s \in Stops : match[s] # NoStop}
         /\ (Chained <=> ~Unchained(Data))
         /\ (Lasts <=> Gone(Data, Merged(Data)))
         /\ (MergesLast <=> (ImportsDone => LastsIn(Data)))
<1>1. Data \in MergeData
  BY DEF MergesTypeOK, Data, MergeData
<1>2. Merged(Data) = {s \in Stops : match[s] # NoStop}
  BY DEF Data, Merged
<1>3. Chained <=> ~Unchained(Data)
  <2>1. \A s \in Merged(Data) : match[match[s]] # NoStop <=> match[s] \in Merged(Data)
    BY <1>2 DEF MergesTypeOK
  <2>2. Data.match = match
    BY DEF Data
  <2>. QED
    BY <2>1, <2>2 DEF Chained, Unchained
<1>4. Lasts <=> Gone(Data, Merged(Data))
  <2>1. Data.active = active /\ Data.calls = called
    BY DEF Data
  <2>2. ASSUME NEW t \in Trips, NEW s
        PROVE  s \notin Range(called[t]) <=> \A n \in DOMAIN called[t] : called[t][n] # s
    BY DEF Range
  <2>. DEFINE M == Merged(Data)
              In(t, s) == s \in Range(called[t])
  <2>3. Lasts <=> \A s \in M : s \notin active /\ \A t \in Trips : ~In(t, s)
    BY DEF Lasts
  <2>4. Gone(Data, M) <=> /\ active \cap M = {}
                          /\ \A t \in Trips : \A n \in DOMAIN called[t] : called[t][n] \notin M
    BY <2>1 DEF Gone
  <2>5. \A t \in Trips : (\A n \in DOMAIN called[t] : called[t][n] \notin M)
                          <=> \A s \in M : ~In(t, s)
    <3>. HIDE DEF M
    <3>. QED
      BY <2>2
  <2>. HIDE DEF M, In
  <2>. QED
    BY <2>3, <2>4, <2>5 DEF M
<1>. QED
  BY <1>1, <1>2, <1>3, <1>4 DEF MergesLast, LastsIn

LEMMA MergesLastThen == MergesTypeOK' => (MergesLast' <=> (ImportsDone' => LastsIn(Data')))
<1>1. MergesTypeOK => (MergesLast <=> (ImportsDone => LastsIn(Data)))
  BY MergeParts
<1>2. MergesTypeOK' => (MergesLast' <=> (ImportsDone' => (LastsIn(Data))'))
  BY <1>1, PTL
<1>. QED
  BY <1>2

LEMMA VersionParts ==
  ASSUME MergesTypeOK, NEW f \in Feeds, taken[f] # 0
  PROVE  /\ Version(f).stops \subseteq Stops
         /\ \A t \in DOMAIN Version(f).calls : Version(f).calls[t] \in Seq(Stops)
<1>1. taken[f] \in DOMAIN Versions[f]
  <2>1. listed[f] \in DOMAIN Versions[f] /\ taken[f] \in Nat /\ taken[f] <= listed[f]
    BY DEF MergesTypeOK
  <2>2. Len(Versions[f]) \in Nat /\ DOMAIN Versions[f] = 1 .. Len(Versions[f])
    BY MergesAssumption
  <2>. QED
    BY <2>1, <2>2
<1>2. Version(f).stops \subseteq Stops
  BY <1>1, MergesAssumption DEF Version
<1>3. ASSUME NEW t \in DOMAIN Version(f).calls PROVE Version(f).calls[t] \in Seq(Stops)
  <2>1. Version(f).calls[t] \in Seq({s \in Version(f).stops : FeedOf[s] = f})
    BY <1>1, MergesAssumption DEF Version
  <2>. DEFINE S == {s \in Version(f).stops : FeedOf[s] = f}
  <2>2. S \subseteq Stops
    BY <1>2
  <2>. DEFINE x == Version(f).calls[t]
  <2>3. x \in Seq(S)
    BY <2>1
  <2>. HIDE DEF S, x
  <2>4. x \in Seq(Stops)
    BY <2>2, <2>3
  <2>. QED
    BY <2>4 DEF x
<1>. QED
  BY <1>2, <1>3

\* What the database's functions leave is kept.
LEMMA KeptData ==
  ASSUME MergesInv, NEW data \in MergeData, Keep(data), stage' \in [Feeds ->
           {"stops", "calls", "prune", "repair", "merge", "idle", "failed"}],
         \A f \in Feeds : stage'[f] # "idle" => stage[f] # "idle",
         UNCHANGED <<listed, taken, current>>,
         LastsIn(data) \/ (data = Data /\ stage' = stage) \/ ~ImportsDone'
  PROVE  MergesInv'
<1>1. active' = data.active /\ called' = data.calls /\ match' = data.match
  BY DEF Keep
<1>2. Data' = data
  BY <1>1 DEF Data, MergeData
<1>3. MergesTypeOK'
  <2>1. active' \subseteq Stops /\ called' \in [Trips -> Seq(Stops)]
        /\ match' \in [Stops -> Stops \cup {NoStop}]
    BY <1>1 DEF MergeData
  <2>. QED
    BY <2>1 DEF MergesInv, MergesTypeOK
<1>4. MergesLast' <=> (ImportsDone' => LastsIn(data))
  <2>1. MergesLast' <=> (ImportsDone' => LastsIn(Data'))
    BY <1>3, MergesLastThen
  <2>. QED
    BY <1>2, <2>1
<1>5. MergesLast'
  <2>1. CASE LastsIn(data)
    BY <1>4, <2>1
  <2>2. CASE data = Data /\ stage' = stage
    <3>1. ImportsDone' => ImportsDone
      BY <2>2 DEF ImportsDone
    <3>. QED
      BY <1>4, <2>2, <3>1, MergeParts DEF MergesInv
  <2>3. CASE ~ImportsDone'
    BY <1>4, <2>3
  <2>. QED
    BY <2>1, <2>2, <2>3
<1>6. \A f \in Feeds : stage'[f] # "idle" => taken'[f] # 0
  BY DEF MergesInv
<1>. QED
  BY <1>3, <1>5, <1>6 DEF MergesInv

\* While an import is under way there is nothing to keep.
LEMMA Importing ==
  ASSUME MergesTypeOK', NEW f \in Feeds, stage'[f] # "idle",
         \A g \in Feeds : stage'[g] # "idle" => taken'[g] # 0
  PROVE  MergesInv'
BY DEF MergesInv, MergesLast, ImportsDone

\* A stage of an import takes one feed to the next.
LEMMA StageStep ==
  ASSUME MergesInv, NEW f \in Feeds, NEW now, NEW next, Stage(f, now, next), now # "idle",
         next \in {"stops", "calls", "prune", "repair", "merge", "idle", "failed"},
         UNCHANGED <<listed, taken>>
  PROVE  /\ stage' \in [Feeds -> {"stops", "calls", "prune", "repair", "merge", "idle", "failed"}]
         /\ stage'[f] = next /\ taken[f] # 0
         /\ \A g \in Feeds : stage'[g] # "idle" => stage[g] # "idle"
         /\ \A g \in Feeds : stage'[g] # "idle" => taken'[g] # 0
         /\ listed' \in [Feeds -> Nat] /\ taken' \in [Feeds -> Nat]
         /\ \A g \in Feeds : listed'[g] \in DOMAIN Versions[g] /\ taken'[g] <= listed'[g]
<1>1. /\ stage \in [Feeds -> {"stops", "calls", "prune", "repair", "merge", "idle", "failed"}]
      /\ \A g \in Feeds : stage[g] # "idle" => taken[g] # 0
  BY DEF MergesInv, MergesTypeOK
<1>2. stage[f] # "idle" /\ stage' = [stage EXCEPT ![f] = next]
  BY DEF Stage
<1>3. \A g \in Feeds : stage'[g] = IF g = f THEN next ELSE stage[g]
  BY <1>1, <1>2
<1>4. stage' \in [Feeds -> {"stops", "calls", "prune", "repair", "merge", "idle", "failed"}]
  BY <1>1, <1>2
<1>. QED
  BY <1>1, <1>2, <1>3, <1>4 DEF MergesInv, MergesTypeOK

LEMMA MergesStep ==
  ASSUME MergesInv, [MergesNext]_stopVars PROVE MergesInv'
<1>. DEFINE Stages == {"stops", "calls", "prune", "repair", "merge", "idle", "failed"}
<1>1. /\ MergesTypeOK /\ Data \in MergeData
      /\ \A g \in Feeds : stage[g] # "idle" => taken[g] # 0
      /\ stage \in [Feeds -> Stages] /\ current \subseteq Stops /\ active \subseteq Stops
      /\ called \in [Trips -> Seq(Stops)] /\ match \in [Stops -> Stops \cup {NoStop}]
      /\ taken \in [Feeds -> Nat] /\ listed \in [Feeds -> Nat]
      /\ \A g \in Feeds : listed[g] \in DOMAIN Versions[g] /\ taken[g] <= listed[g]
  BY MergeParts DEF MergesInv, MergesTypeOK
<1>2. CASE ApplySafeRepairs
  <2>1. SafeRepairs(Data) \in MergeData /\ (SafeRepairs(Data) = Data \/ LastsIn(SafeRepairs(Data)))
    BY <1>1, Repaired
  <2>2. Keep(SafeRepairs(Data)) /\ UNCHANGED <<listed, taken, stage, current>>
    BY <1>2 DEF ApplySafeRepairs
  <2>. QED
    BY <1>1, <2>1, <2>2, KeptData
<1>3. ASSUME NEW canonical \in Stops, NEW duplicates \in SUBSET Stops,
             ConfirmMerge(canonical, duplicates)
      PROVE  MergesInv'
  <2>. DEFINE mapped == [s \in Stops |-> IF s \in duplicates THEN canonical ELSE match[s]]
              d == [Data EXCEPT !.match = mapped]
  <2>1. Keep(ApplyMerges(d)) /\ UNCHANGED <<listed, taken, stage, current>>
    BY <1>3 DEF ConfirmMerge, Data
  <2>2. mapped \in [Stops -> Stops \cup {NoStop}]
    BY <1>1
  <2>. HIDE DEF mapped
  <2>3. d \in MergeData
    BY <1>1, <2>2 DEF MergeData
  <2>. HIDE DEF d
  <2>4. ApplyMerges(d) \in MergeData /\ LastsIn(ApplyMerges(d))
    BY <2>3, MergesApplied
  <2>. QED
    BY <1>1, <2>1, <2>4, KeptData
<1>4. ASSUME NEW f \in Feeds, PublishDataset(f) PROVE MergesInv'
  <2>1. /\ listed' = [listed EXCEPT ![f] = listed[f] + 1] /\ listed[f] < Len(Versions[f])
        /\ UNCHANGED <<taken, stage, current, active, called, match>>
    BY <1>4 DEF PublishDataset
  <2>2. listed' \in [Feeds -> Nat]
    BY <1>1, <2>1
  <2>3. ASSUME NEW g \in Feeds
        PROVE  listed'[g] \in DOMAIN Versions[g] /\ taken'[g] <= listed'[g]
    <3>1. Len(Versions[g]) \in Nat /\ DOMAIN Versions[g] = 1 .. Len(Versions[g])
      BY MergesAssumption
    <3>2. CASE g = f
      <4>1. listed'[g] = listed[g] + 1
        BY <1>1, <2>1, <3>2
      <4>. QED
        BY <1>1, <2>1, <3>1, <3>2, <4>1
    <3>3. CASE g # f
      BY <1>1, <2>1, <3>3
    <3>. QED
      BY <3>2, <3>3
  <2>4. MergesTypeOK'
    BY <1>1, <2>1, <2>2, <2>3 DEF MergesTypeOK
  <2>5. MergesLast'
    BY <2>1 DEF MergesInv, MergesLast, ImportsDone, Chained, Lasts, Merged, Data
  <2>. QED
    BY <1>1, <2>1, <2>4, <2>5 DEF MergesInv
<1>5. ASSUME NEW f \in Feeds, BeginImport(f) PROVE MergesInv'
  <2>1. /\ stage' = [stage EXCEPT ![f] = "stops"]
        /\ taken' = [taken EXCEPT ![f] = listed[f]]
        /\ current' \subseteq current
        /\ UNCHANGED <<listed, active, called, match>>
    BY <1>5 DEF BeginImport, Stage
  <2>2. listed[f] # 0
    <3>1. Len(Versions[f]) \in Nat /\ DOMAIN Versions[f] = 1 .. Len(Versions[f])
      BY MergesAssumption
    <3>. QED
      BY <1>1, <3>1
  <2>3. \A g \in Feeds : /\ taken'[g] = IF g = f THEN listed[f] ELSE taken[g]
                         /\ stage'[g] = IF g = f THEN "stops" ELSE stage[g]
    BY <1>1, <2>1
  <2>4. taken' \in [Feeds -> Nat] /\ stage' \in [Feeds -> Stages]
    BY <1>1, <2>1
  <2>5. \A g \in Feeds : taken'[g] <= listed'[g] /\ (stage'[g] # "idle" => taken'[g] # 0)
    BY <1>1, <2>1, <2>2, <2>3
  <2>6. MergesTypeOK'
    BY <1>1, <2>1, <2>4, <2>5 DEF MergesTypeOK
  <2>7. stage'[f] # "idle"
    BY <2>3
  <2>. QED
    BY <2>5, <2>6, <2>7, Importing
<1>6. ASSUME NEW f \in Feeds, ImportStops(f) PROVE MergesInv'
  <2>1. /\ Stage(f, "stops", "calls") /\ UNCHANGED <<listed, taken, called, match>>
        /\ active' = active \cup Version(f).stops /\ current' = current \cup Version(f).stops
    BY <1>6 DEF ImportStops
  <2>2. /\ stage' \in [Feeds -> Stages] /\ stage'[f] = "calls" /\ taken[f] # 0
        /\ \A g \in Feeds : stage'[g] # "idle" => taken'[g] # 0
        /\ listed' \in [Feeds -> Nat] /\ taken' \in [Feeds -> Nat]
        /\ \A g \in Feeds : listed'[g] \in DOMAIN Versions[g] /\ taken'[g] <= listed'[g]
    BY <2>1, StageStep
  <2>3. Version(f).stops \subseteq Stops
    BY <1>1, <2>2, VersionParts
  <2>4. MergesTypeOK'
    BY <1>1, <2>1, <2>2, <2>3 DEF MergesTypeOK
  <2>. QED
    BY <2>2, <2>4, Importing
<1>7. ASSUME NEW f \in Feeds, ImportCalls(f) PROVE MergesInv'
  <2>1. /\ Stage(f, "calls", "prune") /\ UNCHANGED <<listed, taken, current, active, match>>
        /\ called' = [t \in Trips |-> IF t \in DOMAIN Version(f).calls THEN Version(f).calls[t]
                                      ELSE called[t]]
    BY <1>7 DEF ImportCalls
  <2>2. /\ stage' \in [Feeds -> Stages] /\ stage'[f] = "prune" /\ taken[f] # 0
        /\ \A g \in Feeds : stage'[g] # "idle" => taken'[g] # 0
        /\ listed' \in [Feeds -> Nat] /\ taken' \in [Feeds -> Nat]
        /\ \A g \in Feeds : listed'[g] \in DOMAIN Versions[g] /\ taken'[g] <= listed'[g]
    BY <2>1, StageStep
  <2>3. \A t \in DOMAIN Version(f).calls : Version(f).calls[t] \in Seq(Stops)
    BY <1>1, <2>2, VersionParts
  <2>4. called' \in [Trips -> Seq(Stops)]
    BY <1>1, <2>1, <2>3
  <2>5. MergesTypeOK'
    BY <1>1, <2>1, <2>2, <2>4 DEF MergesTypeOK
  <2>. QED
    BY <2>2, <2>5, Importing
<1>8. ASSUME NEW f \in Feeds, PruneStops(f) PROVE MergesInv'
  <2>. DEFINE own == {s \in Stops : FeedOf[s] = f}
              served == own \cap UNION {Range(called'[t]) : t \in TripsOf(f)}
  <2>1. /\ Stage(f, "prune", "repair") /\ UNCHANGED <<listed, taken, match>>
        /\ called' = [t \in Trips |-> IF t \in TripsOf(f) \ DOMAIN Version(f).calls THEN <<>>
                                      ELSE called[t]]
        /\ current' = current \cup served
        /\ active' = (active \cup served) \ (own \ current')
    BY <1>8 DEF PruneStops
  <2>2. /\ stage' \in [Feeds -> Stages] /\ stage'[f] = "repair" /\ taken[f] # 0
        /\ \A g \in Feeds : stage'[g] # "idle" => taken'[g] # 0
        /\ listed' \in [Feeds -> Nat] /\ taken' \in [Feeds -> Nat]
        /\ \A g \in Feeds : listed'[g] \in DOMAIN Versions[g] /\ taken'[g] <= listed'[g]
    BY <2>1, StageStep
  <2>3. called' \in [Trips -> Seq(Stops)]
    <3>1. <<>> \in Seq(Stops)
      OBVIOUS
    <3>. QED
      BY <1>1, <2>1, <3>1
  <2>4. served \subseteq Stops
    OBVIOUS
  <2>. HIDE DEF served, own
  <2>5. MergesTypeOK'
    BY <1>1, <2>1, <2>2, <2>3, <2>4 DEF MergesTypeOK
  <2>. QED
    BY <2>2, <2>5, Importing
<1>9. ASSUME NEW f \in Feeds, RepairImported(f) PROVE MergesInv'
  <2>1. Stage(f, "repair", "merge") /\ Keep(SafeRepairs(Data)) /\ UNCHANGED <<listed, taken, current>>
    BY <1>9 DEF RepairImported
  <2>2. /\ stage' \in [Feeds -> Stages] /\ stage'[f] = "merge"
        /\ \A g \in Feeds : stage'[g] # "idle" => stage[g] # "idle"
    BY <2>1, StageStep
  <2>3. ~ImportsDone'
    BY <2>2 DEF ImportsDone
  <2>4. SafeRepairs(Data) \in MergeData
    BY <1>1, Repaired
  <2>. QED
    BY <2>1, <2>2, <2>3, <2>4, KeptData
<1>10. ASSUME NEW f \in Feeds, Reapply(f) PROVE MergesInv'
  <2>1. Stage(f, "merge", "idle") /\ Keep(ApplyMerges(Data)) /\ UNCHANGED <<listed, taken, current>>
    BY <1>10 DEF Reapply
  <2>2. /\ stage' \in [Feeds -> Stages]
        /\ \A g \in Feeds : stage'[g] # "idle" => stage[g] # "idle"
    BY <2>1, StageStep
  <2>3. ApplyMerges(Data) \in MergeData /\ LastsIn(ApplyMerges(Data))
    BY <1>1, MergesApplied
  <2>. QED
    BY <2>1, <2>2, <2>3, KeptData
<1>11. ASSUME NEW f \in Feeds, FailImport(f) PROVE MergesInv'
  <2>1. /\ stage[f] # "idle" /\ stage' = [stage EXCEPT ![f] = "failed"]
        /\ UNCHANGED <<listed, taken, current, active, called, match>>
    BY <1>11 DEF FailImport
  <2>2. Stage(f, stage[f], "failed")
    BY <2>1 DEF Stage
  <2>3. /\ stage' \in [Feeds -> Stages] /\ stage'[f] = "failed"
        /\ \A g \in Feeds : stage'[g] # "idle" => taken'[g] # 0
    BY <2>1, <2>2, StageStep
  <2>4. MergesTypeOK'
    BY <1>1, <2>1, <2>3 DEF MergesTypeOK
  <2>. QED
    BY <2>3, <2>4, Importing
<1>12. CASE UNCHANGED stopVars
  <2>1. UNCHANGED <<listed, taken, stage, current, active, called, match>>
    BY <1>12 DEF stopVars
  <2>. QED
    BY <2>1 DEF MergesInv, MergesTypeOK, MergesLast, ImportsDone, Chained, Lasts, Merged, Data
<1>. QED
  BY <1>2, <1>3, <1>4, <1>5, <1>6, <1>7, <1>8, <1>9, <1>10, <1>11, <1>12 DEF MergesNext

LEMMA MergesStart == MergesInit => MergesInv
<1>. SUFFICES ASSUME MergesInit PROVE MergesInv
  OBVIOUS
<1>1. /\ listed = [f \in Feeds |-> 1] /\ taken = [f \in Feeds |-> 0]
      /\ stage = [f \in Feeds |-> "idle"] /\ current = {} /\ active = {}
      /\ called = [t \in Trips |-> <<>>] /\ match = [s \in Stops |-> NoStop]
  BY DEF MergesInit
<1>2. \A f \in Feeds : listed[f] \in DOMAIN Versions[f]
  <2>1. ASSUME NEW f \in Feeds PROVE 1 \in DOMAIN Versions[f]
    <3>1. Len(Versions[f]) \in Nat /\ DOMAIN Versions[f] = 1 .. Len(Versions[f])
      BY MergesAssumption
    <3>2. Len(Versions[f]) > 0
      BY MergesAssumption
    <3>. QED
      BY <3>1, <3>2
  <2>. QED
    BY <1>1, <2>1
<1>3. called \in [Trips -> Seq(Stops)]
  <2>1. <<>> \in Seq(Stops)
    OBVIOUS
  <2>. QED
    BY <1>1, <2>1
<1>4. MergesTypeOK
  BY <1>1, <1>2, <1>3 DEF MergesTypeOK
<1>5. MergesLast
  BY <1>1 DEF MergesLast, Lasts, Merged, Data
<1>. QED
  BY <1>1, <1>4, <1>5 DEF MergesInv

\* Types, and that an import under way has taken a version
\* (database_import, cesta_apply_confirmed_stop_merges).
THEOREM MergesInductive == MergesSpec => []MergesInv
<1>1. MergesInit => MergesInv
  BY MergesStart
<1>2. MergesInv /\ [MergesNext]_stopVars => MergesInv'
  BY MergesStep
<1>. QED
  BY <1>1, <1>2, PTL DEF MergesSpec

\* With imports complete no merged stop is active and no trip calls at one, but for chains:
\* whatever the imports, which overlap without a lock and bring every duplicate back, fail
\* and start again, and whatever the administrator and the database map in between
\* (the export's last statement, cesta_apply_confirmed_stop_merges).
THEOREM MergesOutlastImports == MergesSpec => []MergesLast
<1>1. MergesInv => MergesLast
  BY DEF MergesInv
<1>. QED
  BY <1>1, MergesInductive, PTL

=============================================================================
