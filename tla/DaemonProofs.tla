-------------------------- MODULE DaemonProofs --------------------------
(***************************************************************************)
(* Theorems about PairConfig and Daemon, for every configuration, number   *)
(* of pairs, commands, refs, moves and failures.                           *)
(***************************************************************************)
EXTENDS Daemon, SequenceTheorems, TLAPS

-----------------------------------------------------------------------------
(* The configuration *)

LEMMA DefaultsTyped ==
  ASSUME NEW c \in Seq(Pairs)
  PROVE  /\ WithDefaults(c) \in Seq(Pairs)
         /\ DOMAIN WithDefaults(c) = DOMAIN c
         /\ NamesOf(WithDefaults(c)) = NamesOf(c)
<1>1. ASSUME NEW r \in Repos PROVE RepoWithDefaults(r) \in Repos
  BY ConfigAssumption DEF RepoWithDefaults, Repos, DefaultPollingFrequency
<1>2. ASSUME NEW i \in DOMAIN c
      PROVE  /\ [c[i] EXCEPT !.left = RepoWithDefaults(@), !.right = RepoWithDefaults(@)] \in Pairs
             /\ WithDefaults(c)[i].name = c[i].name
  <2> DEFINE p == c[i]
  <2>1. p \in Pairs
    OBVIOUS
  <2>2. RepoWithDefaults(p.left) \in Repos /\ RepoWithDefaults(p.right) \in Repos
    BY <1>1, <2>1 DEF Pairs
  <2>3. WithDefaults(c)[i] =
          [p EXCEPT !.left = RepoWithDefaults(@), !.right = RepoWithDefaults(@)]
    BY DEF WithDefaults
  <2> HIDE DEF p
  <2>4. [p EXCEPT !.left = RepoWithDefaults(@), !.right = RepoWithDefaults(@)] \in
          {q \in Pairs : q.name = p.name}
    BY <2>1, <2>2 DEF Pairs
  <2> QED
    BY <2>3, <2>4 DEF p
<1>3. WithDefaults(c) \in [1..Len(c) -> Pairs] /\ DOMAIN WithDefaults(c) = DOMAIN c
  <2>1. DOMAIN c = 1..Len(c)
    OBVIOUS
  <2> QED
    BY <1>2, <2>1 DEF WithDefaults
<1>4. WithDefaults(c) \in Seq(Pairs)
  <2> DEFINE d == WithDefaults(c)
  <2>1. Len(c) \in Nat /\ d \in [1..Len(c) -> Pairs]
    BY <1>3
  <2> HIDE DEF d
  <2>2. d \in Seq(Pairs)
    BY <2>1
  <2> QED
    BY <2>2 DEF d
<1> QED
  BY <1>2, <1>3, <1>4 DEF NamesOf

LEMMA DefaultsKeepKeys ==
  ASSUME NEW c \in Seq(Pairs), NEW place \in Places(c)
  PROVE  /\ place \in Places(WithDefaults(c))
         /\ SeenAs(RepoAt(WithDefaults(c), place)) = SeenAs(RepoAt(c, place))
<1>1. ASSUME NEW r \in Repos PROVE SeenAs(RepoWithDefaults(r)) = SeenAs(r)
  BY ConfigAssumption DEF RepoWithDefaults, Repos, SeenAs
<1>2. PICK i \in DOMAIN c, s \in {"left", "right"} : place = <<i, s>>
  BY DEF Places
<1>3. c[i] \in Pairs
  OBVIOUS
<1>4. WithDefaults(c)[i] = [c[i] EXCEPT !.left = RepoWithDefaults(@), !.right = RepoWithDefaults(@)]
  BY DEF WithDefaults
<1>5. WithDefaults(c)[i][s] = RepoWithDefaults(c[i][s]) /\ c[i][s] \in Repos
  <2>1. CASE s = "left"
    BY <1>3, <1>4, <2>1 DEF Pairs
  <2>2. CASE s = "right"
    BY <1>3, <1>4, <2>2 DEF Pairs
  <2> QED
    BY <2>1, <2>2
<1>6. place \in Places(WithDefaults(c))
  BY <1>2 DEF Places, WithDefaults
<1> QED
  BY <1>1, <1>2, <1>5, <1>6 DEF RepoAt

\* What the lookups take for one repository is one to Validate, if the names are
\* ASCII.
LEMMA AsciiKeys ==
  ASSUME NEW r \in Repos, NEW o \in Repos, NEW provider, NEW fullName \in AsciiNames,
         r.fullName \in AsciiNames, o.fullName \in AsciiNames,
         RepoMatches(r, provider, fullName), RepoMatches(o, provider, fullName)
  PROVE  SeenAs(r) = SeenAs(o)
<1>1. Lower[r.fullName] = Lower[fullName] /\ Lower[o.fullName] = Lower[fullName]
  BY ConfigAssumption DEF RepoMatches
<1> QED
  BY <1>1 DEF RepoMatches, SeenAs

LEMMA PlacesTyped ==
  ASSUME NEW c \in Seq(Pairs), NEW place \in Places(c)
  PROVE  RepoAt(c, place) \in Repos
<1>1. PICK i \in DOMAIN c, s \in {"left", "right"} : place = <<i, s>>
  BY DEF Places
<1>2. c[i] \in Pairs
  OBVIOUS
<1> QED
  BY <1>1, <1>2 DEF RepoAt, Pairs

\* Validate remembers repositories by ToLower and the syncer looks them up by
\* EqualFold: as long as the names are ASCII, an event of a repository finds one
\* side of one pair, and remoteNames takes that side for the source.
THEOREM OneRoute ==
  ASSUME NEW c \in Seq(Pairs), Validate(c),
         \A place \in Places(c) : RepoAt(c, place).fullName \in AsciiNames,
         NEW provider \in Providers, NEW fullName \in AsciiNames,
         NEW x \in FindPair(c, provider, fullName)
  PROVE  /\ \A y \in FindPair(c, provider, fullName) : x = y
         /\ SourceSide(c[x[1]], RepoAt(c, x)) = x[2]
<1>1. ASSUME NEW y \in FindPair(c, provider, fullName) PROVE x = y
  BY <1>1, AsciiKeys, PlacesTyped DEF FindPair, Validate
<1>2. PICK i \in DOMAIN c, s \in {"left", "right"} : x = <<i, s>>
  BY DEF FindPair, Places
<1>3. c[i] \in Pairs /\ <<i, "right">> \in Places(c) /\ x \in Places(c)
  BY <1>2 DEF Places, FindPair
<1>4. RepoAt(c, <<i, "right">>) = c[i].right
  BY DEF RepoAt
<1>5. ASSUME SameRepo(RepoAt(c, x), c[i].right) PROVE s = "right"
  <2>1. RepoMatches(c[i].right, Normal[c[i].right.provider], c[i].right.fullName)
    BY DEF RepoMatches
  <2>2. /\ RepoAt(c, x) \in Repos /\ c[i].right \in Repos
        /\ RepoAt(c, x).fullName \in AsciiNames /\ c[i].right.fullName \in AsciiNames
    BY <1>3, <1>4, PlacesTyped
  <2>3. SeenAs(RepoAt(c, x)) = SeenAs(c[i].right)
    BY <1>5, <2>1, <2>2, AsciiKeys DEF SameRepo
  <2> QED
    BY <1>2, <1>3, <1>4, <2>3 DEF Validate
<1>6. ASSUME s = "right" PROVE SameRepo(RepoAt(c, x), c[i].right)
  BY <1>2, <1>6 DEF RepoAt, SameRepo, RepoMatches
<1> QED
  BY <1>1, <1>2, <1>5, <1>6 DEF SourceSide

-----------------------------------------------------------------------------
(* Types *)

LEMMA InitTyped == Init => TypeOK
<1> SUFFICES ASSUME Init PROVE TypeOK
  OBVIOUS
<1>1. Down \in Boots
  BY DEF Down, Boots, Steps, Sides
<1>2. <<>> \in Seq(Pairs)
  OBVIOUS
<1>3. remote \in [PairNames -> [Sides -> [Refs -> Tips]]]
  BY DaemonAssumption DEF Init
<1>4. base \in [PairNames -> [Sides -> [Branches -> Tips]]]
  BY DEF Init, Tips
<1> QED
  BY <1>1, <1>2, <1>3, <1>4, DaemonAssumption DEF Init, TypeOK, Booting, Down

LEMMA AddTyped == TypeOK /\ AddStep => TypeOK'
<1> SUFFICES ASSUME TypeOK, NEW a \in Adders,
                    AddLoads(a) \/ AddEnds(a) \/ \E p \in NewPairs : AddWrites(a, p)
             PROVE  TypeOK'
  BY DEF AddStep
<1> DEFINE Rest == <<remote, base, marked, daemon, starts, ghosts>>
<1>1. file' \in Seq(Pairs) /\ adding' \in [Adders -> Seq(Pairs)] /\ UNCHANGED Rest
  <2>1. CASE AddLoads(a)
    BY <2>1, DefaultsTyped DEF AddLoads, TypeOK
  <2>2. CASE AddEnds(a)
    BY <2>2 DEF AddEnds, TypeOK
  <2>3. ASSUME NEW p \in NewPairs, AddWrites(a, p) PROVE <1>1!:
    <3>1. adding[a] \in Seq(Pairs) /\ p \in Pairs
      BY DaemonAssumption DEF TypeOK
    <3>2. WithPair(adding[a], p) \in Seq(Pairs)
      BY <3>1 DEF WithPair
    <3> QED
      BY <2>3, <3>2, DefaultsTyped DEF AddWrites, TypeOK
  <2> QED
    BY <2>1, <2>2, <2>3
<1> QED
  BY <1>1 DEF TypeOK, ghosts, Booting

\* While a pair is bootstrapped, Current is a pair of the loaded configuration.
LEMMA CurrentIsPair ==
  ASSUME TypeOK, daemon.pair \in 1..Len(daemon.config)
  PROVE  daemon.config[daemon.pair] \in Pairs /\ Current \in PairNames
<1>1. daemon.config \in Seq(Pairs)
  BY DEF TypeOK, Boots
<1>2. daemon.config[daemon.pair] \in Pairs
  BY <1>1
<1> QED
  BY <1>2 DEF Current, Pairs

LEMMA ServiceTyped ==
  TypeOK /\ (ServiceStep \/ MinutePasses \/ Dies \/ ListenFails) => TypeOK'
<1> SUFFICES ASSUME TypeOK PROVE ServiceStep \/ MinutePasses \/ Dies \/ ListenFails => TypeOK'
  OBVIOUS
<1> USE DEF TypeOK, Settled, Booting
<1>0. Down \in Boots
  BY DEF Down, Boots, Steps, Sides
<1>1. ASSUME Start PROVE TypeOK'
  <2>1. WithDefaults(file) \in Seq(Pairs)
    BY DefaultsTyped
  <2>2. [Down EXCEPT !.pc = "next", !.config = WithDefaults(file)] \in
          {d \in Boots : d.pc = "next"}
    BY <1>0, <2>1 DEF Boots, Steps
  <2>3. daemon' \in Boots /\ ~Booting'
    BY <1>1, <2>2 DEF Start
  <2>4. starts' \in 0..StartLimitBurst
    BY <1>1, DaemonAssumption DEF Start, Counted
  <2> QED
    BY <1>1, <2>3, <2>4 DEF Start
<1>2. ASSUME GiveUp PROVE TypeOK'
  <2>1. [Down EXCEPT !.pc = "failed"] \in {d \in Boots : d.pc = "failed"}
    BY <1>0 DEF Boots, Steps
  <2> QED
    BY <1>2, <2>1 DEF GiveUp
<1>3. ASSUME MinutePasses PROVE TypeOK'
  BY <1>3, DaemonAssumption DEF MinutePasses
<1>4. ASSUME Dies PROVE TypeOK'
  BY <1>4, <1>0 DEF Dies, Fatal, Down
<1>5. ASSUME ListenFails PROVE TypeOK'
  <2>1. [Down EXCEPT !.pc = "exited"] \in {d \in Boots : d.pc = "exited"}
    BY <1>0 DEF Boots, Steps
  <2> QED
    BY <1>5, <2>1 DEF ListenFails
<1> QED
  BY <1>1, <1>2, <1>3, <1>4, <1>5 DEF ServiceStep

LEMMA UserTyped == TypeOK /\ UserStep => TypeOK'
<1> SUFFICES ASSUME TypeOK,
                    NEW n \in NamesOf(file), NEW s \in Sides, NEW r \in Refs, NEW tip \in Tips,
                    UserMove(n, s, r, tip)
             PROVE  TypeOK'
  BY DEF UserStep
<1>1. remote' \in [PairNames -> [Sides -> [Refs -> Tips]]]
  BY DEF UserMove, TypeOK
<1> QED
  BY <1>1 DEF UserMove, TypeOK, Booting

LEMMA BootTyped == TypeOK /\ BootStep => TypeOK'
<1> SUFFICES ASSUME TypeOK PROVE BootStep => TypeOK'
  OBVIOUS
<1> USE DEF TypeOK, Settled, Booting, Goto
<1>0. Down \in Boots /\ Down.pc = "down"
  BY DEF Down, Boots, Steps, Sides
<1>1. ASSUME NextPair PROVE TypeOK'
  <2>1. daemon' \in Boots /\ (Booting' => daemon'.pair \in 1..Len(daemon'.config))
    <3>1. [daemon EXCEPT !.pc = "serving"] \in {d \in Boots : d.pc = "serving"}
      BY DEF Boots, Steps
    <3>2. [daemon EXCEPT !.pair = @ + 1] \in {d \in Boots : d.pc = daemon.pc}
      <4>1. daemon \in Boots
        OBVIOUS
      <4> QED
        BY ONLY <4>1 DEF Boots
    <3>3. [daemon EXCEPT !.pc = "look", !.side = "left", !.empty = {}] \in
            {d \in Boots : d.pair = daemon.pair /\ d.config = daemon.config}
      BY DEF Boots, Steps, Sides
    <3>4. daemon.pair <= Len(daemon.config) => daemon.pair \in 1..Len(daemon.config)
      BY DEF Boots
    <3> QED
      BY <1>1, <3>1, <3>2, <3>3, <3>4 DEF NextPair
  <2>2. quiet' \subseteq PairNames
    <3>1. daemon.pair <= Len(daemon.config) => Current \in PairNames
      BY CurrentIsPair DEF Boots
    <3> QED
      BY <1>1, <3>1 DEF NextPair
  <2> QED
    BY <1>1, <2>1, <2>2 DEF NextPair
<1>2. ASSUME Look PROVE TypeOK'
  <2>1. daemon' \in Boots /\ daemon'.pair = daemon.pair /\ daemon'.config = daemon.config
    BY <1>2 DEF Look, Boots, Steps, Sides, Other
  <2> QED
    BY <1>2, <2>1 DEF Look
<1>3. ASSUME Fetch PROVE TypeOK'
  <2>1. daemon' \in Boots /\ daemon'.pair = daemon.pair /\ daemon'.config = daemon.config
    BY <1>3 DEF Fetch, Boots, Steps, Sides, ToSeed
  <2>2. Current \in PairNames /\ daemon.side \in Sides
    BY <1>3, CurrentIsPair DEF Fetch, Boots
  <2>3. BranchesAt(Current, daemon.side) \in [Branches -> Tips]
    BY <2>2 DEF BranchesAt, Refs
  <2>4. base' \in [PairNames -> [Sides -> [Branches -> Tips]]]
    BY <1>3, <2>2, <2>3 DEF Fetch
  <2> QED
    BY <1>3, <2>1, <2>4 DEF Fetch
<1>4. ASSUME Recheck PROVE TypeOK'
  <2>1. daemon' \in Boots /\ (Booting' => daemon'.pair \in 1..Len(daemon'.config))
    BY <1>4, <1>0 DEF Recheck, Boots, Steps, Sides, Fatal
  <2> QED
    BY <1>4, <2>1 DEF Recheck
<1>5. ASSUME Seed PROVE TypeOK'
  <2>1. daemon' \in Boots /\ (Booting' => daemon'.pair \in 1..Len(daemon'.config))
    BY <1>5, <1>0 DEF Seed, Boots, Steps, Sides, Fatal
  <2>2. Current \in PairNames /\ daemon.side \in Sides /\ Other(daemon.side) \in Sides
    BY <1>5, CurrentIsPair DEF Seed, Boots, Sides, Other
  <2>3. remote' \in [PairNames -> [Sides -> [Refs -> Tips]]]
    <3>1. CASE UNCHANGED remote
      BY <3>1
    <3> DEFINE new == [r \in Refs |-> IF r \in Branches /\ base[Current][Other(daemon.side)][r] # None
                                     THEN base[Current][Other(daemon.side)][r]
                                     ELSE remote[Current][daemon.side][r]]
    <3>2. new \in [Refs -> Tips]
      BY <2>2 DEF Refs
    <3>3. CASE remote' = [remote EXCEPT ![Current][daemon.side] = new]
      <4> HIDE DEF new
      <4> QED
        BY <2>2, <3>2, <3>3
    <3> QED
      BY <1>5, <3>1, <3>3 DEF Seed
  <2>4. incidents' \in Nat
    BY <1>5 DEF Seed
  <2> QED
    BY <1>5, <2>1, <2>3, <2>4 DEF Seed
<1>6. ASSUME Mark PROVE TypeOK'
  <2>1. daemon' \in Boots /\ ~Booting'
    <3>1. [daemon EXCEPT !.pc = "next", !.pair = @ + 1, !.empty = {}] \in {d \in Boots : d.pc = "next"}
      <4>1. daemon \in Boots /\ daemon.pair + 1 \in Nat \ {0}
        BY DEF Boots
      <4>2. ASSUME NEW k \in Nat \ {0}
            PROVE  [daemon EXCEPT !.pc = "next", !.pair = k, !.empty = {}] \in {d \in Boots : d.pc = "next"}
        BY ONLY <4>1, <4>2 DEF Boots, Steps
      <4> QED
        BY ONLY <4>1, <4>2
    <3> QED
      BY <1>6, <3>1 DEF Mark
  <2>2. Current \in PairNames
    BY <1>6, CurrentIsPair DEF Mark
  <2> QED
    BY <1>6, <2>1, <2>2 DEF Mark
<1> QED
  BY <1>1, <1>2, <1>3, <1>4, <1>5, <1>6 DEF BootStep

LEMMA NextTyped == TypeOK /\ [Next]_vars => TypeOK'
<1>1. TypeOK /\ UNCHANGED vars => TypeOK'
  BY DEF TypeOK, vars, ghosts, Booting
<1> QED
  BY <1>1, AddTyped, ServiceTyped, UserTyped, BootTyped DEF Next

\* Every variable keeps its type, and the daemon only bootstraps pairs of the
\* configuration it loaded.
THEOREM TypeCorrect == Spec => []TypeOK
  BY InitTyped, NextTyped, PTL DEF Spec

-----------------------------------------------------------------------------
(* What pair add writes *)

KeysApart(c) ==
  /\ c # <<>>
  /\ \A x, y \in Places(c) : SeenAs(RepoAt(c, x)) = SeenAs(RepoAt(c, y)) => x = y

LEMMA DefaultsKeepApart ==
  ASSUME NEW c \in Seq(Pairs)
  PROVE  KeysApart(c) <=> KeysApart(WithDefaults(c))
<1>1. WithDefaults(c) \in Seq(Pairs) /\ DOMAIN WithDefaults(c) = DOMAIN c
  BY DefaultsTyped
<1>2. Places(WithDefaults(c)) = Places(c)
  BY <1>1 DEF Places
<1>3. c # <<>> <=> WithDefaults(c) # <<>>
  BY <1>1
<1> QED
  BY <1>2, <1>3, DefaultsKeepKeys DEF KeysApart

LEMMA ApartRoutes ==
  ASSUME TypeOK, KeysApart(file)
  PROVE  RoutesApart
<1>1. ASSUME NEW provider \in Providers, NEW fullName \in AsciiNames,
             NEW x \in FindPair(file, provider, fullName),
             NEW y \in FindPair(file, provider, fullName),
             RepoAt(file, x).fullName \in AsciiNames, RepoAt(file, y).fullName \in AsciiNames
      PROVE  x = y
  <2>1. x \in Places(file) /\ y \in Places(file) /\ file \in Seq(Pairs)
    BY DEF FindPair, TypeOK
  <2>2. SeenAs(RepoAt(file, x)) = SeenAs(RepoAt(file, y))
    BY <1>1, <2>1, AsciiKeys, PlacesTyped DEF FindPair
  <2> QED
    BY <2>1, <2>2 DEF KeysApart
<1> QED
  BY <1>1 DEF RoutesApart, KeysApart

LEMMA NextKeepsApart ==
  ASSUME TypeOK, KeysApart(file), [Next]_vars
  PROVE  KeysApart(file)'
<1>1. ASSUME NEW a \in Adders, NEW p \in NewPairs, AddWrites(a, p)
      PROVE  KeysApart(file)'
  <2> DEFINE c == WithPair(adding[a], p)
  <2>1. c \in Seq(Pairs)
    BY DaemonAssumption DEF TypeOK, WithPair
  <2>2. Validate(c) /\ file' = WithDefaults(c)
    BY <1>1 DEF AddWrites
  <2> HIDE DEF c
  <2>3. KeysApart(c)
    BY <2>2 DEF Validate, KeysApart
  <2>4. KeysApart(WithDefaults(c))
    BY <2>1, <2>3, DefaultsKeepApart
  <2> QED
    BY <2>2, <2>4
<1>2. file' = file \/ \E a \in Adders, p \in NewPairs : AddWrites(a, p)
  BY DEF Next, AddStep, AddLoads, AddEnds, UserStep, UserMove, ServiceStep, Start, GiveUp,
         MinutePasses, BootStep, NextPair, Look, Fetch, Recheck, Seed, Mark, Dies, ListenFails,
         Settled, vars
<1> QED
  BY <1>1, <1>2

\* Whatever pair adds wrote beside each other, of the repositories with ASCII
\* names an event names at most one side of one pair of the file.
THEOREM RoutesStayApart == Spec => []RoutesApart
<1>1. Init => KeysApart(file)
  <2> SUFFICES ASSUME Init PROVE KeysApart(file)
    OBVIOUS
  <2>1. KeysApart(WithDefaults(InitialFile))
    BY DaemonAssumption DEF KeysApart, Validate
  <2> QED
    BY <2>1, DefaultsKeepApart, DaemonAssumption DEF Init
<1>2. TypeOK /\ KeysApart(file) /\ [Next]_vars => KeysApart(file)'
  BY NextKeepsApart
<1>3. TypeOK /\ KeysApart(file) => RoutesApart
  BY ApartRoutes
<1> QED
  BY <1>1, <1>2, <1>3, TypeCorrect, PTL DEF Spec

-----------------------------------------------------------------------------
(* What bootstrap does to the remotes *)

LEMMA SeedCreates ==
  ASSUME TypeOK, Seed, NEW n \in PairNames, NEW s \in Sides, remote'[n][s] # remote[n][s]
  PROVE  /\ n = Current /\ s = daemon.side
         /\ \A r \in Refs : remote[n][s][r] # None => remote'[n][s][r] = remote[n][s][r]
         /\ \A b \in Branches :
              base[n][Other(s)][b] # None => remote'[n][s][b] = base[n][Other(s)][b]
<1> DEFINE source == base[Current][Other(daemon.side)]
           new == [r \in Refs |-> IF r \in Branches /\ source[r] # None THEN source[r]
                                  ELSE remote[Current][daemon.side][r]]
<1>1. Current \in PairNames /\ daemon.side \in Sides
  BY CurrentIsPair DEF Seed, TypeOK, Booting, Boots
<1>2. /\ remote' = [remote EXCEPT ![Current][daemon.side] = new]
      /\ \A b \in Branches : Leased(remote[Current][daemon.side][b], source[b])
  BY DEF Seed
<1>3. \A r \in Refs : remote[Current][daemon.side][r] # None => new[r] = remote[Current][daemon.side][r]
  BY <1>2 DEF Leased
<1>4. \A b \in Branches : source[b] # None => new[b] = source[b]
  BY DEF Refs
<1> HIDE DEF new
<1>5. n = Current /\ s = daemon.side /\ remote'[n][s] = new
  BY <1>1, <1>2 DEF TypeOK
<1> QED
  BY <1>3, <1>4, <1>5

\* Bootstrap creates branches that did not exist, all of those it fetched from
\* the other side, and changes no ref that exists, whatever people do meanwhile.
THEOREM OnlyNewBranches == Spec => SeedsOnlyNew
<1> DEFINE Safe(n, s) ==
      remote'[n][s] # remote[n][s] /\ moves' = moves =>
        /\ \A r \in Refs : remote[n][s][r] # None => remote'[n][s][r] = remote[n][s][r]
        /\ \A b \in Branches :
             base[n][Other(s)][b] # None => remote'[n][s][b] = base[n][Other(s)][b]
<1>1. ASSUME TypeOK, [Next]_vars, NEW n \in PairNames, NEW s \in Sides
      PROVE  Safe(n, s)
  <2>1. UserStep => moves' # moves
    BY <1>1 DEF UserStep, UserMove, TypeOK
  <2>2. remote' = remote \/ Seed \/ UserStep
    BY <1>1 DEF Next, AddStep, AddLoads, AddEnds, AddWrites, ServiceStep, Start, GiveUp,
           MinutePasses, BootStep, NextPair, Look, Fetch, Recheck, Mark, Dies, ListenFails, vars
  <2> QED
    BY <1>1, <2>1, <2>2, SeedCreates
<1>2. TypeOK /\ [Next]_vars => [\A n \in PairNames, s \in Sides : Safe(n, s)]_vars
  BY <1>1
<1> QED
  BY <1>2, TypeCorrect, PTL DEF Spec, SeedsOnlyNew

-----------------------------------------------------------------------------
(* What the marker stands for *)

\* The pairs before the one the daemon is at are marked.
PairsBeforeMarked ==
  /\ Alive => \A i \in DOMAIN daemon.config : i < daemon.pair => daemon.config[i].name \in marked
  /\ daemon.pc = "serving" => daemon.pair > Len(daemon.config)
  /\ Booting => Current \notin marked

LEMMA OrderKept == TypeOK /\ PairsBeforeMarked /\ [Next]_vars => PairsBeforeMarked'
<1> SUFFICES ASSUME TypeOK, PairsBeforeMarked, [Next]_vars PROVE PairsBeforeMarked'
  OBVIOUS
<1> USE DEF PairsBeforeMarked, Alive, Booting, Current, Settled
<1>0. daemon.config \in Seq(Pairs) /\ daemon.pair \in Nat \ {0}
  BY DEF TypeOK, Boots
<1>1. CASE UNCHANGED <<daemon, marked>>
  BY <1>1
<1>2. CASE daemon'.pc \in {"down", "failed", "exited"} /\ UNCHANGED marked
  BY <1>2
<1>3. CASE Start
  <2>1. daemon' = daemon \/ (daemon'.pc = "next" /\ daemon'.pair = 1)
    BY <1>3 DEF Start, Down
  <2>2. WithDefaults(file) \in Seq(Pairs)
    BY DefaultsTyped DEF TypeOK
  <2>3. daemon'.pc = "next" => daemon' = daemon \/ daemon'.config = WithDefaults(file)
    BY <1>3 DEF Start, Down
  <2> QED
    BY <1>3, <2>1, <2>2, <2>3, <1>1 DEF Start
<1>4. CASE NextPair
  <2>1. UNCHANGED marked /\ daemon'.config = daemon.config
    BY <1>4 DEF NextPair, TypeOK, Boots
  <2>2. CASE daemon.pair > Len(daemon.config)
    <3>1. daemon'.pc = "serving" /\ daemon'.pair = daemon.pair
      BY <1>4, <1>0, <2>2 DEF NextPair, TypeOK, Boots
    <3> QED
      BY <1>4, <2>1, <2>2, <3>1 DEF NextPair
  <2>3. CASE daemon.pair <= Len(daemon.config) /\ Current \in marked
    <3>1. daemon'.pc = "next" /\ daemon'.pair = daemon.pair + 1
      BY <1>4, <1>0, <2>3 DEF NextPair, TypeOK, Boots
    <3> QED
      BY <1>0, <1>4, <2>1, <2>3, <3>1 DEF NextPair
  <2>4. CASE daemon.pair <= Len(daemon.config) /\ Current \notin marked
    <3>1. daemon'.pc = "look" /\ daemon'.pair = daemon.pair
      <4>1. daemon' = [daemon EXCEPT !.pc = "look", !.side = "left", !.empty = {}]
        BY <1>0, <1>4, <2>4 DEF NextPair
      <4>2. daemon \in Boots
        BY DEF TypeOK
      <4> QED
        BY ONLY <4>1, <4>2 DEF Boots
    <3> QED
      BY <1>4, <2>1, <2>4, <3>1 DEF NextPair
  <2> QED
    BY <1>0, <2>2, <2>3, <2>4
<1>5. CASE Mark
  <2>1. daemon'.pc = "next" /\ daemon'.pair = daemon.pair + 1 /\ daemon'.config = daemon.config
    BY <1>5 DEF Mark, TypeOK, Boots
  <2> QED
    BY <1>5, <2>1, <1>0 DEF Mark
<1>6. CASE Look \/ Fetch \/ Recheck \/ Seed
  <2>1. UNCHANGED marked /\ Booting
    BY <1>6 DEF Look, Fetch, Recheck, Seed
  <2>2. \/ daemon' = Down
        \/ /\ daemon'.pair = daemon.pair /\ daemon'.config = daemon.config
           /\ daemon'.pc \in {"look", "fetch", "recheck", "seed", "mark"}
    BY <1>6 DEF Look, Fetch, Recheck, Seed, Goto, Fatal, TypeOK, Boots
  <2> QED
    BY <2>1, <2>2 DEF Down
<1>7. CASE Dies \/ ListenFails \/ GiveUp
  BY <1>7, <1>2 DEF Dies, ListenFails, GiveUp, Fatal, Down
<1>8. CASE AddStep \/ UserStep \/ MinutePasses
  BY <1>8, <1>1 DEF AddStep, AddLoads, AddEnds, AddWrites, UserStep, UserMove, MinutePasses
<1> QED
  BY <1>1, <1>3, <1>4, <1>5, <1>6, <1>7, <1>8 DEF Next, ServiceStep, BootStep, vars

\* The daemon works only when every pair of the configuration it loaded went
\* through its bootstrap, however often it died in one.
THEOREM WorkAfterBootstrap == Spec => []BootstrappedBeforeWork
<1>1. Init => PairsBeforeMarked
  BY DEF Init, PairsBeforeMarked, Alive, Booting, Down
<1>2. TypeOK /\ PairsBeforeMarked => BootstrappedBeforeWork
  BY DEF PairsBeforeMarked, BootstrappedBeforeWork, NamesOf, Alive, TypeOK, Boots
<1> QED
  BY <1>1, <1>2, OrderKept, TypeCorrect, PTL DEF Spec

Whole(n) ==
  \A s \in Sides : Advertised(n, s) = {} => \A b \in Branches : remote[n][Other(s)][b] = None

Looked(s) ==
  daemon.pc \in {"fetch", "recheck", "seed"} \/ (daemon.pc = "look" /\ daemon.side = "right" /\ s = "left")
Fetched(s) ==
  daemon.pc \in {"recheck", "seed"} \/ (daemon.pc = "fetch" /\ daemon.side = "right" /\ s = "left")

\* What the daemon read of the pair it bootstraps is still so, if nobody pushed.
Knows ==
  /\ \A s \in Sides : Looked(s) => (s \in daemon.empty <=> Advertised(Current, s) = {})
  /\ \A s \in Sides : Fetched(s) => base[Current][s] = BranchesAt(Current, s)
  /\ daemon.pc = "mark" => Whole(Current)

Decided ==
  /\ daemon.pc = "look" => \A s \in daemon.empty : Looked(s)
  /\ daemon.pc \in {"recheck", "seed"} => daemon.side \in daemon.empty /\ Other(daemon.side) \notin daemon.empty

SeedInv ==
  /\ Booting => Decided
  /\ Booting /\ Current \in quiet => Knows
  /\ \A n \in marked \intersect quiet : Whole(n)

\* No step of the daemon but Seed changes a remote.
LEMMA BootKnows ==
  TypeOK /\ PairsBeforeMarked /\ SeedInv /\ BootStep => SeedInv'
<1> SUFFICES ASSUME TypeOK, PairsBeforeMarked, SeedInv PROVE BootStep => SeedInv'
  OBVIOUS
<1> USE DEF Settled, Booting
<1>0. daemon \in Boots /\ daemon.config \in Seq(Pairs) /\ daemon.pair \in Nat \ {0}
  BY DEF TypeOK, Boots
<1>1. ASSUME NextPair PROVE SeedInv'
  <2>1. CASE daemon.pair <= Len(daemon.config) /\ Current \notin marked
    <3>1. daemon' = [daemon EXCEPT !.pc = "look", !.side = "left", !.empty = {}]
      BY <1>0, <1>1, <2>1 DEF NextPair
    <3>2. /\ daemon'.pc = "look" /\ daemon'.side = "left" /\ daemon'.empty = {}
          /\ daemon'.pair = daemon.pair /\ daemon'.config = daemon.config
      BY ONLY <1>0, <3>1 DEF Boots
    <3>3. UNCHANGED <<remote, base, marked>> /\ quiet' = quiet \union {Current}
      BY <1>0, <1>1, <2>1 DEF NextPair
    <3> QED
      BY <2>1, <3>2, <3>3
      DEF SeedInv, Decided, Knows, Looked, Fetched, Whole, Advertised, Current
  <2>2. CASE ~(daemon.pair <= Len(daemon.config) /\ Current \notin marked)
    <3>1. UNCHANGED <<remote, base, marked, quiet>> /\ ~Booting'
      BY <1>0, <1>1, <2>2 DEF NextPair, Boots
    <3> QED
      BY <3>1 DEF SeedInv, Whole, Advertised
  <2> QED
    BY <2>1, <2>2
<1>2. ASSUME Look PROVE SeedInv'
  <2> DEFINE seen == daemon.empty \union (IF Advertised(Current, daemon.side) = {} THEN {daemon.side} ELSE {})
             step == IF daemon.side = "left" THEN "look" ELSE "fetch"
  <2>1. daemon' = [daemon EXCEPT !.empty = seen, !.side = Other(@), !.pc = step]
    BY <1>2 DEF Look
  <2> HIDE DEF seen, step
  <2>2. /\ daemon'.empty = seen /\ daemon'.side = Other(daemon.side) /\ daemon'.pc = step
        /\ daemon'.pair = daemon.pair /\ daemon'.config = daemon.config
    BY ONLY <1>0, <2>1 DEF Boots
  <2>3. UNCHANGED <<remote, base, marked, quiet>> /\ daemon.pc = "look"
    BY <1>2 DEF Look
  <2>4. daemon.side \in Sides /\ daemon.empty \subseteq Sides
    BY <1>0 DEF Boots
  <2>5. Decided'
    BY <2>2, <2>3, <2>4 DEF Decided, Looked, SeedInv, Sides, Other, seen, step
  <2>6. ASSUME Knows PROVE Knows'
    <3>1. Current' = Current /\ \A n \in PairNames, s \in Sides : Advertised(n, s)' = Advertised(n, s)
      BY <2>2, <2>3 DEF Current, Advertised
    <3>2. Current \in PairNames
      BY <2>3, CurrentIsPair DEF TypeOK
    <3>3. \A s \in daemon.empty : Looked(s)
      BY <2>3 DEF SeedInv, Decided
    <3>4. CASE daemon.side = "left"
      <4>1. daemon.empty = {} /\ Other("left") = "right" /\ step = "look"
        BY <2>3, <3>3, <3>4 DEF Looked, Other, step
      <4>2. "left" \in seen <=> Advertised(Current, "left") = {}
        BY <3>4, <4>1 DEF seen
      <4> QED
        BY <2>2, <3>1, <3>2, <3>4, <4>1, <4>2 DEF Knows, Looked, Fetched, Sides
    <3>5. CASE daemon.side = "right"
      <4>1. "right" \notin daemon.empty /\ Other("right") = "left" /\ step = "fetch"
        BY <2>3, <3>3, <3>5 DEF Looked, Other, step
      <4>2. "left" \in daemon.empty <=> Advertised(Current, "left") = {}
        BY <2>3, <3>5, <2>6 DEF Knows, Looked, Sides
      <4>3. \A s \in Sides : s \in seen <=> Advertised(Current, s) = {}
        BY <3>5, <4>1, <4>2 DEF seen, Sides
      <4> QED
        BY <2>2, <3>1, <3>2, <3>5, <4>1, <4>3 DEF Knows, Looked, Fetched, Sides
    <3> QED
      BY <2>4, <3>4, <3>5 DEF Sides
  <2> QED
    BY <2>2, <2>3, <2>5, <2>6 DEF SeedInv, Current, Whole, Advertised
<1>3. ASSUME Fetch PROVE SeedInv'
  <2>0. daemon.pc = "fetch" /\ daemon.side \in Sides /\ daemon.empty \subseteq Sides
    BY <1>0, <1>3 DEF Fetch, Boots
  <2>1. Current \in PairNames
    BY <2>0, CurrentIsPair DEF TypeOK
  <2>2. /\ UNCHANGED <<remote, marked, quiet>>
        /\ base' = [base EXCEPT ![Current][daemon.side] = BranchesAt(Current, daemon.side)]
    BY <1>3 DEF Fetch
  <2>3. base'[Current][daemon.side] = BranchesAt(Current, daemon.side)
        /\ base'[Current][Other(daemon.side)] = base[Current][Other(daemon.side)]
    BY <2>0, <2>1, <2>2 DEF TypeOK, Sides, Other
  <2>4. /\ daemon'.pair = daemon.pair /\ daemon'.config = daemon.config /\ daemon'.empty = daemon.empty
        /\ Current' = Current
    BY <1>0, <1>3 DEF Fetch, Goto, Boots, Current
  <2>5. CASE daemon.side = "left"
    <3>1. daemon'.pc = "fetch" /\ daemon'.side = "right"
      BY <1>0, <1>3, <2>5 DEF Fetch, Goto, Boots
    <3>2. Knows => Knows'
      BY <2>0, <2>1, <2>2, <2>3, <2>4, <2>5, <3>1 DEF Knows, Looked, Fetched, Advertised, BranchesAt
    <3> QED
      BY <2>0, <2>2, <2>4, <3>1, <3>2 DEF SeedInv, Decided, Whole, Advertised
  <2>6. CASE daemon.side = "right" /\ ToSeed(daemon.empty) = {}
    <3>1. daemon'.pc = "mark"
      BY <1>0, <1>3, <2>6 DEF Fetch, Goto, Boots
    <3>2. daemon.empty = {} \/ daemon.empty = Sides
      BY <2>6 DEF ToSeed
    <3>3. Knows => Whole(Current)
      BY <2>0, <3>2 DEF Knows, Looked, Whole, Advertised, Sides, Other, Refs
    <3>4. Knows => Knows'
      BY <2>0, <2>2, <2>4, <3>1, <3>3 DEF Knows, Looked, Fetched, Advertised, Whole
    <3> QED
      BY <2>0, <2>2, <2>4, <3>1, <3>4 DEF SeedInv, Decided, Whole, Advertised
  <2>7. CASE daemon.side = "right" /\ ToSeed(daemon.empty) # {}
    <3>1. daemon'.pc = "recheck" /\ daemon'.side \in ToSeed(daemon.empty)
      BY <1>0, <1>3, <2>7 DEF Fetch, Goto, Boots
    <3>2. daemon'.side \in daemon.empty /\ Other(daemon'.side) \notin daemon.empty
      BY <2>0, <3>1 DEF ToSeed, Sides, Other
    <3>3. Knows => \A s \in Sides : base'[Current][s] = BranchesAt(Current, s)
      BY <2>0, <2>3, <2>7 DEF Knows, Fetched, Sides, Other
    <3>4. Knows => Knows'
      BY <2>0, <2>2, <2>4, <3>1, <3>3 DEF Knows, Looked, Fetched, Advertised, BranchesAt
    <3> QED
      BY <2>0, <2>2, <2>4, <3>1, <3>2, <3>4 DEF SeedInv, Decided, Whole, Advertised
  <2> QED
    BY <2>0, <2>5, <2>6, <2>7 DEF Sides
<1>4. ASSUME Recheck PROVE SeedInv'
  <2>0. daemon.pc = "recheck" /\ daemon.side \in Sides /\ Other(daemon.side) \in Sides
    BY <1>0, <1>4 DEF Recheck, Boots, Sides, Other
  <2>1. UNCHANGED <<remote, base, marked, quiet>>
    BY <1>4 DEF Recheck
  <2>2. CASE daemon' = Down
    BY <2>1, <2>2 DEF SeedInv, Down, Whole, Advertised
  <2>3. CASE Goto("seed", daemon.side)
    <3>1. /\ daemon'.pc = "seed" /\ daemon'.side = daemon.side /\ daemon'.empty = daemon.empty
          /\ Current' = Current
      BY <1>0, <2>3 DEF Goto, Boots, Current
    <3>2. Knows => Knows'
      BY <2>0, <2>1, <3>1 DEF Knows, Looked, Fetched, Advertised, BranchesAt
    <3> QED
      BY <2>0, <2>1, <3>1, <3>2 DEF SeedInv, Decided, Whole, Advertised
  <2>4. CASE Goto("mark", "left") /\ SeedsFor(Current, daemon.side) = {}
    <3>1. daemon'.pc = "mark" /\ daemon'.empty = daemon.empty /\ Current' = Current
      BY <1>0, <2>4 DEF Goto, Boots, Current
    <3>2. daemon.side \in daemon.empty /\ Other(daemon.side) \notin daemon.empty
      BY <2>0 DEF SeedInv, Decided
    <3>3. ASSUME Knows PROVE Whole(Current)
      <4>1. \A b \in Branches : remote[Current][Other(daemon.side)][b] = None
        BY <2>0, <2>4, <3>3 DEF Knows, Fetched, SeedsFor, BranchesAt
      <4>2. Advertised(Current, Other(daemon.side)) # {}
        BY <2>0, <3>2, <3>3 DEF Knows, Looked
      <4> QED
        BY <2>0, <4>1, <4>2 DEF Whole, Sides, Other
    <3>4. Knows => Knows'
      BY <2>0, <2>1, <3>1, <3>3 DEF Knows, Looked, Fetched, Advertised, Whole
    <3> QED
      BY <2>0, <2>1, <3>1, <3>4 DEF SeedInv, Decided, Whole, Advertised
  <2> QED
    BY <1>4, <2>2, <2>3, <2>4 DEF Recheck, Fatal
<1>5. ASSUME Seed PROVE SeedInv'
  <2>0. daemon.pc = "seed" /\ daemon.side \in Sides /\ Other(daemon.side) \in Sides
        /\ Other(daemon.side) # daemon.side
    BY <1>0, <1>5 DEF Seed, Boots, Sides, Other
  <2>1. UNCHANGED <<base, marked, quiet>> /\ Current \in PairNames /\ Current \notin marked
    BY <1>5, <2>0, CurrentIsPair DEF Seed, PairsBeforeMarked, TypeOK
  <2> DEFINE source == base[Current][Other(daemon.side)]
             new == [r \in Refs |-> IF r \in Branches /\ source[r] # None THEN source[r]
                                    ELSE remote[Current][daemon.side][r]]
  <2>2. remote' = remote \/ remote' = [remote EXCEPT ![Current][daemon.side] = new]
    BY <1>5 DEF Seed
  <2>3. \A n \in PairNames : n # Current => remote'[n] = remote[n]
    BY <2>1, <2>2 DEF TypeOK
  <2>4. \A n \in marked \intersect quiet : Whole(n)'
    <3>1. marked \subseteq PairNames
      BY DEF TypeOK
    <3> QED
      BY <2>1, <2>3, <3>1 DEF SeedInv, Whole, Advertised
  <2>5. CASE daemon' = Down
    BY <2>1, <2>4, <2>5 DEF SeedInv, Down
  <2>6. CASE Goto("mark", "left") /\ remote' = [remote EXCEPT ![Current][daemon.side] = new]
    <3>1. daemon'.pc = "mark" /\ daemon'.empty = daemon.empty /\ Current' = Current
      BY <1>0, <2>6 DEF Goto, Boots, Current
    <3>2. Other(daemon.side) \notin daemon.empty
      BY <2>0 DEF SeedInv, Decided
    <3>3. /\ remote'[Current][daemon.side] = new
          /\ remote'[Current][Other(daemon.side)] = remote[Current][Other(daemon.side)]
      BY <2>0, <2>1, <2>6 DEF TypeOK
    <3>4. ASSUME Knows PROVE Whole(Current)'
      <4>1. Advertised(Current, Other(daemon.side)) # {}
        BY <2>0, <3>2, <3>4 DEF Knows, Looked
      <4>2. PICK r \in Refs : remote'[Current][Other(daemon.side)][r] # None
        BY <3>3, <4>1 DEF Advertised
      <4>3. source = BranchesAt(Current, Other(daemon.side))
        BY <2>0, <3>4 DEF Knows, Fetched
      <4>4. ASSUME \A q \in Refs : remote'[Current][daemon.side][q] = None, NEW b \in Branches
            PROVE  remote'[Current][Other(daemon.side)][b] = None
        <5>1. b \in Refs /\ new[b] = None
          BY <3>3, <4>4 DEF Refs
        <5> QED
          BY <3>3, <4>3, <5>1 DEF BranchesAt
      <4> HIDE DEF new, source
      <4>5. ASSUME NEW s \in Sides, \A q \in Refs : remote'[Current][s][q] = None
            PROVE  \A b \in Branches : remote'[Current][Other(s)][b] = None
        BY <2>0, <4>2, <4>4, <4>5 DEF Sides, Other
      <4> QED
        BY <3>1, <4>5 DEF Whole, Advertised
    <3>5. Knows => Knows'
      BY <3>1, <3>4 DEF Knows, Looked, Fetched
    <3> QED
      BY <2>0, <2>1, <2>4, <3>1, <3>5 DEF SeedInv, Decided
  <2> QED
    BY <1>5, <2>5, <2>6 DEF Seed, Fatal
<1>6. ASSUME Mark PROVE SeedInv'
  <2>1. daemon.pc = "mark" /\ UNCHANGED <<remote, quiet>> /\ marked' = marked \union {Current}
    BY <1>6 DEF Mark
  <2>2. daemon'.pc = "next"
    BY <1>0, <1>6 DEF Mark, Boots
  <2> QED
    BY <2>1, <2>2 DEF SeedInv, Knows, Whole, Advertised
<1> QED
  BY <1>1, <1>2, <1>3, <1>4, <1>5, <1>6 DEF BootStep

LEMMA OthersKnow ==
  TypeOK /\ SeedInv /\ (AddStep \/ UserStep \/ ServiceStep \/ MinutePasses \/ Dies \/ ListenFails
                      \/ UNCHANGED vars) => SeedInv'
<1> SUFFICES ASSUME TypeOK, SeedInv
             PROVE  (AddStep \/ UserStep \/ ServiceStep \/ MinutePasses \/ Dies \/ ListenFails
                      \/ UNCHANGED vars) => SeedInv'
  OBVIOUS
<1> USE DEF Booting, Settled
<1>1. ASSUME UNCHANGED <<remote, base, marked, quiet>>, UNCHANGED daemon \/ ~Booting'
      PROVE  SeedInv'
  BY <1>1 DEF SeedInv, Decided, Knows, Looked, Fetched, Whole, Advertised, BranchesAt, Current
<1>2. ASSUME UserStep PROVE SeedInv'
  <2>1. PICK n \in NamesOf(file) : \E s \in Sides, r \in Refs, tip \in Tips : UserMove(n, s, r, tip)
    BY <1>2 DEF UserStep
  <2>2. \A m \in PairNames : m # n => remote'[m] = remote[m]
    BY <2>1 DEF UserMove, TypeOK
  <2>3. quiet' = quiet \ {n} /\ UNCHANGED <<base, marked, daemon>> /\ quiet \subseteq PairNames
    BY <2>1 DEF UserMove, TypeOK
  <2>4. \A m \in quiet' : remote'[m] = remote[m]
    BY <2>2, <2>3
  <2>5. \A m \in quiet' : Whole(m) => Whole(m)'
    BY <2>4 DEF Whole, Advertised
  <2>6. Booting /\ Current \in quiet' => Knows'
    BY <2>3, <2>4, <2>5 DEF SeedInv, Knows, Looked, Fetched, Advertised, BranchesAt, Current
  <2>7. Decided => Decided'
    BY <2>3 DEF Decided, Looked
  <2> QED
    BY <2>3, <2>5, <2>6, <2>7 DEF SeedInv, Current
<1>3. ASSUME ServiceStep PROVE SeedInv'
  <2>1. UNCHANGED daemon \/ ~Booting'
    BY <1>3 DEF ServiceStep, Start, GiveUp, Down
  <2> QED
    BY <1>1, <1>3, <2>1 DEF ServiceStep, Start, GiveUp
<1>4. ASSUME Dies \/ ListenFails PROVE SeedInv'
  <2>1. ~Booting'
    BY <1>4 DEF Dies, ListenFails, Fatal, Down
  <2> QED
    BY <1>1, <1>4, <2>1 DEF Dies, ListenFails
<1>5. ASSUME AddStep \/ MinutePasses \/ UNCHANGED vars PROVE SeedInv'
  BY <1>1, <1>5 DEF AddStep, AddLoads, AddEnds, AddWrites, MinutePasses, vars, ghosts
<1> QED
  BY <1>2, <1>3, <1>4, <1>5

\* The marker never hides a seed that did not happen: unless somebody pushed to
\* it since, a marked pair is not left with branches on one side and nothing on
\* the other, wherever earlier bootstraps died.
THEOREM MarkerIsHonest == Spec => []NoSeedSkipped
<1>1. Init => PairsBeforeMarked /\ SeedInv
  BY DEF Init, PairsBeforeMarked, SeedInv, Alive, Booting, Down
<1>2. TypeOK /\ PairsBeforeMarked /\ SeedInv /\ [Next]_vars => SeedInv'
  BY BootKnows, OthersKnow DEF Next
<1>3. SeedInv => NoSeedSkipped
  BY DEF SeedInv, NoSeedSkipped, Whole
<1> QED
  BY <1>1, <1>2, <1>3, OrderKept, TypeCorrect, PTL DEF Spec

-----------------------------------------------------------------------------
(* What the starts are spent on *)

Owed == incidents + moves

\* Every start that systemd counts but the one that is running, and that one too
\* once somebody pushed to the pair it bootstraps, has its failure or its push.
StartsOwed ==
  /\ daemon.pc = "failed" => StartLimitBurst <= Owed
  /\ daemon.pc = "down" => starts <= Owed
  /\ Alive => starts <= Owed + 1
  /\ Booting /\ Current \notin quiet => starts <= Owed

\* What the daemon finds on the side to seed is somebody's push since it looked.
LEMMA OnlyPushesSpoil ==
  ASSUME TypeOK, SeedInv, daemon.pc \in {"recheck", "seed"},
         Advertised(Current, daemon.side) # {}
  PROVE  Current \notin quiet
<1>1. daemon.side \in Sides /\ daemon.side \in daemon.empty
  BY DEF TypeOK, Boots, SeedInv, Booting, Decided
<1> QED
  BY <1>1 DEF SeedInv, Booting, Knows, Looked

LEMMA BootOwed ==
  TypeOK /\ SeedInv /\ StartsOwed /\ BootStep => StartsOwed'
<1> SUFFICES ASSUME TypeOK, SeedInv, StartsOwed, BootStep PROVE StartsOwed'
  OBVIOUS
<1> USE DEF StartsOwed, Owed, Alive, Booting, Settled
<1>0. /\ daemon \in Boots /\ starts \in Nat /\ incidents \in Nat /\ moves \in Nat
      /\ StartLimitBurst \in Nat
  BY DaemonAssumption DEF TypeOK
<1>1. ASSUME UNCHANGED <<starts, moves, incidents>>, daemon'.pc \in Steps \ {"down", "failed", "exited"},
             Alive, Booting' => Current' \in quiet' \/ (Booting /\ (Current \in quiet => Current' \in quiet'))
      PROVE  StartsOwed'
  BY <1>0, <1>1
<1>2. ASSUME NextPair PROVE StartsOwed'
  <2>1. CASE daemon.pair <= Len(daemon.config) /\ Current \notin marked
    <3>1. daemon' = [daemon EXCEPT !.pc = "look", !.side = "left", !.empty = {}]
      BY <1>0, <1>2, <2>1 DEF NextPair, Boots
    <3>2. daemon'.pc = "look" /\ daemon'.pair = daemon.pair /\ daemon'.config = daemon.config
      BY ONLY <1>0, <3>1 DEF Boots
    <3>3. quiet' = quiet \union {Current} /\ UNCHANGED <<starts, moves, incidents>> /\ Alive
      BY <1>0, <1>2, <2>1 DEF NextPair, Boots
    <3> QED
      BY <1>1, <3>2, <3>3 DEF Steps, Current
  <2>2. CASE ~(daemon.pair <= Len(daemon.config) /\ Current \notin marked)
    <3>1. daemon'.pc \in {"next", "serving"}
      BY <1>0, <1>2, <2>2 DEF NextPair, Boots
    <3> QED
      BY <1>1, <1>2, <3>1 DEF NextPair, Steps
  <2> QED
    BY <2>1, <2>2
<1>3. ASSUME Look \/ Fetch PROVE StartsOwed'
  <2>1. /\ daemon'.pc \in {"look", "fetch", "mark", "recheck"} /\ Current' = Current
        /\ UNCHANGED <<starts, moves, incidents, quiet>> /\ daemon.pc \in {"look", "fetch"}
    BY <1>0, <1>3 DEF Look, Fetch, Goto, Boots, Current
  <2> QED
    BY <1>1, <2>1 DEF Steps
<1>4. ASSUME Recheck PROVE StartsOwed'
  <2>1. CASE Advertised(Current, daemon.side) # {}
    <3>1. Current \notin quiet /\ daemon'.pc = "down" /\ daemon.pc = "recheck"
      BY <1>4, <2>1, OnlyPushesSpoil DEF Recheck, Fatal, Down
    <3> QED
      BY <1>0, <1>4, <3>1 DEF Recheck
  <2>2. CASE Advertised(Current, daemon.side) = {}
    <3>1. /\ daemon'.pc \in {"mark", "seed"} /\ Current' = Current /\ daemon.pc = "recheck"
          /\ UNCHANGED <<starts, moves, incidents, quiet>>
      BY <1>0, <1>4, <2>2 DEF Recheck, Goto, Boots, Current
    <3> QED
      BY <1>1, <3>1 DEF Steps
  <2> QED
    BY <2>1, <2>2
<1>5. ASSUME Seed PROVE StartsOwed'
  <2>0. daemon.pc = "seed" /\ UNCHANGED <<starts, moves, quiet>>
    BY <1>5 DEF Seed
  <2>1. CASE Fatal /\ UNCHANGED incidents
             /\ ~\A b \in Branches : Leased(remote[Current][daemon.side][b],
                                            base[Current][Other(daemon.side)][b])
    <3>1. Advertised(Current, daemon.side) # {}
      BY <2>1 DEF Leased, Advertised, Refs
    <3>2. Current \notin quiet /\ daemon'.pc = "down"
      BY <2>0, <2>1, <3>1, OnlyPushesSpoil DEF Fatal, Down
    <3> QED
      BY <1>0, <2>0, <2>1, <3>2
  <2>2. CASE Goto("mark", "left") /\ UNCHANGED incidents
    <3>1. daemon'.pc = "mark" /\ Current' = Current
      BY <1>0, <2>2 DEF Goto, Boots, Current
    <3> QED
      BY <1>1, <2>0, <2>2, <3>1 DEF Steps
  <2>3. CASE Fatal /\ incidents' = incidents + 1
    <3>1. daemon'.pc = "down"
      BY <2>3 DEF Fatal, Down
    <3> QED
      BY <1>0, <2>0, <2>3, <3>1
  <2> QED
    BY <1>5, <2>1, <2>2, <2>3 DEF Seed
<1>6. ASSUME Mark PROVE StartsOwed'
  <2>1. daemon'.pc = "next" /\ daemon.pc = "mark"
    BY <1>0, <1>6 DEF Mark, Boots
  <2> QED
    BY <1>1, <1>6, <2>1 DEF Mark, Steps
<1> QED
  BY <1>2, <1>3, <1>4, <1>5, <1>6 DEF BootStep

LEMMA OthersOwed ==
  TypeOK /\ StartsOwed /\ SecretsPresent(WithDefaults(file)) /\ [Next]_vars => BootStep \/ StartsOwed'
<1> SUFFICES ASSUME TypeOK, StartsOwed, SecretsPresent(WithDefaults(file)), [Next]_vars, ~BootStep
             PROVE  StartsOwed'
  OBVIOUS
<1> USE DEF StartsOwed, Owed, Alive, Booting, Settled
<1>0. /\ starts \in Nat /\ incidents \in Nat /\ moves \in Nat /\ StartLimitBurst \in Nat
  BY DaemonAssumption DEF TypeOK
<1>1. CASE Start
  <2>1. daemon'.pc = "next" /\ starts' = starts + 1 /\ starts <= Owed /\ UNCHANGED <<moves, incidents>>
    BY <1>1 DEF Start, Down
  <2> QED
    BY <1>0, <2>1
<1>2. CASE GiveUp
  <2>1. daemon'.pc = "failed" /\ StartLimitBurst <= starts
    BY <1>0, <1>2 DEF GiveUp, Down, Counted
  <2> QED
    BY <1>0, <1>2, <2>1 DEF GiveUp
<1>3. CASE MinutePasses
  <2>1. starts' = 0 /\ UNCHANGED <<daemon, moves, incidents, quiet>>
    BY <1>3 DEF MinutePasses
  <2> QED
    BY <1>0, <1>3, <2>1 DEF MinutePasses
<1>4. CASE Dies \/ ListenFails
  <2>1. daemon'.pc \in {"down", "exited"} /\ UNCHANGED <<starts, moves>> /\ incidents' = incidents + 1
    BY <1>4 DEF Dies, ListenFails, Fatal, Down
  <2>2. starts <= Owed + 1
    BY <1>4 DEF Dies, ListenFails
  <2> QED
    BY <1>0, <2>1, <2>2
<1>5. CASE UserStep
  <2>1. UNCHANGED <<daemon, starts, incidents>> /\ moves' = moves + 1
    BY <1>5 DEF UserStep, UserMove
  <2> QED
    BY <1>0, <2>1
<1>6. CASE AddStep \/ UNCHANGED vars
  <2>1. UNCHANGED <<daemon, starts, moves, incidents, quiet>>
    BY <1>6 DEF AddStep, AddLoads, AddEnds, AddWrites, ghosts, vars
  <2> QED
    BY <2>1 DEF Current
<1> QED
  BY <1>1, <1>2, <1>3, <1>4, <1>5, <1>6 DEF Next, ServiceStep

\* A unit with its webhook secrets is given up only after as many failures or
\* pushes as systemd allows starts: a start alone gets through the bootstrap of
\* every pair, whatever was left by starts that died in one.
THEOREM StartsSuffice == Spec => GivenUpForCause
<1>1. Init => PairsBeforeMarked /\ SeedInv /\ StartsOwed
  <2>1. Init => PairsBeforeMarked /\ SeedInv
    BY DEF Init, PairsBeforeMarked, SeedInv, Alive, Booting, Down
  <2>2. Init => StartsOwed
    BY DEF Init, StartsOwed, Owed, Alive, Booting, Down
  <2> QED
    BY <2>1, <2>2
<1>2. TypeOK /\ PairsBeforeMarked /\ SeedInv /\ [Next]_vars => SeedInv'
  BY BootKnows, OthersKnow DEF Next
<1>3. TypeOK /\ SeedInv /\ StartsOwed /\ SecretsPresent(WithDefaults(file)) /\ [Next]_vars => StartsOwed'
  BY BootOwed, OthersOwed
<1>4. StartsOwed => (daemon.pc = "failed" => StartLimitBurst <= incidents + moves)
  BY DEF StartsOwed, Owed
<1> QED
  BY <1>1, <1>2, <1>3, <1>4, OrderKept, TypeCorrect, PTL DEF Spec, GivenUpForCause

==========================================================================
