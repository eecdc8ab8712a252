--------------------------- MODULE GeoFilesProofs ---------------------------
(***************************************************************************)
(* The geo files, for any number of updaters, profiles, chunks and events. *)
(* What is said of a file holds as long as no two writers have it in hand: *)
(* the ghost overlap, which every step brings up to date, makes the one    *)
(* writer of the others the only one that can change the file, its         *)
(* temporary file and its ETag.                                            *)
(***************************************************************************)
EXTENDS GeoFiles, TLAPS

\* An ETag, or a version, that a server has published.
Real(v) == v = <<v[1], v[2]>> /\ v[1] \in Profile /\ v[2] \in 1 .. release[v[1]]

Outdated(v) == v[2] < release[v[1]]

Part(v, n) == [i \in 1 .. n |-> v]

Working(u) == up[u].pc \notin {"idle", "restart"}

Installing(u) ==
    up[u].pc \in {"write", "check", "verify", "delete", "rename", "save"}

HandedOver(u, f) == up[u].file = f /\ up[u].pc \in {"rename", "save"}

-----------------------------------------------------------------------------
(* The inductive invariant. *)

\* The parts of TypeOK, with the versions known to be published ones.
Typed ==
    /\ dest \in [File -> Contents \cup {None}]
    /\ tmp \in [File -> Contents \cup {None}]
    /\ etag \in [File -> Version \cup {None}]
    /\ profile \in Profile /\ release \in [Profile -> 1 .. MaxEvents + 1]
    /\ up \in [Updater -> Record]
    /\ ex \in [pc : {"idle", "check", "open", "copy", "next"}, file : File,
               pos : 0 .. Chunks, open : {"dest", "gone"}]
    /\ clearing \in BOOLEAN /\ inited \in BOOLEAN
    /\ vpn \in {"down", "starting", "up"}
    /\ overlap \subseteq File /\ torn \subseteq File /\ lost \subseteq File
    /\ kept \subseteq File
    /\ stale \subseteq File /\ missed \subseteq File
    /\ left \in Nat

\* A release takes an event.
Bounded == \A p \in Profile : release[p] + left <= MaxEvents + 1

\* A stream that is in a file is in one that exists, with chunks to write.
Streams ==
    /\ \A u \in Updater :
        /\ Is(u, "write") => up[u].pos < Chunks
        /\ Is(u, "answer") => up[u].pos = 0
        /\ up[u].open = "tmp" => tmp[up[u].file] # None
        /\ up[u].open = "dest" => dest[up[u].file] # None
    /\ ex.pc = "copy" => ex.pos < Chunks
    /\ ex.pc \in {"check", "open"} => ex.pos = 0 /\ ex.open = "gone"
    /\ ex.open = "dest" => dest[ex.file] # None

\* Who has a file in hand is its only writer, unless that was noted.
Alone ==
    \A u \in Updater : \A f \in File \ overlap :
        InHand(u, f) =>
            /\ \A w \in Updater \ {u} : ~InHand(w, f)
            /\ ~(ex.file = f /\ ex.pc \in {"open", "copy"})

Published ==
    /\ \A f \in File : etag[f] # None => Real(etag[f])
    /\ \A u \in Updater : up[u].tag # None => Real(up[u].tag)
    /\ \A u \in Updater :
           Installing(u) => Real(up[u].got) /\ up[u].got[1] = up[u].prof

\* How far the one writer of a file has come with it.
Progress(u) ==
    up[u].file \notin overlap =>
        /\ Is(u, "write") => /\ up[u].open = "tmp"
                             /\ tmp[up[u].file] = Part(up[u].got, up[u].pos)
        /\ up[u].pc \in {"check", "verify", "delete", "rename"} =>
               tmp[up[u].file] = Whole(up[u].got)
        /\ Is(u, "save") => dest[up[u].file] = Whole(up[u].got)

\* The ETag is the one the updater has asked with, or was cleared since.
Asked(u) ==
    Is(u, "answer") /\ up[u].file \notin overlap =>
        etag[up[u].file] \in {None, up[u].tag}

\* A file is replaced only if its ETag is not the latest of the profile.
Replaces(u) ==
    Installing(u) /\ up[u].file \notin overlap =>
        \/ etag[up[u].file] = None
        \/ etag[up[u].file][1] # up[u].prof
        \/ Outdated(etag[up[u].file])

\* The extraction of a file that nobody else writes.
Extracting ==
    /\ ex.pc = "open" /\ ex.file \notin overlap => dest[ex.file] = None
    /\ ex.pc = "copy" /\ ex.file \notin overlap =>
           ex.open = "dest" /\ dest[ex.file] = Part(Asset, ex.pos)

\* There is no extraction once the core is initialised, and no engine before.
Phases ==
    /\ ex.pc # "idle" => ~inited
    /\ Running => inited
    /\ \A u \in Updater : Is(u, "restart") => inited
-----------------------------------------------------------------------------
(* The operators. *)

\* Contents of n chunks are a sequence of length n.
LEMMA PartLength ==
    ASSUME NEW v, NEW n \in Nat PROVE Len(Part(v, n)) = n
BY DEF Part

\* The chunk after the first n: FileOutputStream.write of the only writer.
LEMMA WriteNext ==
    ASSUME NEW v, NEW n \in Nat
    PROVE  WriteAt(Part(v, n), n + 1, v) = Part(v, n + 1)
<1>1. Len(Part(v, n)) = n
  BY PartLength
<1>2. \A i \in 1 .. n + 1 : i = n + 1 \/ i <= n
  OBVIOUS
<1>3. WriteAt(Part(v, n), n + 1, v) =
      [i \in 1 .. n + 1 |-> IF i = n + 1 THEN v
                            ELSE IF i <= n THEN Part(v, n)[i] ELSE None]
  BY <1>1 DEF WriteAt
<1>4. \A i \in 1 .. n + 1 : (IF i = n + 1 THEN v
                            ELSE IF i <= n THEN Part(v, n)[i] ELSE None) = v
  BY <1>2 DEF Part
<1>5. QED
  BY <1>3, <1>4 DEF Part

\* What a write leaves are contents of at most Chunks chunks, of a file that
\* is there.
LEMMA WriteTyped ==
    ASSUME NEW c \in Contents, NEW n \in 1 .. Chunks, NEW v \in Version
    PROVE  WriteAt(c, n, v) \in Contents /\ WriteAt(c, n, v) # None
<1>1. PICK k \in 0 .. Chunks : c \in [1 .. k -> Version \cup {None}]
  BY DEF Contents
<1>2. Len(c) = k /\ k \in Nat /\ Chunks \in Nat
  BY <1>1, GeoAssumption
<1> DEFINE m == IF k > n THEN k ELSE n
<1>3. m \in 0 .. Chunks
  BY <1>2
<1>4. WriteAt(c, n, v) = [i \in 1 .. m |-> IF i = n THEN v
                                          ELSE IF i <= k THEN c[i] ELSE None]
  BY <1>2 DEF WriteAt
<1>5. WriteAt(c, n, v) \in [1 .. m -> Version \cup {None}]
  BY <1>1, <1>2, <1>3, <1>4
<1>6. QED
  BY <1>3, <1>5, NoneAssumption DEF Contents

\* A whole file is one that is there and not small.
LEMMA WholeTyped ==
    ASSUME NEW v \in Version
    PROVE  Whole(v) \in Contents /\ Whole(v) # None /\ ~IsSmall(Whole(v))
<1>1. Chunks \in Nat /\ Chunks \in 0 .. Chunks /\ 1 \in 1 .. Chunks
  BY GeoAssumption
<1>2. Whole(v) \in [1 .. Chunks -> Version \cup {None}]
  BY DEF Whole
<1>3. Whole(v) \in Contents
  BY <1>1, <1>2 DEF Contents
<1>4. Whole(v) # <<>>
  BY <1>1 DEF Whole
<1>5. QED
  BY <1>3, <1>4, NoneAssumption DEF IsSmall

\* A part of a file is not the whole one.
LEMMA PartNotWhole ==
    ASSUME NEW v, NEW w, NEW n \in Nat, n < Chunks PROVE Part(v, n) # Whole(w)
<1>1. Len(Part(v, n)) = n /\ Len(Part(w, Chunks)) = Chunks
  BY PartLength, GeoAssumption
<1>2. Whole(w) = Part(w, Chunks)
  BY DEF Part, Whole
<1>3. QED
  BY <1>1, <1>2, GeoAssumption

\* The empty file is typed.
LEMMA EmptyTyped == <<>> \in Contents /\ <<>> # None
<1>1. <<>> \in [1 .. 0 -> Version \cup {None}] /\ 0 \in 0 .. Chunks
  BY GeoAssumption
<1>2. QED
  BY <1>1, NoneAssumption DEF Contents

\* A published version is one of those that the bounds allow.
LEMMA RealTyped ==
    ASSUME Typed, NEW v, Real(v) PROVE v \in Version /\ v # Asset /\ v # None
<1>1. v = <<v[1], v[2]>> /\ v[1] \in Profile /\ v[2] \in 1 .. MaxEvents + 1
  BY GeoAssumption DEF Real, Typed
<1>2. v \in Version
  BY <1>1 DEF Version
<1>3. QED
  BY <1>1, <1>2, GeoAssumption, NoneAssumption DEF Asset

\* The latest release of a profile is published.
LEMMA LatestReal ==
    ASSUME Typed, NEW p \in Profile PROVE Real(Latest(p)) /\ Latest(p)[1] = p
BY GeoAssumption DEF Typed, Latest, Real

\* downloadIfNew returns and the next one begins, or updateAll returns.
LEMMA NextFileFacts ==
    ASSUME Typed, NEW r \in Record
    PROVE  /\ NextFile(r) \in Record
           /\ NextFile(r).file = "geosite.dat" /\ NextFile(r).open = "gone"
           /\ NextFile(r).prof = r.prof /\ NextFile(r).updated = r.updated
           /\ NextFile(r).pos = 0
           /\ \/ /\ r.file = "geoip.dat" /\ NextFile(r).pc = "answer"
                 /\ NextFile(r).tag = etag["geosite.dat"]
                 /\ NextFile(r).early = Doubtful("geosite.dat", r.prof)
              \/ /\ r.file = "geosite.dat" /\ NextFile(r).pc = "end"
                 /\ NextFile(r).tag = None
<1>1. "geosite.dat" \in File /\ r.file \in File /\ Asset \in Version
      /\ etag["geosite.dat"] \in Version \cup {None} /\ 0 \in 0 .. Chunks
  BY GeoAssumption DEF Typed, File, Record, Version
<1>2. Doubtful("geosite.dat", r.prof) \in BOOLEAN
  BY DEF Doubtful
<1>3. CASE r.file = "geoip.dat"
  BY <1>1, <1>2, <1>3 DEF NextFile, Record
<1>4. CASE r.file = "geosite.dat"
  BY <1>1, <1>2, <1>4 DEF NextFile, Record
<1>5. QED
  BY <1>1, <1>3, <1>4 DEF File
-----------------------------------------------------------------------------
(* What the steps do, field by field. *)

\* An updater as it was, but for the file its stream is in.
Same(w) ==
    /\ up'[w].pc = up[w].pc /\ up'[w].file = up[w].file
    /\ up'[w].prof = up[w].prof /\ up'[w].tag = up[w].tag
    /\ up'[w].early = up[w].early /\ up'[w].got = up[w].got
    /\ up'[w].pos = up[w].pos /\ up'[w].updated = up[w].updated

\* The frame of updater u's steps: others only lose their stream, and only in
\* the file that u has in hand, which is the only one that changes.
Frame(u) ==
    /\ \A w \in Updater \ {u} :
           Same(w) /\ (~InHand(u, up[w].file) => up'[w] = up[w])
    /\ \A f \in File : ~InHand(u, f) =>
           /\ dest'[f] = dest[f] /\ tmp'[f] = tmp[f] /\ etag'[f] = etag[f]
           /\ (f \in kept' <=> f \in kept) /\ (f \in torn' <=> f \in torn)
           /\ (f \in lost' <=> f \in lost)
           /\ ex.file = f => ex' = ex
    /\ ex'.pc = ex.pc /\ ex'.file = ex.file /\ ex'.pos = ex.pos
    /\ profile' = profile /\ clearing' = clearing /\ release' = release
    /\ inited' = inited

\* Updater u goes to its next file, or to the end of updateAll.
Onward(u, done) ==
    /\ up'[u].file = "geosite.dat" /\ up'[u].open = "gone"
    /\ up'[u].prof = up[u].prof /\ up'[u].updated = done /\ up'[u].pos = 0
    /\ \/ /\ up[u].file = "geoip.dat" /\ up'[u].pc = "answer"
          /\ up'[u].tag = etag["geosite.dat"]
          /\ up'[u].early = Doubtful("geosite.dat", up[u].prof)
       \/ /\ up[u].file = "geosite.dat" /\ up'[u].pc = "end"
          /\ up'[u].tag = None

Began(u) ==
    /\ Is(u, "idle")
    /\ up'[u].pc = "answer" /\ up'[u].file = "geoip.dat"
    /\ up'[u].prof = profile /\ up'[u].tag = etag["geoip.dat"]
    /\ up'[u].early = Doubtful("geoip.dat", profile)
    /\ up'[u].updated = {} /\ up'[u].open = "gone" /\ up'[u].pos = 0
    /\ UNCHANGED <<dest, etag, kept, torn, lost, vpn, missed>>

GaveUp(u) ==
    /\ up[u].pc \in {"answer", "write", "check", "verify", "rename"}
    /\ Is(u, "rename") => tmp[up[u].file] = None
    /\ Onward(u, up[u].updated)
    /\ UNCHANGED <<dest, etag, kept, torn, lost, vpn, missed>>

\* It ends with an exception, of a request or because the worker is stopped.
Threw(u) ==
    /\ up[u].pc \in {"answer", "end", "restart"} /\ up'[u] = Idle
    /\ Running => missed' = missed \cup up[u].updated
    /\ UNCHANGED <<dest, etag, kept, torn, lost, vpn>>

\* Its rename fails although there is something to rename.
Lost(u) ==
    /\ Is(u, "rename") /\ Onward(u, up[u].updated)
    /\ up[u].file \in lost'
    /\ up[u].file \in kept => up[u].file \in kept'
    /\ etag[up[u].file] # None /\ etag[up[u].file][1] # up[u].prof =>
           up[u].file \in kept'
    /\ UNCHANGED <<dest, etag, torn, vpn, missed>>

Opened(u) ==
    /\ Is(u, "answer") /\ up[u].tag # Latest(up[u].prof)
    /\ up'[u].pc = "write" /\ up'[u].file = up[u].file
    /\ up'[u].prof = up[u].prof /\ up'[u].updated = up[u].updated
    /\ up'[u].tag = None /\ up'[u].got = Latest(up[u].prof)
    /\ up'[u].open = "tmp" /\ up'[u].pos = up[u].pos
    /\ tmp'[up[u].file] = <<>>
    /\ UNCHANGED <<dest, etag, kept, torn, lost, vpn, missed>>

\* It goes on with its file.
Stays(u) ==
    /\ up'[u].file = up[u].file /\ up'[u].prof = up[u].prof
    /\ up'[u].tag = up[u].tag /\ up'[u].got = up[u].got
    /\ up'[u].updated = up[u].updated
    /\ UNCHANGED <<etag, kept, vpn, missed>>

Wrote(u) ==
    /\ Is(u, "write") /\ Stays(u)
    /\ \/ /\ up[u].pos + 1 # Chunks /\ up'[u].pc = "write"
          /\ up'[u].pos = up[u].pos + 1 /\ up'[u].open = up[u].open
       \/ up[u].pos + 1 = Chunks /\ up'[u].pc = "check" /\ up'[u].open = "gone"
    /\ up[u].open = "tmp" =>
           tmp'[up[u].file] = WriteAt(tmp[up[u].file], up[u].pos + 1, up[u].got)
    /\ up[u].open # "dest" => dest' = dest
    /\ UNCHANGED <<torn, lost>>

Advanced(u) ==
    /\ \/ Is(u, "check") /\ up'[u].pc = "verify"
       \/ Is(u, "verify") /\ up'[u].pc = "delete"
    /\ Stays(u) /\ up'[u].open = up[u].open
    /\ UNCHANGED <<dest, tmp, torn, lost>>

Deleted(u) ==
    /\ Is(u, "delete") /\ up'[u].pc = "rename" /\ Stays(u)
    /\ dest'[up[u].file] = None
    /\ UNCHANGED <<tmp, torn, lost>>

Renamed(u) ==
    /\ Is(u, "rename") /\ up'[u].pc = "save" /\ Stays(u)
    /\ dest'[up[u].file] = tmp[up[u].file]

Saved(u) ==
    /\ Is(u, "save") /\ Onward(u, up[u].updated \cup {up[u].file})
    /\ etag'[up[u].file] = up[u].got
    /\ UNCHANGED <<dest, torn, lost, vpn, missed>>

Finished(u) ==
    /\ Is(u, "end") /\ up'[u].tag = None
    /\ UNCHANGED <<dest, etag, kept, torn, lost>>
    /\ \/ up'[u].pc = "restart" /\ Running /\ vpn' = "down"
       \/ /\ up'[u].pc = "idle" /\ vpn' = vpn
          /\ Running => missed' = missed \cup up[u].updated

Restarted(u) ==
    /\ Is(u, "restart") /\ up'[u].pc = "idle" /\ up'[u].tag = up[u].tag
    /\ stale' = {}
    /\ UNCHANGED <<dest, etag, kept, torn, lost>>

Outcome(u) ==
    \/ Began(u) \/ GaveUp(u) \/ Threw(u) \/ Lost(u) \/ Opened(u) \/ Wrote(u)
    \/ Advanced(u) \/ Deleted(u) \/ Renamed(u) \/ Saved(u) \/ Finished(u)
    \/ Restarted(u)

\* A writer whose stream may have moved.
LEMMA FollowFacts ==
    ASSUME NEW r \in Record, NEW f \in File,
           NEW from \in {"tmp", "dest", "gone"}, NEW to \in {"tmp", "dest", "gone"}
    PROVE  /\ Follow(r, f, from, to) \in Record
           /\ Follow(r, f, from, to) =
                  [r EXCEPT !.open = Follow(r, f, from, to).open]
           /\ Follow(r, f, from, to).open =
                  IF r.file = f /\ r.open = from THEN to ELSE r.open
           /\ r.file # f => Follow(r, f, from, to) = r
BY DEF Follow, Record

\* The same for a stream of the temporary file that replaces the file.
LEMMA ReplacedFacts ==
    ASSUME NEW r \in Record, NEW f \in File, NEW s,
           s = Follow(Follow(r, f, "dest", "gone"), f, "tmp", "dest")
    PROVE  /\ s \in Record
           /\ s = [r EXCEPT !.open = s.open]
           /\ s.open = IF r.file # f THEN r.open
                       ELSE IF r.open = "tmp" THEN "dest" ELSE "gone"
           /\ r.file # f => s = r
<1>1. PICK q \in Record :
      /\ q = Follow(r, f, "dest", "gone")
      /\ q = [r EXCEPT !.open = q.open] /\ (r.file # f => q = r)
      /\ q.open = IF r.file = f /\ r.open = "dest" THEN "gone" ELSE r.open
  BY FollowFacts
<1>2. q.file = r.file
  BY <1>1 DEF Record
<1>3. /\ s \in Record /\ s = [q EXCEPT !.open = s.open] /\ (q.file # f => s = q)
      /\ s.open = IF q.file = f /\ q.open = "tmp" THEN "dest" ELSE q.open
  <2>1. s = Follow(q, f, "tmp", "dest")
    BY <1>1
  <2>2. QED
    BY <2>1 DEF Follow, Record
<1>4. r.open \in {"tmp", "dest", "gone"}
  BY DEF Record
<1>5. QED
  BY <1>1, <1>2, <1>3, <1>4 DEF Record

\* The other updaters when u's step gives up its temporary file.
LEMMA GivesUpFacts ==
    ASSUME Typed, NEW u \in Updater, GivesUp(u)
    PROVE  /\ up' \in [Updater -> Record] /\ Onward(u, up[u].updated)
           /\ \A w \in Updater \ {u} :
                 /\ up'[w] = Follow(up[w], up[u].file, "tmp", "gone")
                 /\ Same(w) /\ (up[w].file # up[u].file => up'[w] = up[w])
           /\ tmp' = [tmp EXCEPT ![up[u].file] = None]
<1>1. up[u] \in Record /\ up[u].file \in File /\ up \in [Updater -> Record]
  BY DEF Typed, Record
<1> DEFINE r == Follow(up[u], up[u].file, "tmp", "gone")
<1>2. /\ r \in Record /\ r.file = up[u].file /\ r.prof = up[u].prof
      /\ r.updated = up[u].updated
  BY <1>1 DEF Follow, Record
<1>3. /\ up' \in [Updater -> Record] /\ up'[u] = NextFile(r)
      /\ \A w \in Updater \ {u} :
             up'[w] = Follow(up[w], up[u].file, "tmp", "gone")
  <2>1. NextFile(r) \in Record
    BY <1>2, NextFileFacts
  <2>2. \A w \in Updater : Follow(up[w], up[u].file, "tmp", "gone") \in Record
    BY <1>1 DEF Follow, Record
  <2> HIDE DEF r
  <2>3. up' = [[w \in Updater |-> Follow(up[w], up[u].file, "tmp", "gone")]
                 EXCEPT ![u] = NextFile(r)]
    BY DEF GivesUp, Moved, r
  <2>4. QED
    BY <2>1, <2>2, <2>3
<1>4. ASSUME NEW w \in Updater \ {u}
      PROVE  Same(w) /\ (up[w].file # up[u].file => up'[w] = up[w])
  BY <1>1, <1>3 DEF Same, Follow, Record
<1>5. Onward(u, up[u].updated)
  <2> HIDE DEF r
  <2>1. PICK q \in Record : q = r
    BY <1>2
  <2>2. /\ NextFile(q).file = "geosite.dat" /\ NextFile(q).open = "gone"
        /\ NextFile(q).prof = q.prof /\ NextFile(q).updated = q.updated
        /\ NextFile(q).pos = 0
        /\ \/ /\ q.file = "geoip.dat" /\ NextFile(q).pc = "answer"
              /\ NextFile(q).tag = etag["geosite.dat"]
              /\ NextFile(q).early = Doubtful("geosite.dat", q.prof)
           \/ /\ q.file = "geosite.dat" /\ NextFile(q).pc = "end"
              /\ NextFile(q).tag = None
    BY NextFileFacts
  <2>3. QED
    BY <1>2, <1>3, <2>1, <2>2 DEF Onward
<1>6. QED
  BY <1>3, <1>4, <1>5 DEF GivesUp

\* A step that changes no other updater.
LEMMA OwnStep ==
    ASSUME Typed, NEW u \in Updater, NEW r \in Record, up' = [up EXCEPT ![u] = r]
    PROVE  /\ up' \in [Updater -> Record] /\ up'[u] = r
           /\ \A w \in Updater \ {u} : up'[w] = up[w] /\ Same(w)
BY DEF Typed, Same

\* updateAll begins.
LEMMA UpdateAllFacts ==
    ASSUME Typed, NEW u \in Updater, UpdateAll(u)
    PROVE  up' \in [Updater -> Record] /\ Frame(u) /\ Began(u)
<1> DEFINE r == [Idle EXCEPT !.pc = "answer", !.prof = profile,
                             !.tag = etag["geoip.dat"],
                             !.early = Doubtful("geoip.dat", profile)]
<1>1. /\ r \in Record /\ r.pc = "answer" /\ r.file = "geoip.dat"
      /\ r.prof = profile /\ r.tag = etag["geoip.dat"]
      /\ r.early = Doubtful("geoip.dat", profile) /\ r.updated = {}
      /\ r.open = "gone" /\ r.pos = 0
  <2>1. /\ etag["geoip.dat"] \in Version \cup {None} /\ profile \in Profile
        /\ "geoip.dat" \in File /\ Asset \in Version /\ 0 \in 0 .. Chunks
        /\ Doubtful("geoip.dat", profile) \in BOOLEAN
    BY GeoAssumption DEF Typed, File, Version, Doubtful
  <2>2. QED
    BY <2>1 DEF Idle, Record
<1>2. up' = [up EXCEPT ![u] = r]
  BY DEF UpdateAll
<1> HIDE DEF r
<1>3. /\ up' \in [Updater -> Record] /\ up'[u] = r
      /\ \A w \in Updater \ {u} : up'[w] = up[w] /\ Same(w)
  BY <1>1, <1>2, OwnStep
<1>4. QED
  BY <1>1, <1>3 DEF UpdateAll, Frame, Began, prefVars, engineVars, faultVars

\* The answer: not modified or no success, an exception, or a stream.
LEMMA AnsweredFacts ==
    ASSUME Typed, NEW u \in Updater, Answered(u)
    PROVE  up' \in [Updater -> Record] /\ Frame(u) /\ (GaveUp(u) \/ Opened(u))
<1>1. /\ up[u] \in Record /\ up[u].file \in File /\ up[u].prof \in Profile
      /\ InHand(u, up[u].file) /\ Is(u, "answer")
  BY DEF Typed, Record, Answered, InHand, Is
<1>2. CASE up' = [up EXCEPT ![u] = NextFile(up[u])] /\ UNCHANGED tmp
  <2>1. PICK q : q = up[u] /\ q \in Record
    BY <1>1
  <2>2. /\ NextFile(q) \in Record
        /\ NextFile(q).file = "geosite.dat" /\ NextFile(q).open = "gone"
        /\ NextFile(q).prof = q.prof /\ NextFile(q).updated = q.updated
        /\ NextFile(q).pos = 0
        /\ \/ /\ q.file = "geoip.dat" /\ NextFile(q).pc = "answer"
              /\ NextFile(q).tag = etag["geosite.dat"]
              /\ NextFile(q).early = Doubtful("geosite.dat", q.prof)
           \/ /\ q.file = "geosite.dat" /\ NextFile(q).pc = "end"
              /\ NextFile(q).tag = None
    BY <2>1, NextFileFacts
  <2>3. /\ up' \in [Updater -> Record] /\ up'[u] = NextFile(q)
        /\ \A w \in Updater \ {u} : up'[w] = up[w] /\ Same(w)
    BY <1>2, <2>1, <2>2, OwnStep
  <2>4. Onward(u, up[u].updated)
    BY <2>1, <2>2, <2>3 DEF Onward
  <2>5. QED
    BY <1>1, <1>2, <2>3, <2>4
       DEF Answered, Frame, GaveUp, Is, prefVars, engineVars, faultVars
<1>3. CASE /\ up[u].tag # Latest(up[u].prof)
           /\ up' = [up EXCEPT ![u] = [up[u] EXCEPT !.pc = "write", !.tag = None,
                  !.early = FALSE, !.got = Latest(up[u].prof), !.open = "tmp"]]
           /\ tmp' = [tmp EXCEPT ![up[u].file] = <<>>]
  <2> DEFINE r == [up[u] EXCEPT !.pc = "write", !.tag = None,
                  !.early = FALSE, !.got = Latest(up[u].prof), !.open = "tmp"]
  <2>1. Latest(up[u].prof) \in Version
    BY <1>1, LatestReal, RealTyped
  <2>2. /\ r \in Record /\ r.pc = "write" /\ r.file = up[u].file
        /\ r.prof = up[u].prof /\ r.updated = up[u].updated /\ r.tag = None
        /\ r.got = Latest(up[u].prof) /\ r.open = "tmp" /\ r.pos = up[u].pos
    BY <1>1, <2>1 DEF Record
  <2>3. up' = [up EXCEPT ![u] = r]
    BY <1>3
  <2> HIDE DEF r
  <2>4. /\ up' \in [Updater -> Record] /\ up'[u] = r
        /\ \A w \in Updater \ {u} : up'[w] = up[w] /\ Same(w)
    BY <2>2, <2>3, OwnStep
  <2>5. tmp'[up[u].file] = <<>>
    BY <1>1, <1>3 DEF Typed
  <2>6. \A f \in File : ~InHand(u, f) => tmp'[f] = tmp[f]
    BY <1>1, <1>3 DEF Typed
  <2>7. QED
    BY <1>1, <1>3, <2>2, <2>4, <2>5, <2>6
       DEF Answered, Frame, Opened, prefVars, engineVars, faultVars
<1>4. QED
  BY <1>2, <1>3 DEF Answered

\* An exception leaves updateAll.
LEMMA ThrowsFacts ==
    ASSUME Typed, NEW u \in Updater, Throws(u) \/ Cancelled(u)
    PROVE  up' \in [Updater -> Record] /\ Frame(u) /\ Threw(u)
<1>1. Idle \in Record
  BY GeoAssumption DEF Idle, Record, File, Version
<1>2. /\ up' \in [Updater -> Record] /\ up'[u] = Idle
      /\ \A w \in Updater \ {u} : up'[w] = up[w] /\ Same(w)
  BY <1>1, OwnStep DEF Throws, Cancelled
<1>3. QED
  BY <1>2 DEF Throws, Cancelled, Missed, Frame, Threw, Is, prefVars, faultVars

\* A chunk is written.
LEMMA WriteFacts ==
    ASSUME Typed, Streams, NEW u \in Updater, Write(u)
    PROVE  up' \in [Updater -> Record] /\ Frame(u) /\ Wrote(u)
<1>1. /\ up[u] \in Record /\ up[u].file \in File /\ InHand(u, up[u].file)
      /\ Is(u, "write") /\ up[u].pos \in 0 .. Chunks /\ Chunks \in Nat
      /\ up[u].pos < Chunks
  BY GeoAssumption DEF Typed, Streams, Record, Write, InHand, Is
<1> DEFINE Put(disk) ==
      [disk EXCEPT ![up[u].file] =
           WriteAt(disk[up[u].file], up[u].pos + 1, up[u].got)]
<1>2. /\ tmp' = IF up[u].open = "tmp" THEN Put(tmp) ELSE tmp
      /\ dest' = IF up[u].open = "dest" THEN Put(dest) ELSE dest
  BY DEF Write
<1>3. /\ \A f \in File : ~InHand(u, f) => tmp'[f] = tmp[f] /\ dest'[f] = dest[f]
      /\ up[u].open = "tmp" => tmp'[up[u].file] =
             WriteAt(tmp[up[u].file], up[u].pos + 1, up[u].got)
      /\ up[u].open # "dest" => dest' = dest
  BY <1>1, <1>2 DEF Typed
<1>4. CASE up[u].pos + 1 # Chunks
  <2> DEFINE r == [up[u] EXCEPT !.pos = up[u].pos + 1]
  <2>1. /\ r \in Record /\ r.pc = "write" /\ r.file = up[u].file
        /\ r.prof = up[u].prof /\ r.updated = up[u].updated
        /\ r.tag = up[u].tag /\ r.got = up[u].got /\ r.open = up[u].open
        /\ r.pos = up[u].pos + 1
    <3>1. up[u].pos + 1 \in 0 .. Chunks
      BY <1>1, <1>4
    <3>2. QED
      BY <1>1, <3>1 DEF Record, Is
  <2>2. up' = [up EXCEPT ![u] = r]
    BY <1>4 DEF Write, Last
  <2> HIDE DEF r
  <2>3. /\ up' \in [Updater -> Record] /\ up'[u] = r
        /\ \A w \in Updater \ {u} : up'[w] = up[w] /\ Same(w)
    BY <2>1, <2>2, OwnStep
  <2>4. QED
    BY <1>1, <1>3, <1>4, <2>1, <2>3
       DEF Write, Frame, Wrote, Stays, prefVars, engineVars, faultVars
<1>5. CASE up[u].pos + 1 = Chunks
  <2> DEFINE r == [up[u] EXCEPT !.pc = "check", !.pos = 0, !.open = "gone"]
  <2>1. /\ r \in Record /\ r.pc = "check" /\ r.file = up[u].file
        /\ r.prof = up[u].prof /\ r.updated = up[u].updated
        /\ r.tag = up[u].tag /\ r.got = up[u].got /\ r.open = "gone"
    <3>1. 0 \in 0 .. Chunks
      BY <1>1
    <3>2. QED
      BY <1>1, <3>1 DEF Record
  <2>2. up' = [up EXCEPT ![u] = r]
    BY <1>5 DEF Write, Last
  <2> HIDE DEF r
  <2>3. /\ up' \in [Updater -> Record] /\ up'[u] = r
        /\ \A w \in Updater \ {u} : up'[w] = up[w] /\ Same(w)
    BY <2>1, <2>2, OwnStep
  <2>4. QED
    BY <1>1, <1>3, <1>5, <2>1, <2>3
       DEF Write, Frame, Wrote, Stays, prefVars, engineVars, faultVars
<1>6. QED
  BY <1>4, <1>5

\* A step to another place in the work on the same file.
LEMMA GoesFacts ==
    ASSUME Typed, NEW u \in Updater, NEW place, Goes(u, place),
           [up[u] EXCEPT !.pc = place] \in Record
    PROVE  /\ up' \in [Updater -> Record] /\ up'[u] = [up[u] EXCEPT !.pc = place]
           /\ up'[u].pc = place /\ up'[u].file = up[u].file
           /\ up'[u].prof = up[u].prof /\ up'[u].tag = up[u].tag
           /\ up'[u].got = up[u].got /\ up'[u].updated = up[u].updated
           /\ up'[u].open = up[u].open /\ up'[u].pos = up[u].pos
           /\ \A w \in Updater \ {u} : up'[w] = up[w] /\ Same(w)
<1> DEFINE r == [up[u] EXCEPT !.pc = place]
<1>1. up[u] \in Record
  BY DEF Typed
<1>2. /\ r.pc = place /\ r.file = up[u].file /\ r.prof = up[u].prof
      /\ r.tag = up[u].tag /\ r.got = up[u].got /\ r.updated = up[u].updated
      /\ r.open = up[u].open /\ r.pos = up[u].pos
  BY <1>1 DEF Record
<1>3. up' = [up EXCEPT ![u] = r] /\ r \in Record
  BY DEF Goes
<1> HIDE DEF r
<1>4. /\ up' \in [Updater -> Record] /\ up'[u] = r
      /\ \A w \in Updater \ {u} : up'[w] = up[w] /\ Same(w)
  BY <1>3, OwnStep
<1>5. up'[u] = [up[u] EXCEPT !.pc = place]
  BY <1>4 DEF r
<1>6. QED
  BY <1>2, <1>4, <1>5

\* A download that fails, is too small, or has the wrong checksum; or that
\* takes the next step.
LEMMA ChecksFacts ==
    ASSUME Typed, NEW u \in Updater,
           WriteFails(u) \/ CheckLength(u) \/ VerifySha256(u)
    PROVE  up' \in [Updater -> Record] /\ Frame(u) /\ (GaveUp(u) \/ Advanced(u))
<1>1. /\ up[u] \in Record /\ up[u].file \in File /\ InHand(u, up[u].file)
      /\ up[u].pc \in {"write", "check", "verify"}
  BY DEF Typed, Record, WriteFails, CheckLength, VerifySha256, InHand, Is
<1>2. UNCHANGED <<dest, etag, profile, clearing, release, kept, ex, inited, vpn,
                  missed, torn, lost>>
  BY DEF WriteFails, CheckLength, VerifySha256, prefVars, engineVars, faultVars
<1>3. CASE GivesUp(u)
  <2>1. /\ up' \in [Updater -> Record] /\ Onward(u, up[u].updated)
        /\ \A w \in Updater \ {u} :
               Same(w) /\ (up[w].file # up[u].file => up'[w] = up[w])
        /\ tmp' = [tmp EXCEPT ![up[u].file] = None]
    BY <1>3, GivesUpFacts
  <2>2. \A f \in File : ~InHand(u, f) => tmp'[f] = tmp[f]
    BY <1>1, <2>1 DEF Typed
  <2>3. Frame(u)
    BY <1>1, <1>2, <2>1, <2>2 DEF Frame, InHand
  <2>4. GaveUp(u)
    BY <1>1, <1>2, <2>1 DEF GaveUp, Is
  <2>5. QED
    BY <2>1, <2>3, <2>4
<1>4. CASE Is(u, "check") /\ Goes(u, "verify") /\ UNCHANGED tmp
  <2>1. [up[u] EXCEPT !.pc = "verify"] \in Record
    BY <1>1 DEF Record
  <2>2. /\ up' \in [Updater -> Record] /\ up'[u].pc = "verify"
        /\ up'[u].open = up[u].open
        /\ up'[u].file = up[u].file /\ up'[u].prof = up[u].prof
        /\ up'[u].tag = up[u].tag /\ up'[u].got = up[u].got
        /\ up'[u].updated = up[u].updated
        /\ \A w \in Updater \ {u} : up'[w] = up[w] /\ Same(w)
    BY <1>4, <2>1, GoesFacts
  <2>3. QED
    BY <1>1, <1>2, <1>4, <2>2 DEF Frame, Advanced, Stays
<1>5. CASE Is(u, "verify") /\ Goes(u, "delete") /\ UNCHANGED tmp
  <2>1. [up[u] EXCEPT !.pc = "delete"] \in Record
    BY <1>1 DEF Record
  <2>2. /\ up' \in [Updater -> Record] /\ up'[u].pc = "delete"
        /\ up'[u].open = up[u].open
        /\ up'[u].file = up[u].file /\ up'[u].prof = up[u].prof
        /\ up'[u].tag = up[u].tag /\ up'[u].got = up[u].got
        /\ up'[u].updated = up[u].updated
        /\ \A w \in Updater \ {u} : up'[w] = up[w] /\ Same(w)
    BY <1>5, <2>1, GoesFacts
  <2>3. QED
    BY <1>1, <1>2, <1>5, <2>2 DEF Frame, Advanced, Stays
<1>6. QED
  BY <1>3, <1>4, <1>5 DEF WriteFails, CheckLength, VerifySha256

\* The updaters g are the present ones but for streams of file f.
Carried(g, f) ==
    \A w \in Updater : /\ g[w] = [up[w] EXCEPT !.open = g[w].open]
                       /\ up[w].file # f => g[w] = up[w]

\* A step that moves the streams of one file.
LEMMA MovedStep ==
    ASSUME Typed, NEW u \in Updater, NEW place, NEW g \in [Updater -> Record],
           Carried(g, up[u].file),
           NEW r \in Record, r = [g[u] EXCEPT !.pc = place],
           up' = [g EXCEPT ![u] = r]
    PROVE  /\ up' \in [Updater -> Record]
           /\ up'[u].pc = place /\ up'[u].file = up[u].file
           /\ up'[u].prof = up[u].prof /\ up'[u].tag = up[u].tag
           /\ up'[u].got = up[u].got /\ up'[u].updated = up[u].updated
           /\ up'[u].open = g[u].open /\ up'[u].pos = up[u].pos
           /\ \A w \in Updater \ {u} : up'[w] = g[w] /\ Same(w)
           /\ \A w \in Updater \ {u} : up[w].file # up[u].file => up'[w] = up[w]
<1>1. up \in [Updater -> Record] /\ up[u] \in Record /\ g[u] \in Record
  BY DEF Typed
<1>2. g[u].file = up[u].file /\ g[u].prof = up[u].prof /\ g[u].tag = up[u].tag
      /\ g[u].got = up[u].got /\ g[u].updated = up[u].updated
      /\ g[u].pos = up[u].pos
  BY <1>1 DEF Record, Carried
<1>3. /\ r.pc = place /\ r.file = up[u].file /\ r.prof = up[u].prof
      /\ r.tag = up[u].tag /\ r.got = up[u].got /\ r.updated = up[u].updated
      /\ r.open = g[u].open /\ r.pos = up[u].pos
  BY <1>1, <1>2 DEF Record
<1>5. /\ up' \in [Updater -> Record] /\ up'[u] = r
      /\ \A w \in Updater \ {u} : up'[w] = g[w]
  OBVIOUS
<1>6. ASSUME NEW w \in Updater \ {u}
      PROVE  Same(w) /\ (up[w].file # up[u].file => up'[w] = up[w])
  BY <1>1, <1>5 DEF Same, Record, Carried
<1>7. QED
  BY <1>3, <1>5, <1>6

\* What the extraction's stream does when its file goes.
LEMMA ExtractionFollows ==
    ASSUME Typed, NEW f \in File, ex' = Follow(ex, f, "dest", "gone")
    PROVE  /\ ex'.pc = ex.pc /\ ex'.file = ex.file /\ ex'.pos = ex.pos
           /\ ex'.open = IF ex.file = f THEN "gone" ELSE ex.open
           /\ ex.file # f => ex' = ex
           /\ ex' \in [pc : {"idle", "check", "open", "copy", "next"}, file : File,
                       pos : 0 .. Chunks, open : {"dest", "gone"}]
BY DEF Typed, Follow

\* The old file is deleted.
LEMMA DeleteDestFacts ==
    ASSUME Typed, NEW u \in Updater, DeleteDest(u)
    PROVE  /\ up' \in [Updater -> Record] /\ Frame(u) /\ Deleted(u)
           /\ up'[u].open = Follow(up[u], up[u].file, "dest", "gone").open
           /\ up'[u].pos = up[u].pos
           /\ \A w \in Updater \ {u} :
                  up'[w] = Follow(up[w], up[u].file, "dest", "gone")
<1>1. /\ up[u] \in Record /\ up[u].file \in File /\ InHand(u, up[u].file)
      /\ Is(u, "delete") /\ up \in [Updater -> Record]
  BY DEF Typed, Record, DeleteDest, InHand, Is
<1>0. PICK g : g = Moved(up[u].file, "dest", "gone")
  OBVIOUS
<1>2. ASSUME NEW w \in Updater
      PROVE  /\ g[w] = Follow(up[w], up[u].file, "dest", "gone")
             /\ g[w] \in Record /\ g[w] = [up[w] EXCEPT !.open = g[w].open]
             /\ up[w].file # up[u].file => g[w] = up[w]
  BY <1>0, <1>1 DEF Moved, Follow, Record
<1>3. g \in [Updater -> Record]
  BY <1>0, <1>1 DEF Moved, Follow, Record
<1>4. up' = [g EXCEPT ![u] = [g[u] EXCEPT !.pc = "rename"]]
  BY <1>0, <1>3 DEF DeleteDest
<1>5. PICK r \in Record : r = [g[u] EXCEPT !.pc = "rename"]
  BY <1>3 DEF Record
<1>6. /\ up' \in [Updater -> Record]
      /\ up'[u].pc = "rename" /\ up'[u].file = up[u].file
      /\ up'[u].prof = up[u].prof /\ up'[u].tag = up[u].tag
      /\ up'[u].got = up[u].got /\ up'[u].updated = up[u].updated
      /\ up'[u].open = g[u].open /\ up'[u].pos = up[u].pos
      /\ \A w \in Updater \ {u} : up'[w] = g[w] /\ Same(w)
      /\ \A w \in Updater \ {u} : up[w].file # up[u].file => up'[w] = up[w]
  <2>1. Carried(g, up[u].file)
    BY <1>2 DEF Carried
  <2>2. up' = [g EXCEPT ![u] = r]
    BY <1>4, <1>5
  <2>3. QED
    BY <1>3, <1>5, <2>1, <2>2, MovedStep
<1>7. /\ ex'.pc = ex.pc /\ ex'.file = ex.file /\ ex'.pos = ex.pos
      /\ ex.file # up[u].file => ex' = ex
  BY <1>1, ExtractionFollows DEF DeleteDest
<1>8. /\ dest'[up[u].file] = None
      /\ \A f \in File : ~InHand(u, f) => dest'[f] = dest[f]
  BY <1>1 DEF DeleteDest, Typed
<1>9. Frame(u) /\ Deleted(u)
  BY <1>1, <1>6, <1>7, <1>8
     DEF DeleteDest, Frame, InHand, Deleted, Stays, prefVars, engineVars, faultVars
<1>10. QED
  BY <1>2, <1>6, <1>9

\* The temporary file takes the place of the old one, or is not there.
LEMMA RenameFacts ==
    ASSUME Typed, NEW u \in Updater, Rename(u)
    PROVE  /\ up' \in [Updater -> Record] /\ Frame(u)
           /\ \/ (GaveUp(u) \/ Lost(u)) /\ GivesUp(u) /\ ex' = ex
              \/ /\ Renamed(u) /\ tmp[up[u].file] # None
                 /\ dest' = [dest EXCEPT ![up[u].file] = tmp[up[u].file]]
                 /\ tmp' = [tmp EXCEPT ![up[u].file] = None]
                 /\ ex' = Follow(ex, up[u].file, "dest", "gone")
                 /\ up'[u].open = Replaced(up[u].file)[u].open
                 /\ up'[u].pos = up[u].pos
                 /\ \A w \in Updater \ {u} : up'[w] = Replaced(up[u].file)[w]
<1>1. /\ up[u] \in Record /\ up[u].file \in File /\ InHand(u, up[u].file)
      /\ Is(u, "rename") /\ up \in [Updater -> Record]
  BY DEF Typed, Record, Rename, InHand, Is
<1>2. UNCHANGED <<etag, profile, clearing, release, inited, vpn, missed>>
  BY DEF Rename, engineVars
<1>3. CASE tmp[up[u].file] = None
  <2>1. GivesUp(u) /\ UNCHANGED <<dest, ex, kept, torn, lost>>
    BY <1>3 DEF Rename, faultVars
  <2>2. /\ up' \in [Updater -> Record] /\ Onward(u, up[u].updated)
        /\ \A w \in Updater \ {u} :
               Same(w) /\ (up[w].file # up[u].file => up'[w] = up[w])
        /\ tmp' = [tmp EXCEPT ![up[u].file] = None]
    BY <2>1, GivesUpFacts
  <2>3. \A f \in File : ~InHand(u, f) => tmp'[f] = tmp[f]
    BY <1>1, <2>2 DEF Typed
  <2>4. Frame(u) /\ GaveUp(u)
    BY <1>1, <1>2, <1>3, <2>1, <2>2, <2>3 DEF Frame, InHand, GaveUp, Is
  <2>5. QED
    BY <2>1, <2>2, <2>4
<1>6. CASE /\ tmp[up[u].file] # None /\ GivesUp(u)
           /\ lost' = lost \cup {up[u].file} /\ UNCHANGED <<dest, ex, torn>>
           /\ kept' = IF etag[up[u].file] # None /\ etag[up[u].file][1] # up[u].prof
                      THEN kept \cup {up[u].file} ELSE kept
  <2>1. /\ up' \in [Updater -> Record] /\ Onward(u, up[u].updated)
        /\ \A w \in Updater \ {u} :
               Same(w) /\ (up[w].file # up[u].file => up'[w] = up[w])
        /\ tmp' = [tmp EXCEPT ![up[u].file] = None]
    BY <1>6, GivesUpFacts
  <2>2. \A f \in File : ~InHand(u, f) => tmp'[f] = tmp[f]
    BY <1>1, <2>1 DEF Typed
  <2>3. \A f \in File : ~InHand(u, f) =>
            (f \in kept' <=> f \in kept) /\ (f \in lost' <=> f \in lost)
    BY <1>1, <1>6
  <2>4. Frame(u)
    BY <1>1, <1>2, <1>6, <2>1, <2>2, <2>3 DEF Frame, InHand
  <2>5. Lost(u)
    BY <1>1, <1>2, <1>6, <2>1 DEF Lost
  <2>6. QED
    BY <1>6, <2>1, <2>4, <2>5
<1>4. CASE /\ tmp[up[u].file] # None
           /\ up' = [Replaced(up[u].file) EXCEPT ![u] = [@ EXCEPT !.pc = "save"]]
           /\ ex' = Follow(ex, up[u].file, "dest", "gone")
           /\ dest' = [dest EXCEPT ![up[u].file] = tmp[up[u].file]]
           /\ tmp' = [tmp EXCEPT ![up[u].file] = None]
           /\ torn' = torn \ {up[u].file} /\ lost' = lost \ {up[u].file}
           /\ UNCHANGED kept
  <2>0. PICK g : g = Replaced(up[u].file)
    OBVIOUS
  <2>1. /\ up' = [g EXCEPT ![u] = [g[u] EXCEPT !.pc = "save"]]
        /\ ex' = Follow(ex, up[u].file, "dest", "gone")
        /\ dest' = [dest EXCEPT ![up[u].file] = tmp[up[u].file]]
        /\ tmp' = [tmp EXCEPT ![up[u].file] = None]
        /\ torn' = torn \ {up[u].file} /\ lost' = lost \ {up[u].file}
    BY <1>4, <2>0 DEF Replaced
  <2>2. ASSUME NEW w \in Updater
        PROVE  /\ g[w] \in Record /\ g[w] = [up[w] EXCEPT !.open = g[w].open]
               /\ up[w].file # up[u].file => g[w] = up[w]
    <3>1. up[w] \in Record
      BY <1>1
    <3>2. g[w] = Follow(Follow(up[w], up[u].file, "dest", "gone"), up[u].file,
                        "tmp", "dest")
      BY <2>0 DEF Replaced
    <3>3. QED
      BY <1>1, <3>1, <3>2, ReplacedFacts
  <2>3. g \in [Updater -> Record]
    <3>1. g = [w \in Updater |-> g[w]]
      BY <2>0 DEF Replaced
    <3>2. QED
      BY <2>2, <3>1
  <2>4. PICK r \in Record : r = [g[u] EXCEPT !.pc = "save"]
    BY <2>3 DEF Record
  <2>5. /\ up' \in [Updater -> Record]
        /\ up'[u].pc = "save" /\ up'[u].file = up[u].file
        /\ up'[u].prof = up[u].prof /\ up'[u].tag = up[u].tag
        /\ up'[u].got = up[u].got /\ up'[u].updated = up[u].updated
        /\ up'[u].open = g[u].open /\ up'[u].pos = up[u].pos
        /\ \A w \in Updater \ {u} : up'[w] = g[w] /\ Same(w)
        /\ \A w \in Updater \ {u} : up[w].file # up[u].file => up'[w] = up[w]
    <3>1. Carried(g, up[u].file)
      BY <2>2 DEF Carried
    <3>2. up' = [g EXCEPT ![u] = r]
      BY <2>1, <2>4
    <3>3. QED
      BY <2>3, <2>4, <3>1, <3>2, MovedStep
  <2>6. /\ ex'.pc = ex.pc /\ ex'.file = ex.file /\ ex'.pos = ex.pos
        /\ ex.file # up[u].file => ex' = ex
    BY <1>1, <2>1, ExtractionFollows
  <2>7. /\ dest'[up[u].file] = tmp[up[u].file]
        /\ \A f \in File : ~InHand(u, f) =>
               /\ dest'[f] = dest[f] /\ tmp'[f] = tmp[f]
               /\ (f \in torn' <=> f \in torn) /\ (f \in lost' <=> f \in lost)
    BY <1>1, <2>1 DEF Typed
  <2>8. Frame(u) /\ Renamed(u)
    BY <1>1, <1>2, <1>4, <2>5, <2>6, <2>7 DEF Frame, InHand, Renamed, Stays
  <2>9. QED
    BY <1>4, <2>0, <2>1, <2>5, <2>8
<1>5. QED
  BY <1>3, <1>4, <1>6 DEF Rename

\* The ETag of the answer is saved.
LEMMA SaveEtagFacts ==
    ASSUME Typed, NEW u \in Updater, SaveEtag(u)
    PROVE  up' \in [Updater -> Record] /\ Frame(u) /\ Saved(u)
<1>1. /\ up[u] \in Record /\ up[u].file \in File /\ InHand(u, up[u].file)
      /\ Is(u, "save") /\ up \in [Updater -> Record]
  BY DEF Typed, Record, SaveEtag, InHand, Is
<1>2. PICK q : q = [up[u] EXCEPT !.updated = @ \cup {up[u].file}]
  OBVIOUS
<1>3. /\ q \in Record /\ q.file = up[u].file /\ q.prof = up[u].prof
      /\ q.updated = up[u].updated \cup {up[u].file}
  BY <1>1, <1>2 DEF Record
<1>4. /\ NextFile(q) \in Record
      /\ NextFile(q).file = "geosite.dat" /\ NextFile(q).open = "gone"
      /\ NextFile(q).prof = q.prof /\ NextFile(q).updated = q.updated
      /\ NextFile(q).pos = 0
      /\ \/ /\ q.file = "geoip.dat" /\ NextFile(q).pc = "answer"
            /\ NextFile(q).tag = etag["geosite.dat"]
            /\ NextFile(q).early = Doubtful("geosite.dat", q.prof)
         \/ /\ q.file = "geosite.dat" /\ NextFile(q).pc = "end"
            /\ NextFile(q).tag = None
  BY <1>3, NextFileFacts
<1>5. up' = [up EXCEPT ![u] = NextFile(q)]
  BY <1>2 DEF SaveEtag
<1>6. /\ up' \in [Updater -> Record] /\ up'[u] = NextFile(q)
      /\ \A w \in Updater \ {u} : up'[w] = up[w] /\ Same(w)
  BY <1>4, <1>5, OwnStep
<1>7. Onward(u, up[u].updated \cup {up[u].file})
  BY <1>3, <1>4, <1>6 DEF Onward
<1>8. /\ etag'[up[u].file] = up[u].got
      /\ \A f \in File : ~InHand(u, f) =>
             etag'[f] = etag[f] /\ (f \in kept' <=> f \in kept)
  BY <1>1 DEF SaveEtag, NewEtag, Typed
<1>9. QED
  BY <1>1, <1>6, <1>7, <1>8 DEF SaveEtag, Frame, Saved, engineVars, faultVars

\* updateAll returns; the engine is started again.
LEMMA FinishFacts ==
    ASSUME Typed, NEW u \in Updater, Finish(u) \/ Restart(u)
    PROVE  /\ up' \in [Updater -> Record] /\ Frame(u)
           /\ Finished(u) \/ Restarted(u)
           /\ up'[u].open = "gone" \/ up'[u] = [up[u] EXCEPT !.pc = "idle"]
<1>0. Idle \in Record /\ Idle.pc = "idle" /\ Idle.tag = None
      /\ Idle.open = "gone"
  BY GeoAssumption DEF Idle, Record, File, Version
<1>1. /\ [Idle EXCEPT !.pc = "restart"] \in Record
      /\ [Idle EXCEPT !.pc = "restart"].pc = "restart"
      /\ [Idle EXCEPT !.pc = "restart"].tag = None
      /\ [Idle EXCEPT !.pc = "restart"].open = "gone"
  BY <1>0 DEF Record
<1>2. CASE Finish(u) /\ Restarts(u)
  <2>1. /\ up' \in [Updater -> Record]
        /\ up'[u] = [Idle EXCEPT !.pc = "restart"]
        /\ \A w \in Updater \ {u} : up'[w] = up[w] /\ Same(w)
    BY <1>1, <1>2, OwnStep DEF Finish
  <2>2. QED
    BY <1>1, <1>2, <2>1
       DEF Finish, Restarts, isActive, Running, Frame, Finished, prefVars, faultVars
<1>3. CASE Finish(u) /\ ~Restarts(u)
  <2>1. /\ up' \in [Updater -> Record] /\ up'[u] = Idle
        /\ \A w \in Updater \ {u} : up'[w] = up[w] /\ Same(w)
    BY <1>0, <1>3, OwnStep DEF Finish
  <2>2. Running => missed' = missed \cup up[u].updated
    BY <1>3 DEF Finish, Restarts
  <2>3. QED
    BY <1>0, <1>3, <2>1, <2>2 DEF Finish, Frame, Finished, prefVars, faultVars
<1>4. CASE Restart(u)
  <2>0. up[u] \in Record
    BY DEF Typed
  <2>1. [up[u] EXCEPT !.pc = "idle"] \in Record
    BY <2>0 DEF Record
  <2>2. /\ up' \in [Updater -> Record] /\ up'[u].pc = "idle"
        /\ up'[u].tag = up[u].tag /\ up'[u] = [up[u] EXCEPT !.pc = "idle"]
        /\ \A w \in Updater \ {u} : up'[w] = up[w] /\ Same(w)
    BY <1>4, <2>1, GoesFacts DEF Restart
  <2>3. QED
    BY <1>4, <2>2 DEF Restart, Frame, Restarted, prefVars, faultVars
<1>5. QED
  BY <1>2, <1>3, <1>4

\* Every step of an updater is one of the outcomes, in its frame.
LEMMA UpdaterFacts ==
    ASSUME Typed, Streams, NEW u \in Updater, UpdaterNext(u)
    PROVE  up' \in [Updater -> Record] /\ Frame(u) /\ Outcome(u)
BY UpdateAllFacts, AnsweredFacts, ThrowsFacts, WriteFacts, ChecksFacts,
   DeleteDestFacts, RenameFacts, SaveEtagFacts, FinishFacts
   DEF UpdaterNext, Outcome

\* The frame of the extraction's steps.
ExtractionFrame ==
    /\ up' \in [Updater -> Record]
    /\ \A w \in Updater : Same(w) /\ (up[w].open # "dest" => up'[w] = up[w])
    /\ \A f \in File \ {ex.file} :
           /\ dest'[f] = dest[f] /\ (f \in torn' <=> f \in torn)
           /\ (f \in lost' <=> f \in lost)
    /\ ex.pc # "idle"
    /\ UNCHANGED <<tmp, etag, profile, clearing, release, kept>>

Cleared ==
    /\ ex.pc = "check" /\ IsSmall(dest[ex.file]) /\ dest'[ex.file] = None
    /\ ex'.pc = "open" /\ ex'.file = ex.file /\ ex'.pos = ex.pos
    /\ ex'.open = ex.open
    /\ UNCHANGED <<torn, lost, inited, vpn>>

Created ==
    /\ ex.pc = "open" /\ dest'[ex.file] = <<>>
    /\ ex'.pc = "copy" /\ ex'.file = ex.file /\ ex'.pos = ex.pos
    /\ ex'.open = "dest"
    /\ UNCHANGED <<up, torn, inited, vpn>>

Copied ==
    /\ ex.pc = "copy" /\ ex'.file = ex.file
    /\ IF ex.open = "gone" THEN dest' = dest
       ELSE dest'[ex.file] = WriteAt(dest[ex.file], ex.pos + 1, Asset)
    /\ \/ /\ ex'.pc = "copy" /\ ex.pos + 1 < Chunks
          /\ ex'.pos = ex.pos + 1 /\ ex'.open = ex.open
       \/ ex'.pc = "next" /\ ex.pos + 1 >= Chunks /\ ex'.open = "gone"
    /\ UNCHANGED <<up, torn, lost, inited, vpn>>

Failed ==
    /\ ex.pc = "copy" /\ ex'.pc = "next" /\ ex'.file = ex.file
    /\ ex'.open = "gone" /\ ex.file \in torn'
    /\ UNCHANGED <<up, dest, lost, inited, vpn>>

Passed ==
    /\ \/ ex.pc = "check" /\ ~IsSmall(dest[ex.file])
       \/ ex.pc = "next"
    /\ ex'.open = "gone" /\ ex'.pos = 0
    /\ \/ /\ ex.file = "geoip.dat" /\ ex'.pc = "check"
          /\ ex'.file = "geosite.dat" /\ UNCHANGED <<inited, vpn>>
       \/ ex.file = "geosite.dat" /\ ex'.pc = "idle" /\ inited'
    /\ UNCHANGED <<up, dest, torn, lost>>

ExtractionType == [pc : {"idle", "check", "open", "copy", "next"}, file : File,
                   pos : 0 .. Chunks, open : {"dest", "gone"}]

\* A step that changes no updater.
LEMMA NoUpdater ==
    ASSUME Typed, up' = up
    PROVE  up' \in [Updater -> Record] /\ \A w \in Updater : Same(w)
BY DEF Typed, Same

\* Every step of extractGeoFiles is one of the five, in its frame.
LEMMA ExtractionFacts ==
    ASSUME Typed, Streams, Engine
    PROVE  /\ ExtractionFrame /\ ex' \in ExtractionType
           /\ Cleared \/ Created \/ Copied \/ Failed \/ Passed
<1>1. /\ ex \in ExtractionType /\ ex.file \in File /\ Chunks \in Nat \ {0}
      /\ ex.pos \in 0 .. Chunks /\ up \in [Updater -> Record]
  BY GeoAssumption DEF Typed, ExtractionType
<1>2. CASE ExtractCheck /\ IsSmall(dest[ex.file])
  <2>1. /\ dest' = [dest EXCEPT ![ex.file] = None]
        /\ up' = Moved(ex.file, "dest", "gone")
        /\ ex' = [ex EXCEPT !.pc = "open"] /\ ex.pc = "check"
        /\ UNCHANGED <<tmp, etag, profile, clearing, release, kept, torn, lost,
                       inited, vpn>>
    BY <1>2 DEF ExtractCheck, engineVars, prefVars, faultVars
  <2>2. /\ up' \in [Updater -> Record]
        /\ \A w \in Updater : up'[w] = Follow(up[w], ex.file, "dest", "gone")
    BY <1>1, <2>1 DEF Moved, Follow, Record
  <2>3. ASSUME NEW w \in Updater
        PROVE  Same(w) /\ (up[w].open # "dest" => up'[w] = up[w])
    BY <1>1, <2>2 DEF Same, Follow, Record
  <2>4. /\ dest'[ex.file] = None
        /\ \A f \in File \ {ex.file} : dest'[f] = dest[f]
    BY <1>1, <2>1 DEF Typed
  <2>5. /\ ex' \in ExtractionType /\ ex'.pc = "open" /\ ex'.file = ex.file
        /\ ex'.pos = ex.pos /\ ex'.open = ex.open
    BY <1>1, <2>1 DEF ExtractionType
  <2>6. QED
    BY <1>2, <2>1, <2>2, <2>3, <2>4, <2>5 DEF ExtractionFrame, Cleared
<1>3. CASE ExtractOpen
  <2>1. /\ dest' = [dest EXCEPT ![ex.file] = <<>>]
        /\ ex' = [ex EXCEPT !.pc = "copy", !.open = "dest"] /\ ex.pc = "open"
        /\ lost' = lost \ {ex.file}
        /\ UNCHANGED <<tmp, etag, profile, clearing, release, kept, torn, inited,
                       vpn, up>>
    BY <1>3 DEF ExtractOpen, engineVars, prefVars, faultVars
  <2>2. /\ dest'[ex.file] = <<>>
        /\ \A f \in File \ {ex.file} : dest'[f] = dest[f]
    BY <1>1, <2>1 DEF Typed
  <2>3. /\ ex' \in ExtractionType /\ ex'.pc = "copy" /\ ex'.file = ex.file
        /\ ex'.pos = ex.pos /\ ex'.open = "dest"
    BY <1>1, <2>1 DEF ExtractionType
  <2>4. QED
    BY <2>1, <2>2, <2>3, NoUpdater DEF ExtractionFrame, Created
<1>4. CASE ExtractCopy
  <2>1. /\ dest' = IF ex.open = "gone" THEN dest ELSE
              [dest EXCEPT ![ex.file] = WriteAt(dest[ex.file], ex.pos + 1, Asset)]
        /\ ex.pc = "copy"
        /\ UNCHANGED <<tmp, etag, profile, clearing, release, kept, torn, lost,
                       inited, vpn, up>>
    BY <1>4 DEF ExtractCopy, engineVars, prefVars, faultVars
  <2>2. /\ IF ex.open = "gone" THEN dest' = dest
           ELSE dest'[ex.file] = WriteAt(dest[ex.file], ex.pos + 1, Asset)
        /\ \A f \in File \ {ex.file} : dest'[f] = dest[f]
    BY <1>1, <2>1 DEF Typed
  <2>3. /\ ex' \in ExtractionType /\ ex'.file = ex.file
        /\ \/ /\ ex'.pc = "copy" /\ ex.pos + 1 < Chunks
              /\ ex'.pos = ex.pos + 1 /\ ex'.open = ex.open
           \/ ex'.pc = "next" /\ ex.pos + 1 >= Chunks /\ ex'.open = "gone"
    <3>1. CASE ex.pos + 1 < Chunks
      <4>1. ex' = [ex EXCEPT !.pos = ex.pos + 1]
        BY <1>4, <3>1 DEF ExtractCopy
      <4>2. ex.pos + 1 \in 0 .. Chunks
        BY <1>1, <3>1
      <4>3. QED
        BY <1>1, <2>1, <3>1, <4>1, <4>2 DEF ExtractionType
    <3>2. CASE ~(ex.pos + 1 < Chunks)
      <4>1. ex' = [ex EXCEPT !.pc = "next", !.open = "gone"]
        BY <1>4, <3>2 DEF ExtractCopy
      <4>2. ex.pos + 1 >= Chunks
        BY <1>1, <3>2
      <4>3. QED
        BY <1>1, <4>1, <4>2 DEF ExtractionType
    <3>3. QED
      BY <3>1, <3>2
  <2>4. QED
    BY <2>1, <2>2, <2>3, NoUpdater DEF ExtractionFrame, Copied
<1>5. CASE ExtractFails
  <2>1. /\ ex' = [ex EXCEPT !.pc = "next", !.open = "gone"] /\ ex.pc = "copy"
        /\ torn' = torn \cup {ex.file}
        /\ UNCHANGED <<dest, tmp, etag, profile, clearing, release, kept, lost,
                       inited, vpn, up>>
    BY <1>5 DEF ExtractFails, engineVars, prefVars, faultVars
  <2>2. /\ ex' \in ExtractionType /\ ex'.pc = "next" /\ ex'.file = ex.file
        /\ ex'.open = "gone"
    BY <1>1, <2>1 DEF ExtractionType
  <2>3. QED
    BY <2>1, <2>2, NoUpdater DEF ExtractionFrame, Failed
<1>6. CASE \/ ExtractCheck /\ ~IsSmall(dest[ex.file])
           \/ ExtractNext
  <2>1. /\ Extracted
        /\ \/ ex.pc = "check" /\ ~IsSmall(dest[ex.file])
           \/ ex.pc = "next"
        /\ UNCHANGED <<dest, tmp, etag, profile, clearing, release, kept, up, torn,
                       lost>>
    BY <1>6 DEF ExtractCheck, ExtractNext, prefVars, faultVars
  <2>2. "geosite.dat" \in File /\ "geoip.dat" \in File /\ 0 \in 0 .. Chunks
    BY <1>1 DEF File
  <2>3. /\ ex' \in ExtractionType /\ ex'.open = "gone" /\ ex'.pos = 0
        /\ \/ /\ ex.file = "geoip.dat" /\ ex'.pc = "check"
              /\ ex'.file = "geosite.dat" /\ UNCHANGED <<inited, vpn>>
           \/ ex.file = "geosite.dat" /\ ex'.pc = "idle" /\ inited'
    <3>1. CASE ex.file = "geoip.dat"
      <4>1. /\ ex' = [NoExtraction EXCEPT !.pc = "check", !.file = "geosite.dat"]
            /\ UNCHANGED <<inited, vpn>>
        BY <2>1, <3>1 DEF Extracted, engineVars
      <4>2. QED
        BY <2>2, <3>1, <4>1 DEF NoExtraction, ExtractionType
    <3>2. CASE ex.file = "geosite.dat"
      <4>1. ex' = NoExtraction /\ inited'
        BY <2>1, <3>2 DEF Extracted
      <4>2. QED
        BY <2>2, <3>2, <4>1 DEF NoExtraction, ExtractionType
    <3>3. QED
      BY <1>1, <3>1, <3>2 DEF File
  <2>4. QED
    BY <2>1, <2>3, NoUpdater DEF ExtractionFrame, Passed
<1>7. QED
  BY <1>2, <1>3, <1>4, <1>5, <1>6 DEF Engine, ExtractCheck
-----------------------------------------------------------------------------
(* Types, streams and published versions. *)

\* A file that two writers had in hand is a geo file and stays noted.
LEMMA NotedTyped ==
    ASSUME Typed, Noted
    PROVE  overlap' \subseteq File /\ overlap \subseteq overlap'
BY DEF Typed, Noted

\* The ghost of what the engine has not read keeps its type.
LEMMA AgedTyped ==
    ASSUME Typed, Aged \/ stale' = {} PROVE stale' \subseteq File
BY DEF Typed, Aged

\* An updater's step keeps what it does not hold itself of a type.
LEMMA UpdaterTyped ==
    ASSUME Typed, Streams, Published, NEW u \in Updater, UpdaterNext(u)
    PROVE  Typed'
<1>1. up' \in [Updater -> Record] /\ Frame(u)
  BY UpdaterFacts
<1>2. /\ up[u] \in Record /\ up[u].file \in File /\ up[u].got \in Version
      /\ up[u].updated \subseteq File /\ up[u].pos \in 0 .. Chunks
      /\ dest \in [File -> Contents \cup {None}]
      /\ tmp \in [File -> Contents \cup {None}]
  BY DEF Typed, Record
<1>3. dest' \in [File -> Contents \cup {None}]
      /\ tmp' \in [File -> Contents \cup {None}]
  <2>1. CASE Write(u)
    <3>1. up[u].pos + 1 \in 1 .. Chunks
      BY <1>2, <2>1, GeoAssumption DEF Streams, Write
    <3>2. up[u].open = "tmp" =>
             WriteAt(tmp[up[u].file], up[u].pos + 1, up[u].got) \in Contents
      BY <1>2, <3>1, WriteTyped DEF Streams
    <3>3. up[u].open = "dest" =>
             WriteAt(dest[up[u].file], up[u].pos + 1, up[u].got) \in Contents
      BY <1>2, <3>1, WriteTyped DEF Streams
    <3>4. QED
      BY <1>2, <2>1, <3>2, <3>3 DEF Write
  <2>2. CASE GivesUp(u) /\ UNCHANGED dest
    BY <1>2, <2>2 DEF GivesUp
  <2>3. CASE dest' = [dest EXCEPT ![up[u].file] = None] /\ UNCHANGED tmp
    BY <1>2, <2>3
  <2>4. CASE /\ dest' = [dest EXCEPT ![up[u].file] = tmp[up[u].file]]
             /\ tmp' = [tmp EXCEPT ![up[u].file] = None]
    BY <1>2, <2>4
  <2>5. CASE UNCHANGED dest /\ tmp' = [tmp EXCEPT ![up[u].file] = <<>>]
    BY <1>2, <2>5, EmptyTyped
  <2>6. CASE UNCHANGED <<dest, tmp>>
    BY <1>2, <2>6
  <2>7. QED
    <3>1. CASE UpdateAll(u) \/ Answered(u) \/ Throws(u) \/ Cancelled(u)
      BY <2>5, <2>6, <3>1 DEF UpdateAll, Answered, Throws, Cancelled
    <3>2. CASE WriteFails(u) \/ CheckLength(u) \/ VerifySha256(u)
      BY <2>2, <2>6, <3>2 DEF WriteFails, CheckLength, VerifySha256
    <3>3. CASE DeleteDest(u)
      BY <2>3, <3>3 DEF DeleteDest
    <3>4. CASE Rename(u)
      BY <2>2, <2>4, <3>4, RenameFacts DEF GaveUp, Lost
    <3>5. CASE SaveEtag(u) \/ Finish(u) \/ Restart(u)
      BY <2>6, <3>5 DEF SaveEtag, Finish, Cancelled,
       Restart
    <3>6. QED
      BY <2>1, <3>1, <3>2, <3>3, <3>4, <3>5 DEF UpdaterNext
<1>4. etag' \in [File -> Version \cup {None}] /\ kept' \subseteq File
  <2>1. CASE SaveEtag(u)
    BY <1>2, <2>1 DEF SaveEtag, NewEtag, Typed
  <2>2. CASE UNCHANGED <<etag, kept>>
    BY <2>2 DEF Typed
  <2>3. CASE Rename(u)
    BY <1>2, <2>3 DEF Rename, Typed
  <2>4. QED
    BY <2>1, <2>2, <2>3 DEF UpdaterNext, UpdateAll, Answered, Throws, Write,
       WriteFails, CheckLength, VerifySha256, DeleteDest, Finish, Cancelled,
       Restart, prefVars
<1>5. ex' \in ExtractionType
  <2>1. CASE ex' = Follow(ex, up[u].file, "dest", "gone")
    BY <1>2, <2>1, ExtractionFollows DEF ExtractionType
  <2>2. CASE UNCHANGED ex
    BY <2>2 DEF Typed, ExtractionType
  <2>3. QED
    BY <2>1, <2>2 DEF UpdaterNext, UpdateAll, Answered, Throws, Write, WriteFails,
       CheckLength, VerifySha256, DeleteDest, Rename, SaveEtag, Finish, Cancelled,
       Restart
<1>6. vpn' \in {"down", "starting", "up"} /\ missed' \subseteq File
  <2>1. vpn \in {"down", "starting", "up"} /\ missed \subseteq File
    BY DEF Typed
  <2>2. CASE UNCHANGED <<vpn, missed>>
    BY <2>1, <2>2
  <2>3. CASE Throws(u) \/ Cancelled(u)
    BY <1>2, <2>1, <2>3 DEF Throws, Cancelled, Missed
  <2>4. CASE Finish(u)
    BY <1>2, <2>1, <2>4 DEF Finish
  <2>5. CASE Restart(u)
    BY <2>5 DEF Restart, Load
  <2>6. QED
    BY <2>2, <2>3, <2>4, <2>5 DEF UpdaterNext, UpdateAll, Answered, Write,
       WriteFails, CheckLength, VerifySha256, DeleteDest, Rename, SaveEtag,
       engineVars
<1>7. torn' \subseteq File /\ lost' \subseteq File /\ left' \in Nat
  <2>0. up[u].file \in File /\ torn \subseteq File /\ lost \subseteq File
    BY <1>2 DEF Typed
  <2>1. /\ torn' = torn \/ torn' = torn \ {up[u].file}
        /\ lost' = lost \/ lost' = lost \ {up[u].file} \/ lost' = lost \cup {up[u].file}
    BY DEF UpdaterNext, UpdateAll, Answered, Throws, Write, WriteFails,
       CheckLength, VerifySha256, DeleteDest, Rename, SaveEtag, Finish, Cancelled,
       Restart, faultVars
  <2>2. UNCHANGED left \/ Event
    BY DEF UpdaterNext, UpdateAll, Answered, Throws, Write, WriteFails,
       CheckLength, VerifySha256, DeleteDest, Rename, SaveEtag, Finish, Cancelled,
       Restart
  <2>3. QED
    BY <2>0, <2>1, <2>2 DEF Event, Typed
<1>8. /\ overlap' \subseteq File /\ stale' \subseteq File
  BY NotedTyped, AgedTyped DEF UpdaterNext, Restart
<1>9. QED
  BY <1>1, <1>3, <1>4, <1>5, <1>6, <1>7, <1>8
     DEF Typed, Frame, ExtractionType

\* So does a step of the extraction.
LEMMA ExtractionTyped ==
    ASSUME Typed, Streams, Engine
    PROVE  Typed'
<1>1. ExtractionFrame /\ ex' \in ExtractionType
  BY ExtractionFacts
<1>2. /\ ex.file \in File /\ ex.pos \in 0 .. Chunks /\ Chunks \in Nat \ {0}
      /\ Asset \in Version /\ ex.open \in {"dest", "gone"}
      /\ dest \in [File -> Contents \cup {None}]
  BY GeoAssumption DEF Typed, Version
<1>3. dest' \in [File -> Contents \cup {None}]
  <2>1. CASE dest' = [dest EXCEPT ![ex.file] = None]
    BY <1>2, <2>1
  <2>2. CASE dest' = [dest EXCEPT ![ex.file] = <<>>]
    BY <1>2, <2>2, EmptyTyped
  <2>3. CASE ExtractCopy
    <3>1. ex.pos + 1 \in 1 .. Chunks
      BY <1>2, <2>3 DEF Streams, ExtractCopy
    <3>2. ex.open = "dest" =>
             WriteAt(dest[ex.file], ex.pos + 1, Asset) \in Contents
      BY <1>2, <3>1, WriteTyped DEF Streams
    <3>3. QED
      BY <1>2, <2>3, <3>2 DEF ExtractCopy
  <2>4. QED
    BY <1>2, <2>1, <2>2, <2>3 DEF Engine, ExtractCheck, ExtractOpen, ExtractFails,
       ExtractNext
<1>4. /\ inited' \in BOOLEAN /\ vpn' \in {"down", "starting", "up"}
      /\ missed' \subseteq File
  <2>1. CASE UNCHANGED engineVars
    BY <2>1 DEF Typed, engineVars
  <2>2. CASE inited' = TRUE /\ Load
    BY <2>2 DEF Load
  <2>3. QED
    BY <2>1, <2>2 DEF Engine, ExtractCheck, ExtractOpen, ExtractCopy,
       ExtractFails, ExtractNext, Extracted
<1>5. torn' \subseteq File /\ lost' \subseteq File /\ left' \in Nat
  <2>1. /\ torn' = torn \/ torn' = torn \cup {ex.file}
        /\ lost' = lost \/ lost' = lost \ {ex.file}
    BY DEF Engine, ExtractCheck, ExtractOpen, ExtractCopy, ExtractFails,
       ExtractNext, faultVars
  <2>2. UNCHANGED left \/ Event
    BY DEF Engine, ExtractCheck, ExtractOpen, ExtractCopy, ExtractFails,
       ExtractNext
  <2>3. QED
    BY <1>2, <2>1, <2>2 DEF Event, Typed
<1>6. /\ overlap' \subseteq File /\ stale' \subseteq File
  BY NotedTyped, AgedTyped DEF Engine
<1>7. QED
  BY <1>1, <1>3, <1>4, <1>5, <1>6 DEF Typed, ExtractionFrame, ExtractionType

\* And what the user, the servers and the system do.
LEMMA OthersTyped ==
    ASSUME Typed, Bounded, Others \/ Clearing
    PROVE  Typed'
<1>1. /\ overlap' \subseteq File /\ stale' \subseteq File
  BY NotedTyped, AgedTyped DEF Others, Clearing
<1>2. CASE StartVpn
  <2>1. ex' \in ExtractionType
    <3>1. CASE ex' = [NoExtraction EXCEPT !.pc = "check"]
      BY <3>1, GeoAssumption DEF NoExtraction, ExtractionType, File
    <3>2. QED
      BY <1>2, <3>1 DEF StartVpn, Typed, ExtractionType
  <2>2. vpn' \in {"down", "starting", "up"} /\ missed' \subseteq File
    BY <1>2 DEF StartVpn, Load, Typed
  <2>3. QED
    BY <1>1, <1>2, <2>1, <2>2
       DEF StartVpn, Typed, ExtractionType, prefVars, faultVars
<1>3. CASE StopVpn
  <2>1. left' \in Nat
    BY <1>3 DEF StopVpn, Event, Typed
  <2>2. vpn' \in {"down", "starting", "up"} /\ missed' \subseteq File
    BY <1>3 DEF StopVpn
  <2>3. QED
    BY <1>1, <1>3, <2>1, <2>2 DEF StopVpn, Typed, prefVars, faultVars
<1>9. CASE Connected
  BY <1>1, <1>9 DEF Connected, Typed, prefVars, faultVars
<1>4. ASSUME NEW p \in Profile, SetGeoProfile(p) PROVE Typed'
  BY <1>1, <1>4 DEF SetGeoProfile, Event, Typed, engineVars, faultVars
<1>5. ASSUME NEW p \in Profile, Publish(p) PROVE Typed'
  <2>1. release[p] + left <= MaxEvents + 1 /\ left \in Nat /\ left > 0
        /\ release[p] \in 1 .. MaxEvents + 1 /\ MaxEvents \in Nat
    BY <1>5, GeoAssumption DEF Bounded, Typed, Publish, Event
  <2>2. release[p] + 1 \in 1 .. MaxEvents + 1 /\ left - 1 \in Nat
    BY <2>1
  <2>3. release' \in [Profile -> 1 .. MaxEvents + 1]
    BY <1>5, <2>2 DEF Publish, Typed
  <2>4. QED
    BY <1>1, <1>5, <2>2, <2>3 DEF Publish, Event, Typed, engineVars, faultVars
<1>6. CASE Crash
  <2>1. up' \in [Updater -> Record]
    <3>1. Idle \in Record
      BY GeoAssumption DEF Idle, Record, File, Version
    <3>2. QED
      BY <1>6, <3>1 DEF Crash
  <2>2. ex' \in ExtractionType
    BY <1>6, GeoAssumption DEF Crash, NoExtraction, ExtractionType, File
  <2>3. torn' \subseteq File /\ kept' \subseteq File
    BY <1>6 DEF Crash, Typed
  <2>4. left' \in Nat
    BY <1>6 DEF Crash, Event, Typed
  <2>5. /\ clearing' \in BOOLEAN /\ inited' \in BOOLEAN
        /\ vpn' \in {"down", "starting", "up"} /\ missed' \subseteq File
    BY <1>6 DEF Crash
  <2>6. QED
    BY <1>1, <1>6, <2>1, <2>2, <2>3, <2>4, <2>5 DEF Crash, Typed, ExtractionType
<1>7. CASE ClearEtags
  BY <1>1, <1>7 DEF ClearEtags, Typed, engineVars, faultVars
<1>8. QED
  BY <1>2, <1>3, <1>4, <1>5, <1>6, <1>7, <1>9 DEF Others, Clearing

\* The releases and the events that are left stay within the bound.
LEMMA BoundedKept ==
    ASSUME Typed, Bounded, Next
    PROVE  Bounded'
<1>1. /\ left \in Nat /\ MaxEvents \in Nat
      /\ \A p \in Profile : release[p] \in 1 .. MaxEvents + 1
  BY GeoAssumption DEF Typed
<1>2. CASE UNCHANGED release /\ (UNCHANGED left \/ Event)
  BY <1>1, <1>2 DEF Bounded, Event
<1>3. ASSUME NEW p \in Profile, Publish(p) PROVE Bounded'
  <2>1. left' = left - 1 /\ left > 0
        /\ \A q \in Profile : release'[q] = IF q = p THEN release[q] + 1
                                                     ELSE release[q]
    BY <1>3 DEF Publish, Event, Typed
  <2>2. QED
    BY <1>1, <2>1 DEF Bounded
<1>4. CASE \E u \in Updater : UpdaterNext(u)
  <2>1. UNCHANGED release /\ (UNCHANGED left \/ Event)
    BY <1>4 DEF UpdaterNext, UpdateAll, Answered, Throws, Write, WriteFails,
       CheckLength, VerifySha256, DeleteDest, Rename, SaveEtag, Finish, Cancelled,
       Restart, prefVars
  <2>2. QED
    BY <1>2, <2>1
<1>5. CASE Engine
  <2>1. UNCHANGED release /\ (UNCHANGED left \/ Event)
    BY <1>5 DEF Engine, ExtractCheck, ExtractOpen, ExtractCopy, ExtractFails,
       ExtractNext, prefVars
  <2>2. QED
    BY <1>2, <2>1
<1>6. CASE Others \/ Clearing
  BY <1>2, <1>3, <1>6 DEF Others, Clearing, StartVpn, Connected, StopVpn,
     SetGeoProfile, Crash, ClearEtags, prefVars
<1>7. QED
  BY <1>4, <1>5, <1>6 DEF Next

\* The streams of every updater stay in files that exist.
LEMMA UpdaterOpen ==
    ASSUME Typed, Streams, NEW u \in Updater, UpdaterNext(u),
           NEW w \in Updater
    PROVE  /\ up'[w].open = "tmp" => tmp'[up'[w].file] # None
           /\ up'[w].open = "dest" => dest'[up'[w].file] # None
<1> DEFINE Fine == /\ up'[w].open = "tmp" => tmp'[up'[w].file] # None
                   /\ up'[w].open = "dest" => dest'[up'[w].file] # None
<1>1. /\ up[u] \in Record /\ up[u].file \in File /\ up[u].got \in Version
      /\ up[w] \in Record /\ up[w].file \in File /\ up[u].pos \in 0 .. Chunks
      /\ up[w].open \in {"tmp", "dest", "gone"}
      /\ dest \in [File -> Contents \cup {None}]
      /\ tmp \in [File -> Contents \cup {None}]
  BY DEF Typed, Record
<1>2. /\ up[w].open = "tmp" => tmp[up[w].file] # None
      /\ up[w].open = "dest" => dest[up[w].file] # None
  BY DEF Streams
<1>3. Frame(u) /\ up' \in [Updater -> Record]
  BY UpdaterFacts
<1>4. w # u => up'[w].file = up[w].file
  BY <1>3 DEF Frame, Same
<1>5. CASE UpdateAll(u) \/ SaveEtag(u)
  <2>1. up'[u].open = "gone" /\ (w # u => up'[w] = up[w])
        /\ UNCHANGED <<dest, tmp>>
    BY <1>5, UpdateAllFacts, SaveEtagFacts DEF Began, Saved, Onward, UpdateAll,
       SaveEtag, Typed
  <2>2. QED
    BY <1>2, <2>1
<1>6. CASE Throws(u) \/ Cancelled(u)
  <2>1. up'[u].open = "gone" /\ (w # u => up'[w] = up[w])
        /\ UNCHANGED <<dest, tmp>>
    BY <1>6, ThrowsFacts DEF Threw, Idle, Throws, Cancelled, Typed
  <2>2. QED
    BY <1>2, <2>1
<1>7. CASE Answered(u)
  <2>1. dest' = dest /\ (w # u => up'[w] = up[w])
    BY <1>7 DEF Answered, Typed
  <2>2. CASE up' = [up EXCEPT ![u] = NextFile(up[u])] /\ UNCHANGED tmp
    <3>1. PICK q : q = up[u] /\ q \in Record
      BY <1>1
    <3>2. NextFile(q).open = "gone"
      BY <3>1, NextFileFacts
    <3>3. up'[u] = NextFile(q)
      BY <2>2, <3>1 DEF Typed
    <3>4. QED
      BY <1>2, <2>1, <2>2, <3>2, <3>3
  <2>3. CASE /\ up' = [up EXCEPT ![u] = [up[u] EXCEPT !.pc = "write", !.tag = None,
                  !.early = FALSE, !.got = Latest(up[u].prof), !.open = "tmp"]]
             /\ tmp' = [tmp EXCEPT ![up[u].file] = <<>>]
    <3>1. up'[u].file = up[u].file /\ up'[u].open = "tmp"
      BY <1>1, <2>3 DEF Typed, Record
    <3>2. tmp'[up[u].file] # None /\ \A f \in File : tmp[f] # None => tmp'[f] # None
      BY <1>1, <2>3, EmptyTyped
    <3>3. QED
      BY <1>1, <1>2, <2>1, <3>1, <3>2
  <2>4. QED
    BY <1>7, <2>2, <2>3 DEF Answered
<1>8. CASE Write(u)
  <2>1. up[u].pos + 1 \in 1 .. Chunks
    BY <1>1, <1>8, GeoAssumption DEF Streams, Write
  <2>2. /\ up[u].open = "tmp" =>
               WriteAt(tmp[up[u].file], up[u].pos + 1, up[u].got) # None
        /\ up[u].open = "dest" =>
               WriteAt(dest[up[u].file], up[u].pos + 1, up[u].got) # None
    BY <1>1, <2>1, WriteTyped DEF Streams
  <2>3. \A f \in File : /\ tmp[f] # None => tmp'[f] # None
                        /\ dest[f] # None => dest'[f] # None
    BY <1>1, <1>8, <2>2 DEF Write
  <2>4. /\ up'[u].file = up[u].file
        /\ up'[u].open = up[u].open \/ up'[u].open = "gone"
    BY <1>8, WriteFacts DEF Wrote, Stays
  <2>5. w # u => up'[w] = up[w]
    BY <1>8 DEF Write, Typed
  <2>6. QED
    BY <1>1, <1>2, <2>3, <2>4, <2>5
<1>9. CASE GivesUp(u) /\ UNCHANGED dest
  <2>1. /\ Onward(u, up[u].updated)
        /\ w # u => up'[w] = Follow(up[w], up[u].file, "tmp", "gone")
        /\ tmp' = [tmp EXCEPT ![up[u].file] = None]
    BY <1>9, GivesUpFacts
  <2>2. w # u => up'[w].open = IF up[w].file = up[u].file /\ up[w].open = "tmp"
                               THEN "gone" ELSE up[w].open
    BY <1>1, <2>1 DEF Follow, Record
  <2>3. QED
    BY <1>1, <1>2, <1>4, <1>9, <2>1, <2>2 DEF Onward
<1>10. CASE Advanced(u)
  <2>1. /\ up'[u].file = up[u].file /\ up'[u].open = up[u].open
        /\ UNCHANGED <<dest, tmp>>
    BY <1>10 DEF Advanced, Stays
  <2>2. w # u => up'[w] = up[w]
    <3>1. \/ Goes(u, "verify") \/ Goes(u, "delete") \/ GivesUp(u)
          \/ ~(WriteFails(u) \/ CheckLength(u) \/ VerifySha256(u))
      BY DEF WriteFails, CheckLength, VerifySha256
    <3>2. GivesUp(u) => up'[u].pc \in {"answer", "end"}
      BY GivesUpFacts DEF Onward
    <3>3. up[u].pc \in {"check", "verify"} /\ up'[u].pc \in {"verify", "delete"}
      BY <1>10 DEF Advanced, Is
    <3>4. ~(UpdateAll(u) \/ Answered(u) \/ Throws(u) \/ Write(u) \/ DeleteDest(u)
            \/ Rename(u) \/ SaveEtag(u) \/ Finish(u) \/ Cancelled(u) \/ Restart(u))
      BY <3>3 DEF UpdateAll, Answered, Throws, Write, DeleteDest, Rename,
         SaveEtag, Finish, Cancelled, Restart, Is
    <3>5. Goes(u, "verify") \/ Goes(u, "delete")
      BY <3>1, <3>2, <3>3, <3>4 DEF UpdaterNext
    <3>6. QED
      BY <3>5 DEF Goes, Typed
  <2>3. QED
    BY <1>2, <2>1, <2>2
<1>11. CASE DeleteDest(u)
  <2>1. /\ Deleted(u)
        /\ up'[u].open = Follow(up[u], up[u].file, "dest", "gone").open
        /\ w # u => up'[w] = Follow(up[w], up[u].file, "dest", "gone")
    BY <1>11, DeleteDestFacts
  <2>2. /\ up'[w].open = IF up[w].file = up[u].file /\ up[w].open = "dest"
                         THEN "gone" ELSE up[w].open
        /\ up'[w].file = up[w].file
    BY <1>1, <1>4, <2>1 DEF Follow, Record, Deleted, Stays
  <2>3. dest' = [dest EXCEPT ![up[u].file] = None] /\ tmp' = tmp
    BY <1>11 DEF DeleteDest
  <2>4. QED
    BY <1>1, <1>2, <2>2, <2>3
<1>12. CASE Renamed(u)
  <2>1. Rename(u)
    BY <1>12 DEF Renamed, UpdaterNext, UpdateAll, Answered, Throws, Write,
       WriteFails, CheckLength, VerifySha256, DeleteDest, SaveEtag, Finish,
       Cancelled, Restart, Is
  <2>2. ~GaveUp(u) /\ ~Lost(u)
    BY <1>12 DEF Renamed, GaveUp, Lost, Onward
  <2>3. /\ tmp[up[u].file] # None
        /\ dest' = [dest EXCEPT ![up[u].file] = tmp[up[u].file]]
        /\ tmp' = [tmp EXCEPT ![up[u].file] = None]
        /\ up'[u].open = Replaced(up[u].file)[u].open
        /\ w # u => up'[w] = Replaced(up[u].file)[w]
    BY <2>1, <2>2, RenameFacts
  <2>4. up'[w].open = Replaced(up[u].file)[w].open /\ up'[w].file = up[w].file
    BY <1>4, <1>12, <2>3 DEF Renamed, Stays
  <2>5. Replaced(up[u].file)[w].open =
          IF up[w].file # up[u].file THEN up[w].open
          ELSE IF up[w].open = "tmp" THEN "dest" ELSE "gone"
    <3>1. PICK s : s = Replaced(up[u].file)[w]
      OBVIOUS
    <3>2. s = Follow(Follow(up[w], up[u].file, "dest", "gone"), up[u].file,
                     "tmp", "dest")
      BY <3>1 DEF Replaced
    <3>3. QED
      BY <1>1, <3>1, <3>2, ReplacedFacts
  <2>6. QED
    BY <1>1, <1>2, <2>3, <2>4, <2>5
<1>13. CASE Finish(u) \/ Restart(u)
  <2>1. /\ up'[u].open = "gone" \/ up'[u] = [up[u] EXCEPT !.pc = "idle"]
        /\ w # u => up'[w] = up[w]
        /\ UNCHANGED <<dest, tmp>>
    BY <1>13, FinishFacts DEF Finish, Restart, Goes, Typed
  <2>2. up'[u] = [up[u] EXCEPT !.pc = "idle"] =>
            up'[u].open = up[u].open /\ up'[u].file = up[u].file
    BY <1>1 DEF Record
  <2>3. QED
    BY <1>2, <2>1, <2>2
<1>14. QED
  <2>1. CASE WriteFails(u) \/ CheckLength(u) \/ VerifySha256(u)
    <3>1. (GivesUp(u) /\ UNCHANGED dest) \/ Advanced(u)
      <4>1. CASE GivesUp(u)
        BY <2>1, <4>1 DEF WriteFails, CheckLength, VerifySha256
      <4>2. CASE Goes(u, "verify") \/ Goes(u, "delete")
        <5>1. up'[u].pc \in {"verify", "delete"}
          BY <1>1, <4>2 DEF Goes, Typed, Record
        <5>2. ~GaveUp(u)
          BY <5>1 DEF GaveUp, Onward
        <5>3. QED
          BY <2>1, <5>2, ChecksFacts
      <4>3. QED
        BY <2>1, <4>1, <4>2 DEF WriteFails, CheckLength, VerifySha256
    <3>2. QED
      BY <1>9, <1>10, <3>1
  <2>2. CASE Rename(u)
    BY <1>9, <1>12, <2>2, RenameFacts DEF GaveUp, Lost
  <2>3. QED
    BY <1>5, <1>6, <1>7, <1>8, <1>11, <1>13, <2>1, <2>2 DEF UpdaterNext

\* An updater's step keeps the streams in order.
LEMMA UpdaterStreams ==
    ASSUME Typed, Streams, NEW u \in Updater, UpdaterNext(u)
    PROVE  Streams'
<1>1. Frame(u) /\ Outcome(u) /\ up' \in [Updater -> Record]
  BY UpdaterFacts
<1>2. /\ up[u] \in Record /\ up[u].file \in File /\ up[u].pos \in 0 .. Chunks
      /\ up[u].got \in Version /\ dest \in [File -> Contents \cup {None}]
      /\ Chunks \in Nat \ {0} /\ ex.file \in File /\ ex.open \in {"dest", "gone"}
  BY GeoAssumption DEF Typed, Record
<1>3. ASSUME NEW w \in Updater
      PROVE  /\ up'[w].pc = "write" => up'[w].pos < Chunks
             /\ up'[w].pc = "answer" => up'[w].pos = 0
  <2>1. CASE w # u
    BY <1>1, <2>1 DEF Frame, Same, Streams, Is
  <2>2. CASE w = u
    <3>1. CASE Began(u) \/ GaveUp(u) \/ Lost(u) \/ Saved(u)
      BY <2>2, <3>1 DEF Began, GaveUp, Lost, Saved, Onward
    <3>2. CASE Threw(u) \/ Advanced(u) \/ Deleted(u) \/ Renamed(u) \/ Finished(u)
               \/ Restarted(u)
      BY <2>2, <3>2 DEF Threw, Idle, Advanced, Deleted, Renamed, Finished,
         Restarted
    <3>3. CASE Opened(u)
      BY <1>2, <2>2, <3>3 DEF Opened, Streams
    <3>4. CASE Wrote(u)
      BY <1>2, <2>2, <3>4 DEF Wrote, Streams
    <3>5. QED
      BY <1>1, <3>1, <3>2, <3>3, <3>4 DEF Outcome
  <2>3. QED
    BY <2>1, <2>2
<1>4. ex'.open = "dest" => dest'[ex'.file] # None
  <2>1. ex.open = "dest" => dest[ex.file] # None
    BY DEF Streams
  <2>2. CASE Write(u)
    <3>1. up[u].pos + 1 \in 1 .. Chunks
      BY <1>2, <2>2 DEF Streams, Write
    <3>2. up[u].open = "dest" =>
               WriteAt(dest[up[u].file], up[u].pos + 1, up[u].got) # None
      BY <1>2, <3>1, WriteTyped DEF Streams
    <3>3. dest[ex.file] # None => dest'[ex.file] # None
      BY <1>2, <2>2, <3>2 DEF Write
    <3>4. ex' = ex
      BY <2>2 DEF Write
    <3>5. QED
      BY <2>1, <3>3, <3>4
  <2>3. CASE DeleteDest(u)
    <3>1. /\ ex'.file = ex.file
          /\ ex'.open = IF ex.file = up[u].file THEN "gone" ELSE ex.open
      BY <1>2, <2>3, ExtractionFollows DEF DeleteDest
    <3>2. dest' = [dest EXCEPT ![up[u].file] = None]
      BY <2>3 DEF DeleteDest
    <3>3. QED
      BY <1>2, <2>1, <3>1, <3>2
  <2>4. CASE Rename(u)
    <3>1. CASE (GaveUp(u) \/ Lost(u)) /\ ex' = ex
      BY <2>1, <3>1 DEF GaveUp, Lost
    <3>2. CASE /\ ex' = Follow(ex, up[u].file, "dest", "gone")
               /\ dest' = [dest EXCEPT ![up[u].file] = tmp[up[u].file]]
      <4>1. /\ ex'.file = ex.file
            /\ ex'.open = IF ex.file = up[u].file THEN "gone" ELSE ex.open
        BY <1>2, <3>2, ExtractionFollows
      <4>2. QED
        BY <1>2, <2>1, <3>2, <4>1
    <3>3. QED
      BY <2>4, <3>1, <3>2, RenameFacts
  <2>5. CASE UNCHANGED <<dest, ex>>
    BY <2>1, <2>5
  <2>6. QED
    BY <2>2, <2>3, <2>4, <2>5 DEF UpdaterNext, UpdateAll, Answered, Throws,
       WriteFails, CheckLength, VerifySha256, SaveEtag, Finish, Cancelled,
       Restart
<1>5. /\ ex'.pc = "copy" => ex'.pos < Chunks
      /\ ex'.pc \in {"check", "open"} => ex'.pos = 0 /\ ex'.open = "gone"
  <2>1. ex'.open = ex.open \/ ex'.open = "gone"
    <3>1. CASE ex' = Follow(ex, up[u].file, "dest", "gone")
      BY <1>2, <3>1, ExtractionFollows
    <3>2. QED
      BY <3>1, RenameFacts DEF UpdaterNext, UpdateAll, Answered, Throws, Write,
         WriteFails, CheckLength, VerifySha256, DeleteDest, SaveEtag, Finish,
         Cancelled, Restart
  <2>2. QED
    BY <1>1, <2>1 DEF Frame, Streams
<1>6. \A w \in Updater :
        /\ up'[w].open = "tmp" => tmp'[up'[w].file] # None
        /\ up'[w].open = "dest" => dest'[up'[w].file] # None
  BY UpdaterOpen
<1>7. QED
  BY <1>3, <1>4, <1>5, <1>6 DEF Streams, Is

\* So does the extraction.
LEMMA ExtractionStreams ==
    ASSUME Typed, Streams, Engine
    PROVE  Streams'
<1>1. /\ ExtractionFrame /\ ex' \in ExtractionType
      /\ Cleared \/ Created \/ Copied \/ Failed \/ Passed
  BY ExtractionFacts
<1>2. /\ ex.file \in File /\ ex.pos \in 0 .. Chunks /\ Asset \in Version
      /\ ex.open \in {"dest", "gone"} /\ Chunks \in Nat \ {0}
      /\ dest \in [File -> Contents \cup {None}]
      /\ \A w \in Updater : up[w] \in Record /\ up[w].file \in File
  BY GeoAssumption DEF Typed, Version, Record
<1>3. Copied /\ ex.open = "dest" => dest'[ex.file] # None
  <2>1. SUFFICES ASSUME Copied, ex.open = "dest" PROVE dest'[ex.file] # None
    OBVIOUS
  <2>2. ex.pos + 1 \in 1 .. Chunks
    BY <1>2, <2>1 DEF Streams, Copied
  <2>3. WriteAt(dest[ex.file], ex.pos + 1, Asset) # None
    BY <1>2, <2>1, <2>2, WriteTyped DEF Streams
  <2>4. QED
    BY <2>1, <2>3 DEF Copied
<1>4. \A f \in File : dest[f] # None => dest'[f] # None \/ (Cleared /\ f = ex.file)
  BY <1>1, <1>2, <1>3, EmptyTyped
     DEF ExtractionFrame, Created, Copied, Failed, Passed
<1>5. ASSUME NEW w \in Updater
      PROVE  /\ up'[w].pc = "write" => up'[w].pos < Chunks
             /\ up'[w].pc = "answer" => up'[w].pos = 0
             /\ up'[w].open = "tmp" => tmp'[up'[w].file] # None
             /\ up'[w].open = "dest" => dest'[up'[w].file] # None
  <2>1. /\ up'[w].pc = "write" => up'[w].pos < Chunks
        /\ up'[w].pc = "answer" => up'[w].pos = 0
        /\ up'[w].file = up[w].file
        /\ up[w].open # "dest" => up'[w] = up[w]
    BY <1>1 DEF ExtractionFrame, Same, Streams, Is
  <2>2. up[w].open = "dest" =>
            /\ up'[w].open \in {"dest", "gone"}
            /\ Cleared /\ up[w].file = ex.file => up'[w].open = "gone"
    <3>1. CASE up' = up /\ ~Cleared
      BY <3>1
    <3>2. CASE up' = Moved(ex.file, "dest", "gone")
      BY <1>2, <3>2 DEF Moved, Follow, Record
    <3>3. CASE ExtractCheck
      BY <3>1, <3>2, <3>3 DEF ExtractCheck, Cleared
    <3>4. QED
      BY <3>1, <3>3 DEF Engine, ExtractOpen, ExtractCopy, ExtractFails,
         ExtractNext, Cleared
  <2>3. /\ up[w].open = "tmp" => tmp[up[w].file] # None
        /\ up[w].open = "dest" => dest[up[w].file] # None
    BY DEF Streams
  <2>4. QED
    BY <1>1, <1>2, <1>4, <2>1, <2>2, <2>3 DEF ExtractionFrame
<1>6. /\ ex'.pc = "copy" => ex'.pos < Chunks
      /\ ex'.pc \in {"check", "open"} => ex'.pos = 0 /\ ex'.open = "gone"
      /\ ex'.open = "dest" => dest'[ex'.file] # None
  <2>1. CASE Cleared
    BY <2>1 DEF Cleared, Streams
  <2>2. CASE Created
    BY <1>2, <2>2, EmptyTyped DEF Created, Streams
  <2>3. CASE Copied
    BY <1>2, <1>3, <2>3 DEF Copied, Streams
  <2>4. CASE Failed \/ Passed
    BY <2>4 DEF Failed, Passed
  <2>5. QED
    BY <1>1, <2>1, <2>2, <2>3, <2>4
<1>7. QED
  BY <1>5, <1>6 DEF Streams, Is

\* And the steps of the user, the servers and the system.
LEMMA OthersStreams ==
    ASSUME Typed, Streams, Others \/ Clearing
    PROVE  Streams'
<1>1. CASE Crash
  <2>1. /\ \A w \in Updater : up'[w].pc = "idle" /\ up'[w].open = "gone"
        /\ ex'.pc = "idle" /\ ex'.open = "gone"
    BY <1>1 DEF Crash, Idle, NoExtraction
  <2>2. QED
    BY <2>1 DEF Streams, Is
<1>2. CASE StartVpn
  <2>1. UNCHANGED <<up, dest, tmp>>
    BY <1>2 DEF StartVpn
  <2>2. ex' = ex \/ ex' = [NoExtraction EXCEPT !.pc = "check"]
    BY <1>2 DEF StartVpn
  <2>3. QED
    BY <2>1, <2>2 DEF Streams, Is, NoExtraction
<1>3. CASE UNCHANGED <<up, dest, tmp, ex>>
  BY <1>3 DEF Streams, Is
<1>4. QED
  BY <1>1, <1>2, <1>3 DEF Others, Clearing, Connected, StopVpn, SetGeoProfile, Publish,
     ClearEtags

\* Two writers of a file are noted by the step that brings them together.
LEMMA AloneKept == ASSUME Noted PROVE Alone'
<1>1. \A u \in Updater : \A f \in File :
        InHand(u, f)' /\ f \notin overlap' =>
            /\ \A w \in Updater \ {u} : ~InHand(w, f)'
            /\ ~(ex'.file = f /\ ex'.pc \in {"open", "copy"})
  BY DEF Noted
<1>2. QED
  BY <1>1 DEF Alone

\* Versions stay published when the releases only grow.
LEMMA RealKept ==
    ASSUME Typed, Typed', NEW v, Real(v), \A p \in Profile : release[p] <= release'[p]
    PROVE  v = <<v[1], v[2]>> /\ v[1] \in Profile /\ v[2] \in 1 .. release'[v[1]]
<1>1. v[1] \in Profile /\ v[2] \in 1 .. release[v[1]]
      /\ release[v[1]] \in 1 .. MaxEvents + 1 /\ MaxEvents \in Nat
      /\ release'[v[1]] \in 1 .. MaxEvents + 1
  BY GeoAssumption DEF Real, Typed
<1>2. release[v[1]] <= release'[v[1]]
  BY <1>1
<1>3. QED
  BY <1>1, <1>2 DEF Real

\* The saved ETags, the ones that were sent and the versions that are being
\* installed are published ones after an updater's step.
LEMMA UpdaterPublished ==
    ASSUME Typed, Streams, Published, NEW u \in Updater, UpdaterNext(u)
    PROVE  Published'
<1>1. Frame(u) /\ Outcome(u) /\ up[u].file \in File /\ up[u].prof \in Profile
  BY UpdaterFacts DEF Typed, Record
<1>2. /\ \A f \in File : etag[f] # None => Real(etag[f])
      /\ \A w \in Updater : up[w].tag # None => Real(up[w].tag)
      /\ \A w \in Updater :
           Installing(w) => Real(up[w].got) /\ up[w].got[1] = up[w].prof
      /\ "geoip.dat" \in File /\ "geosite.dat" \in File
  BY DEF Published, File
<1>3. Real(Latest(up[u].prof)) /\ Latest(up[u].prof)[1] = up[u].prof
  BY <1>1, LatestReal
<1>4. release' = release
  BY <1>1 DEF Frame
<1>5. ASSUME NEW f \in File PROVE etag'[f] # None => Real(etag'[f])
  <2>1. CASE Saved(u) /\ up[u].file = f
    BY <1>2, <2>1 DEF Saved, Installing, Is
  <2>2. CASE etag'[f] = etag[f]
    BY <1>2, <2>2
  <2>3. QED
    BY <1>1, <2>1, <2>2 DEF Frame, Outcome, Began, GaveUp, Threw, Lost, Opened, Wrote,
       Advanced, Deleted, Renamed, Saved, Finished, Restarted, Stays, InHand
<1>6. ASSUME NEW w \in Updater
      PROVE  /\ up'[w].tag # None => Real(up'[w].tag)
             /\ up'[w].pc \in {"write", "check", "verify", "delete", "rename",
                               "save"} =>
                    Real(up'[w].got) /\ up'[w].got[1] = up'[w].prof
  <2>1. CASE w # u
    BY <1>1, <1>2, <2>1 DEF Frame, Same, Installing
  <2>2. CASE w = u
    <3>1. CASE Began(u) \/ GaveUp(u) \/ Lost(u) \/ Saved(u)
      BY <1>2, <2>2, <3>1 DEF Began, GaveUp, Lost, Saved, Onward
    <3>2. CASE Threw(u) \/ Finished(u) \/ Restarted(u)
      BY <1>2, <2>2, <3>2 DEF Threw, Idle, Finished, Restarted
    <3>3. CASE Opened(u)
      BY <1>3, <2>2, <3>3 DEF Opened
    <3>4. CASE Wrote(u) \/ Advanced(u) \/ Deleted(u) \/ Renamed(u)
      BY <1>2, <2>2, <3>4
         DEF Wrote, Advanced, Deleted, Renamed, Stays, Installing, Is
    <3>5. QED
      BY <1>1, <3>1, <3>2, <3>3, <3>4 DEF Outcome
  <2>3. QED
    BY <2>1, <2>2
<1>7. QED
  BY <1>4, <1>5, <1>6 DEF Published, Real, Installing

\* And after any other.
LEMMA OthersPublished ==
    ASSUME Typed, Typed', Streams, Published, Engine \/ Others \/ Clearing
    PROVE  Published'
<1>1. \A p \in Profile : release[p] <= release'[p]
  <2>1. CASE Engine
    BY <2>1, ExtractionFacts, GeoAssumption DEF ExtractionFrame, Typed
  <2>2. ASSUME NEW p \in Profile, Publish(p)
        PROVE  \A q \in Profile : release[q] <= release'[q]
    BY <2>2, GeoAssumption DEF Publish, Typed
  <2>3. CASE UNCHANGED release
    BY <2>3, GeoAssumption DEF Typed
  <2>4. QED
    BY <2>1, <2>2, <2>3 DEF Others, Clearing, StartVpn, Connected, StopVpn,
       SetGeoProfile, Crash, ClearEtags, prefVars
<1>2. \A f \in File : etag'[f] = None \/ etag'[f] = etag[f]
  <2>1. CASE Engine
    BY <2>1, ExtractionFacts DEF ExtractionFrame
  <2>2. QED
    BY <2>1 DEF Others, Clearing, StartVpn, Connected, StopVpn, SetGeoProfile,
       Publish, Crash, ClearEtags, prefVars
<1>3. \A w \in Updater : Same(w) \/ (up'[w].pc = "idle" /\ up'[w].tag = None)
  <2>1. CASE Engine
    BY <2>1, ExtractionFacts DEF ExtractionFrame
  <2>2. CASE Crash
    BY <2>2 DEF Crash, Idle
  <2>3. CASE UNCHANGED up
    BY <2>3 DEF Same
  <2>4. QED
    BY <2>1, <2>2, <2>3 DEF Others, Clearing, StartVpn, Connected, StopVpn,
       SetGeoProfile, Publish, ClearEtags
<1>4. ASSUME NEW f \in File, etag'[f] # None
      PROVE  Real(etag[f])'
  <2>1. etag'[f] = etag[f] /\ Real(etag[f])
    BY <1>2, <1>4 DEF Published
  <2>2. QED
    BY <1>1, <2>1, RealKept DEF Real
<1>5. ASSUME NEW w \in Updater, up'[w].tag # None
      PROVE  Real(up[w].tag)'
  <2>1. up'[w].tag = up[w].tag /\ Real(up[w].tag)
    BY <1>3, <1>5 DEF Published, Same
  <2>2. QED
    BY <1>1, <2>1, RealKept DEF Real
<1>6. ASSUME NEW w \in Updater, Installing(w)'
      PROVE  Real(up[w].got)' /\ up'[w].got[1] = up'[w].prof
  <2>1. /\ up'[w].got = up[w].got /\ Real(up[w].got)
        /\ up'[w].got[1] = up'[w].prof
    BY <1>3, <1>6 DEF Published, Same, Installing
  <2>2. QED
    BY <1>1, <2>1, RealKept DEF Real
<1>7. QED
  BY <1>4, <1>5, <1>6 DEF Published
-----------------------------------------------------------------------------
(* The one writer of a file. *)

\* What a step of u leaves alone for another updater w: all of its file, unless
\* two had that in hand.
LEMMA Bystander ==
    ASSUME Typed, Alone, NEW u \in Updater, Frame(u), Noted,
           NEW w \in Updater \ {u}, InHand(w, up[w].file),
           up'[w].file \notin overlap'
    PROVE  /\ up[w].file \in File /\ up[w].file \notin overlap
           /\ up'[w] = up[w] /\ dest'[up[w].file] = dest[up[w].file]
           /\ tmp'[up[w].file] = tmp[up[w].file]
           /\ etag'[up[w].file] = etag[up[w].file]
<1>1. up[w].file \in File /\ up'[w].file = up[w].file
  BY DEF Typed, Record, Frame, Same
<1>2. up[w].file \notin overlap
  BY <1>1, NotedTyped
<1>3. ~InHand(u, up[w].file)
  BY <1>1, <1>2 DEF Alone
<1>4. QED
  BY <1>1, <1>2, <1>3 DEF Frame

\* The download of the one writer goes on as it should.
LEMMA UpdaterProgress ==
    ASSUME Typed, Streams, Alone, Published, \A w \in Updater : Progress(w),
           NEW u \in Updater, UpdaterNext(u), NEW w \in Updater
    PROVE  Progress(w)'
<1>1. Frame(u) /\ Outcome(u) /\ Noted /\ overlap \subseteq overlap'
  BY UpdaterFacts, NotedTyped DEF UpdaterNext
<1>2. up[u] \in Record /\ up[u].file \in File /\ up[u].pos \in 0 .. Chunks
      /\ Chunks \in Nat
  BY GeoAssumption DEF Typed, Record
<1>3. CASE w # u
  <2>1. CASE InHand(w, up[w].file) /\ up'[w].file \notin overlap'
    <3>1. /\ up[w].file \notin overlap
          /\ up'[w] = up[w] /\ dest'[up[w].file] = dest[up[w].file]
          /\ tmp'[up[w].file] = tmp[up[w].file]
      BY <1>1, <1>3, <2>1, Bystander
    <3>2. QED
      BY <3>1 DEF Progress, Is
  <2>2. CASE ~InHand(w, up[w].file)
    <3>1. up'[w].pc \in {"idle", "end", "restart"}
      BY <1>1, <1>3, <2>2 DEF Frame, Same, InHand
    <3>2. QED
      BY <3>1 DEF Progress, Is
  <2>3. QED
    BY <2>1, <2>2 DEF Progress
<1>4. CASE w = u
  <2> SUFFICES ASSUME up'[u].file \notin overlap' PROVE Progress(u)'
    BY <1>4 DEF Progress
  <2>1. CASE Began(u) \/ GaveUp(u) \/ Lost(u) \/ Threw(u) \/ Saved(u)
             \/ Finished(u) \/ Restarted(u)
    BY <2>1 DEF Began, GaveUp, Lost, Onward, Threw, Idle, Saved, Finished,
       Restarted, Progress, Is
  <2>2. CASE Opened(u)
    <3>1. /\ up'[u].pc = "write" /\ up'[u].open = "tmp" /\ up'[u].pos = 0
          /\ tmp'[up'[u].file] = <<>>
      BY <2>2 DEF Opened, Streams
    <3>2. Part(up'[u].got, 0) = <<>>
      BY DEF Part
    <3>3. QED
      BY <3>1, <3>2 DEF Progress, Is
  <2>3. CASE Wrote(u)
    <3>1. /\ up[u].file \notin overlap /\ up[u].open = "tmp"
          /\ tmp[up[u].file] = Part(up[u].got, up[u].pos)
      BY <1>1, <2>3 DEF Wrote, Stays, Progress
    <3>2. tmp'[up[u].file] = Part(up[u].got, up[u].pos + 1)
      BY <1>2, <2>3, <3>1, WriteNext DEF Wrote
    <3>3. Whole(up[u].got) = Part(up[u].got, Chunks)
      BY DEF Whole, Part
    <3>4. CASE up'[u].pc = "write"
      BY <2>3, <3>1, <3>2, <3>4 DEF Wrote, Stays, Progress, Is
    <3>5. CASE up'[u].pc = "check"
      BY <2>3, <3>2, <3>3, <3>5 DEF Wrote, Stays, Progress, Is
    <3>6. QED
      BY <2>3, <3>4, <3>5 DEF Wrote
  <2>4. CASE Advanced(u) \/ Deleted(u) \/ Renamed(u)
    <3>1. up'[u].file = up[u].file /\ up'[u].got = up[u].got
          /\ up[u].file \notin overlap
      BY <1>1, <2>4 DEF Advanced, Deleted, Renamed, Stays
    <3>2. tmp[up[u].file] = Whole(up[u].got)
      BY <2>4, <3>1 DEF Advanced, Deleted, Renamed, Progress, Is
    <3>3. QED
      BY <2>4, <3>1, <3>2 DEF Advanced, Deleted, Renamed, Progress, Is
  <2>5. QED
    BY <1>1, <2>1, <2>2, <2>3, <2>4 DEF Outcome
<1>5. QED
  BY <1>3, <1>4

\* Its ETag is the one it asked with, and not the latest once it has an answer.
LEMMA UpdaterAsked ==
    ASSUME Typed, Streams, Alone, Published,
           \A w \in Updater : Asked(w) /\ Replaces(w),
           NEW u \in Updater, UpdaterNext(u), NEW w \in Updater
    PROVE  Asked(w)' /\ Replaces(w)'
<1>1. Frame(u) /\ Outcome(u) /\ Noted /\ overlap \subseteq overlap'
  BY UpdaterFacts, NotedTyped DEF UpdaterNext
<1>2. /\ up[u] \in Record /\ up[u].file \in File /\ up[u].prof \in Profile
      /\ release' = release
  BY <1>1 DEF Typed, Record, Frame
<1>3. CASE w # u
  <2>1. CASE InHand(w, up[w].file) /\ up'[w].file \notin overlap'
    <3>1. /\ up[w].file \notin overlap /\ up'[w] = up[w]
          /\ etag'[up[w].file] = etag[up[w].file]
      BY <1>1, <1>3, <2>1, Bystander
    <3>2. QED
      BY <1>2, <3>1 DEF Asked, Replaces, Installing, Outdated, Is
  <2>2. CASE ~InHand(w, up[w].file)
    <3>1. up'[w].pc \in {"idle", "end", "restart"}
      BY <1>1, <1>3, <2>2 DEF Frame, Same, InHand
    <3>2. QED
      BY <3>1 DEF Asked, Replaces, Installing, Is
  <2>3. QED
    BY <2>1, <2>2 DEF Asked, Replaces
<1>4. CASE w = u
  <2> SUFFICES ASSUME up'[u].file \notin overlap'
               PROVE  Asked(u)' /\ Replaces(u)'
    BY <1>4 DEF Asked, Replaces
  <2>1. CASE Began(u) \/ GaveUp(u) \/ Lost(u)
    BY <2>1 DEF Began, GaveUp, Lost, Onward, Asked, Replaces, Installing, Is
  <2>2. CASE Saved(u)
    <3>1. up'[u].pc = "answer" => /\ up[u].file = "geoip.dat"
                                  /\ up'[u].file = "geosite.dat"
                                  /\ up'[u].tag = etag["geosite.dat"]
      BY <2>2 DEF Saved, Onward
    <3>2. up'[u].pc = "answer" => etag'["geosite.dat"] = etag["geosite.dat"]
      BY <1>1, <3>1 DEF Frame, InHand, File
    <3>3. QED
      BY <2>2, <3>1, <3>2 DEF Saved, Onward, Asked, Replaces, Installing, Is
  <2>3. CASE Threw(u) \/ Finished(u) \/ Restarted(u)
    BY <2>3 DEF Threw, Idle, Finished, Restarted, Asked, Replaces, Installing, Is
  <2>4. CASE Opened(u)
    <3>1. /\ up[u].file \notin overlap /\ etag[up[u].file] \in {None, up[u].tag}
          /\ up[u].tag # Latest(up[u].prof)
      BY <1>1, <2>4 DEF Opened, Asked
    <3>2. etag[up[u].file] # None => Real(etag[up[u].file])
      BY <1>2 DEF Published
    <3>3. release[up[u].prof] \in Nat
      BY <1>2, GeoAssumption DEF Typed
    <3>4. ASSUME etag[up[u].file] # None, etag[up[u].file][1] = up[u].prof
          PROVE  Outdated(etag[up[u].file])
      BY <3>1, <3>2, <3>3, <3>4 DEF Real, Latest, Outdated
    <3>5. QED
      BY <1>2, <2>4, <3>4
         DEF Opened, Asked, Replaces, Installing, Outdated, Is
  <2>5. CASE Wrote(u) \/ Advanced(u) \/ Deleted(u) \/ Renamed(u)
    <3>1. /\ up'[u].file = up[u].file /\ up'[u].prof = up[u].prof
          /\ etag' = etag /\ up[u].file \notin overlap /\ Installing(u)
          /\ up'[u].pc # "answer"
      BY <1>1, <2>5
         DEF Wrote, Advanced, Deleted, Renamed, Stays, Installing, Is
    <3>2. QED
      BY <1>2, <3>1 DEF Asked, Replaces, Outdated, Is
  <2>6. QED
    BY <1>1, <2>1, <2>2, <2>3, <2>4, <2>5 DEF Outcome
<1>5. QED
  BY <1>3, <1>4

\* The frame of the other steps, short of a crash.
Ambient ==
    /\ \A w \in Updater : Same(w) /\ (up[w].open # "dest" => up'[w] = up[w])
    /\ tmp' = tmp
    /\ \A p \in Profile : release[p] <= release'[p]
    /\ \A f \in File : etag'[f] \in {None, etag[f]}
    /\ \A f \in File : dest'[f] = dest[f] \/
          /\ ex.file = f
          /\ ex.pc \in {"open", "copy"} \/ (ex.pc = "check" /\ IsSmall(dest[f]))

\* Every other step is a crash or stays in that frame.
LEMMA AmbientFacts ==
    ASSUME Typed, Streams, Engine \/ Others \/ Clearing
    PROVE  Crash \/ Ambient
<1>1. \A p \in Profile : release[p] \in Nat
  BY GeoAssumption DEF Typed
<1>2. CASE Engine
  <2>1. ExtractionFrame /\ (Cleared \/ Created \/ Copied \/ Failed \/ Passed)
    BY <1>2, ExtractionFacts
  <2>2. \A f \in File : dest'[f] = dest[f] \/
          /\ ex.file = f
          /\ ex.pc \in {"open", "copy"} \/ (ex.pc = "check" /\ IsSmall(dest[f]))
    BY <2>1 DEF ExtractionFrame, Cleared, Created, Copied, Failed, Passed
  <2>3. QED
    BY <1>1, <1>2, <2>2, ExtractionFacts DEF ExtractionFrame, Ambient
<1>3. CASE UNCHANGED <<up, dest, tmp, etag, release>>
  BY <1>1, <1>3, NoUpdater DEF Ambient
<1>4. ASSUME NEW p \in Profile, Publish(p) PROVE Ambient
  <2>1. UNCHANGED <<up, dest, tmp, etag>>
    BY <1>4 DEF Publish
  <2>2. \A q \in Profile : release[q] <= release'[q]
    BY <1>1, <1>4 DEF Publish, Typed
  <2>3. QED
    BY <2>1, <2>2, NoUpdater DEF Ambient
<1>5. CASE ClearEtags
  <2>1. UNCHANGED <<up, dest, tmp, release>> /\ \A f \in File : etag'[f] = None
    BY <1>5 DEF ClearEtags
  <2>2. QED
    BY <1>1, <2>1, NoUpdater DEF Ambient
<1>6. QED
  BY <1>2, <1>3, <1>4, <1>5 DEF Others, Clearing, StartVpn, Connected,
     StopVpn, SetGeoProfile, prefVars

\* A version that is not the latest will never be again.
LEMMA OutdatedKept ==
    ASSUME Typed, Typed', NEW v, Real(v), Outdated(v),
           \A p \in Profile : release[p] <= release'[p]
    PROVE  v[2] < release'[v[1]]
<1>1. v[1] \in Profile /\ v[2] \in Nat /\ release[v[1]] \in Nat
      /\ release'[v[1]] \in Nat /\ MaxEvents \in Nat
  BY GeoAssumption DEF Real, Typed
<1>2. release[v[1]] <= release'[v[1]] /\ v[2] < release[v[1]]
  BY <1>1 DEF Outdated
<1>3. QED
  BY <1>1, <1>2

\* What the one writer has relied on stays, whatever the others do.
LEMMA OthersProgress ==
    ASSUME Typed, Typed', Streams, Alone, Published, Noted, Crash \/ Ambient,
           NEW w \in Updater, Progress(w), Asked(w), Replaces(w)
    PROVE  Progress(w)' /\ Asked(w)' /\ Replaces(w)'
<1>1. CASE Crash
  <2>1. up'[w].pc = "idle"
    BY <1>1 DEF Crash, Idle
  <2>2. QED
    BY <2>1 DEF Progress, Asked, Replaces, Installing, Is
<1>2. CASE Ambient
  <2> DEFINE f == up[w].file
  <2>1. /\ f \in File /\ overlap \subseteq overlap' /\ up'[w].file = f
        /\ Same(w) /\ (up[w].open # "dest" => up'[w] = up[w])
        /\ tmp'[f] = tmp[f] /\ etag'[f] \in {None, etag[f]}
    BY <1>2, NotedTyped DEF Ambient, Typed, Record, Same
  <2> SUFFICES ASSUME f \notin overlap' PROVE Progress(w)' /\ Asked(w)' /\ Replaces(w)'
    BY <2>1 DEF Progress, Asked, Replaces
  <2>2. f \notin overlap
    BY <2>1
  <2>3. Is(w, "save") => dest'[f] = dest[f]
    <3>1. SUFFICES ASSUME Is(w, "save") PROVE dest'[f] = dest[f]
      OBVIOUS
    <3>2. /\ dest[f] = Whole(up[w].got) /\ Real(up[w].got)
      BY <2>2, <3>1 DEF Progress, Published, Installing, Is
    <3>3. ~IsSmall(dest[f])
      BY <3>2, RealTyped, WholeTyped
    <3>4. InHand(w, f)
      BY <3>1 DEF InHand, Is
    <3>5. ~(ex.file = f /\ ex.pc \in {"open", "copy"})
      BY <2>1, <2>2, <3>4 DEF Alone
    <3>6. QED
      BY <1>2, <2>1, <3>3, <3>5 DEF Ambient
  <2>4. Progress(w)'
    BY <2>1, <2>2, <2>3 DEF Progress, Same, Is
  <2>5. Asked(w)'
    BY <2>1, <2>2 DEF Asked, Same, Is
  <2>6. Replaces(w)'
    <3>1. SUFFICES ASSUME Installing(w), etag'[f] # None, etag[f][1] = up[w].prof
                   PROVE  etag'[f][2] < release'[etag'[f][1]]
      BY <2>1 DEF Replaces, Installing, Same, Outdated
    <3>2. etag'[f] = etag[f] /\ Real(etag[f]) /\ Outdated(etag[f])
      BY <2>1, <2>2, <3>1 DEF Published, Replaces
    <3>3. QED
      BY <1>2, <3>2, OutdatedKept DEF Ambient
  <2>7. QED
    BY <2>4, <2>5, <2>6
<1>3. QED
  BY <1>1, <1>2
-----------------------------------------------------------------------------
(* The extraction. *)

\* An updater cannot disturb the extraction of a file that it has not in hand.
LEMMA UpdaterExtracting ==
    ASSUME Typed, Streams, Alone, Extracting, Phases, NEW u \in Updater,
           UpdaterNext(u)
    PROVE  Extracting' /\ Phases'
<1>1. Frame(u) /\ Outcome(u) /\ Noted /\ overlap \subseteq overlap'
      /\ ex.file \in File
  BY UpdaterFacts, NotedTyped DEF UpdaterNext, Typed
<1>2. ex'.pc = ex.pc /\ ex'.file = ex.file /\ ex'.pos = ex.pos
      /\ inited' = inited
  BY <1>1 DEF Frame
<1>3. ASSUME ex'.pc \in {"open", "copy"}, ex'.file \notin overlap'
      PROVE  ex' = ex /\ dest'[ex.file] = dest[ex.file] /\ ex.file \notin overlap
  <2>1. ex.file \notin overlap /\ ex.pc \in {"open", "copy"}
    BY <1>1, <1>2, <1>3
  <2>2. ~InHand(u, ex.file)
    BY <1>1, <2>1 DEF Alone
  <2>3. QED
    BY <1>1, <2>1, <2>2 DEF Frame
<1>4. Extracting'
  BY <1>2, <1>3 DEF Extracting
<1>5. vpn' # "down" => inited
  BY <1>1 DEF Phases, Running, Outcome, Began, GaveUp, Threw, Lost, Opened,
     Wrote, Advanced, Deleted, Renamed, Saved, Finished, Restarted, Stays
<1>6. ASSUME NEW w \in Updater, up'[w].pc = "restart" PROVE inited
  <2>1. CASE w # u
    BY <1>1, <1>6, <2>1 DEF Frame, Same, Phases, Is
  <2>2. CASE w = u
    BY <1>1, <1>6, <2>2 DEF Phases, Outcome, Began, GaveUp, Threw, Idle, Lost,
       Opened, Wrote, Advanced, Deleted, Renamed, Saved, Onward, Finished,
       Restarted
  <2>3. QED
    BY <2>1, <2>2
<1>7. QED
  BY <1>2, <1>4, <1>5, <1>6 DEF Phases, Running, Is

\* extractGeoFiles writes the bundled file, chunk by chunk.
LEMMA OthersExtracting ==
    ASSUME Typed, Streams, Extracting, Phases, Engine \/ Others \/ Clearing
    PROVE  Extracting' /\ Phases'
<1>1. /\ overlap \subseteq overlap' /\ ex.file \in File /\ ex.pos \in Nat
      /\ Chunks \in Nat /\ \A w \in Updater : up[w].pc = "restart" => inited
  BY NotedTyped, GeoAssumption
     DEF Engine, Others, Clearing, Typed, Phases, Running, Is
<1>2. CASE Engine
  <2>1. ExtractionFrame /\ (Cleared \/ Created \/ Copied \/ Failed \/ Passed)
    BY <1>2, ExtractionFacts
  <2>2. ~inited /\ vpn = "down"
    BY <2>1 DEF ExtractionFrame, Phases, Running
  <2>3. \A w \in Updater : up'[w].pc # "restart"
    BY <1>1, <2>1, <2>2 DEF ExtractionFrame, Same
  <2>4. CASE Cleared
    BY <2>2, <2>3, <2>4 DEF Cleared, Extracting, Phases, Running, Is
  <2>5. CASE Created
    <3>1. ex.pos = 0 /\ Part(Asset, 0) = <<>>
      BY <2>5 DEF Created, Streams, Part
    <3>2. QED
      BY <2>2, <2>3, <2>5, <3>1 DEF Created, Extracting, Phases, Running, Is
  <2>6. CASE Copied
    <3>1. ex'.pc = "copy" /\ ex'.file \notin overlap' =>
              /\ ex.open = "dest" /\ dest[ex.file] = Part(Asset, ex.pos)
              /\ ex'.open = "dest" /\ ex'.pos = ex.pos + 1
      BY <1>1, <2>6 DEF Copied, Extracting
    <3>2. WriteAt(Part(Asset, ex.pos), ex.pos + 1, Asset) =
              Part(Asset, ex.pos + 1)
      BY <1>1, WriteNext
    <3>3. Extracting'
      BY <2>6, <3>1, <3>2 DEF Copied, Extracting
    <3>4. QED
      BY <2>2, <2>3, <2>6, <3>3 DEF Copied, Phases, Running, Is
  <2>7. CASE Failed
    BY <2>2, <2>3, <2>7 DEF Failed, Extracting, Phases, Running, Is
  <2>8. CASE Passed
    BY <2>2, <2>3, <2>8 DEF Passed, Extracting, Phases, Running, Is
  <2>9. QED
    BY <2>1, <2>4, <2>5, <2>6, <2>7, <2>8
<1>3. CASE StartVpn
  <2>1. /\ UNCHANGED <<up, dest, inited>> /\ vpn = "down" /\ ex.pc = "idle"
        /\ \/ inited /\ ex' = ex
           \/ ~inited /\ ex'.pc = "check" /\ vpn' = vpn
    BY <1>3 DEF StartVpn, Running, NoExtraction
  <2>2. QED
    BY <1>1, <2>1 DEF Extracting, Phases, Running, Is
<1>4. CASE Crash
  <2>1. /\ ex'.pc = "idle" /\ vpn' = "down"
        /\ \A w \in Updater : up'[w].pc = "idle"
    BY <1>4 DEF Crash, NoExtraction, Idle
  <2>2. QED
    BY <2>1 DEF Extracting, Phases, Running, Is
<1>5. CASE /\ UNCHANGED <<up, dest, ex, inited>>
           /\ vpn' = vpn \/ vpn' = "down" \/ vpn = "starting"
  BY <1>1, <1>5 DEF Extracting, Phases, Running, Is
<1>6. QED
  BY <1>2, <1>3, <1>4, <1>5 DEF Others, Clearing, Connected, StopVpn,
     SetGeoProfile, Publish, ClearEtags, engineVars
-----------------------------------------------------------------------------
(* The ETags. *)

\* An ETag that is saved is that of the file in place, unless the file is being
\* replaced, or nobody will be told "not modified" for it: it is not the latest,
\* or it is one of a profile that nobody asks for.
EtagTrue(f) ==
    \/ etag[f] = None \/ f \in overlap \cup kept
    \/ dest[f] = Whole(etag[f])
    \/ \E u \in Updater : HandedOver(u, f)
    \/ Outdated(etag[f])
    \/ clearing /\ etag[f][1] = profile
    \/ /\ etag[f][1] # profile
       /\ \A u \in Updater : Working(u) => up[u].prof # etag[f][1]

\* NotModifiedIsRight for one updater.
Right(u) ==
    Is(u, "answer") /\ up[u].tag = Latest(up[u].prof) =>
        \/ dest[up[u].file] = Whole(up[u].tag)
        \/ up[u].file \in overlap \/ up[u].early

\* An updater is at work for the profile it has begun with.
LEMMA WorkingKept ==
    ASSUME NEW u \in Updater, Outcome(u), Working(u)'
    PROVE  \/ Is(u, "idle") /\ up'[u].prof = profile
           \/ Working(u) /\ up'[u].prof = up[u].prof
BY DEF Outcome, Began, GaveUp, Threw, Idle, Lost, Opened, Wrote, Advanced,
   Deleted, Renamed, Saved, Finished, Restarted, Stays, Onward, Working, Is

\* A step of u replaces a file, saves its ETag, leaves both, or loses the file
\* and leaves an ETag that will not be answered with 304 or was noted.
LEMMA UpdaterLeaves ==
    ASSUME Typed, Streams, Alone, Published,
           \A w \in Updater : Progress(w) /\ Replaces(w),
           NEW u \in Updater, UpdaterNext(u), NEW f \in File \ overlap
    PROVE  \/ HandedOver(u, f)'
           \/ dest'[f] = Whole(etag'[f])
           \/ /\ etag'[f] = etag[f]
              /\ etag[f] = None \/ f \in kept' \/ Outdated(etag[f])
           \/ /\ dest'[f] = dest[f] /\ etag'[f] = etag[f]
              /\ f \in kept => f \in kept'
              /\ \A w \in Updater : HandedOver(w, f) => HandedOver(w, f)'
<1>1. Frame(u) /\ Outcome(u)
  BY UpdaterFacts
<1>2. ASSUME NEW w \in Updater \ {u}, HandedOver(w, f) PROVE HandedOver(w, f)'
  BY <1>1, <1>2 DEF Frame, Same, HandedOver
<1>3. CASE ~InHand(u, f)
  <2>1. ~HandedOver(u, f)
    BY <1>3 DEF InHand, HandedOver
  <2>2. QED
    BY <1>1, <1>2, <1>3, <2>1 DEF Frame
<1>4. CASE InHand(u, f)
  <2>1. up[u].file = f /\ up[u].pc \notin {"idle", "end", "restart"}
    BY <1>4 DEF InHand
  <2>2. CASE GaveUp(u) \/ Threw(u) \/ Opened(u) \/ Wrote(u) \/ Advanced(u)
    <3>1. ~HandedOver(u, f)
      <4>1. CASE GaveUp(u) /\ Is(u, "rename")
        <5>1. tmp[f] = Whole(up[u].got) /\ Real(up[u].got)
          BY <2>1, <4>1 DEF Progress, Published, Installing, Is
        <5>2. tmp[f] # None
          BY <5>1, RealTyped, WholeTyped
        <5>3. QED
          BY <2>1, <4>1, <5>2 DEF GaveUp
      <4>2. QED
        BY <2>2, <4>1 DEF GaveUp, Threw, Opened, Wrote, Advanced, HandedOver, Is
    <3>2. Is(u, "write") => up[u].open = "tmp"
      BY <2>1 DEF Progress
    <3>3. dest'[f] = dest[f] /\ etag'[f] = etag[f] /\ kept' = kept
      BY <2>2, <3>2 DEF GaveUp, Threw, Opened, Wrote, Advanced, Stays
    <3>4. QED
      BY <1>2, <3>1, <3>3
  <2>3. CASE Deleted(u) \/ Renamed(u)
    BY <2>1, <2>3 DEF Deleted, Renamed, Stays, HandedOver
  <2>4. CASE Saved(u)
    <3>1. dest[f] = Whole(up[u].got)
      BY <2>1, <2>4 DEF Saved, Progress
    <3>2. QED
      BY <2>1, <2>4, <3>1 DEF Saved
  <2>6. CASE Lost(u)
    BY <2>1, <2>6 DEF Lost, Replaces, Installing, Is
  <2>5. QED
    BY <1>1, <2>1, <2>2, <2>3, <2>4, <2>6 DEF Outcome, Began, Finished, Restarted, Is
<1>5. QED
  BY <1>3, <1>4

\* What is true of the ETags stays so when an updater makes a step.
LEMMA UpdaterEtag ==
    ASSUME Typed, Streams, Alone, Published,
           \A w \in Updater : Progress(w) /\ Replaces(w),
           NEW u \in Updater, UpdaterNext(u), NEW f \in File, EtagTrue(f)
    PROVE  EtagTrue(f)'
<1>1. Frame(u) /\ Outcome(u) /\ overlap \subseteq overlap'
  BY UpdaterFacts, NotedTyped DEF UpdaterNext
<1>2. profile' = profile /\ clearing' = clearing /\ release' = release
  BY <1>1 DEF Frame
<1>3. CASE f \in overlap
  BY <1>1, <1>3 DEF EtagTrue
<1>4. CASE HandedOver(u, f)' \/ dest'[f] = Whole(etag'[f])
  BY <1>4 DEF EtagTrue, Whole
<1>5. CASE /\ dest'[f] = dest[f] /\ etag'[f] = etag[f] /\ f \notin overlap
           /\ f \in kept => f \in kept'
           /\ \A w \in Updater : HandedOver(w, f) => HandedOver(w, f)'
  <2>1. CASE \/ etag[f] = None \/ f \in kept
             \/ dest[f] = Whole(etag[f])
    BY <1>5, <2>1 DEF EtagTrue, Whole
  <2>2. CASE \E w \in Updater : HandedOver(w, f)
    BY <1>5, <2>2 DEF EtagTrue
  <2>3. CASE Outdated(etag[f]) \/ (clearing /\ etag[f][1] = profile)
    BY <1>2, <1>5, <2>3 DEF EtagTrue, Outdated
  <2>4. CASE /\ etag[f][1] # profile
             /\ \A w \in Updater : Working(w) => up[w].prof # etag[f][1]
    <3>1. ASSUME NEW w \in Updater, Working(w)' PROVE up'[w].prof # etag[f][1]
      <4>1. CASE w # u
        BY <1>1, <2>4, <3>1, <4>1 DEF Frame, Same, Working
      <4>2. CASE w = u
        BY <1>1, <2>4, <3>1, <4>2, WorkingKept
      <4>3. QED
        BY <4>1, <4>2
    <3>2. QED
      BY <1>2, <1>5, <2>4, <3>1 DEF EtagTrue
  <2>5. QED
    BY <1>5, <2>1, <2>2, <2>3, <2>4 DEF EtagTrue
<1>7. CASE /\ etag'[f] = etag[f]
           /\ etag[f] = None \/ f \in kept' \/ Outdated(etag[f])
  BY <1>2, <1>7 DEF EtagTrue, Outdated
<1>6. QED
  BY <1>3, <1>4, <1>5, <1>7, UpdaterLeaves

\* No other step touches a whole file that had one writer at a time.
LEMMA WholeStays ==
    ASSUME Typed, Streams, Extracting, Ambient, NEW f \in File \ overlap,
           NEW v \in Version, dest[f] = Whole(v)
    PROVE  dest'[f] = dest[f]
<1>1. ~IsSmall(dest[f]) /\ dest[f] # None
  BY WholeTyped
<1>2. ASSUME ex.file = f, ex.pc = "copy" PROVE FALSE
  <2>1. dest[f] = Part(Asset, ex.pos) /\ ex.pos < Chunks /\ ex.pos \in Nat
    BY <1>2, GeoAssumption DEF Extracting, Streams, Typed
  <2>2. QED
    BY <2>1, PartNotWhole
<1>3. ASSUME ex.file = f, ex.pc = "open" PROVE FALSE
  BY <1>1, <1>3 DEF Extracting
<1>4. QED
  BY <1>1, <1>2, <1>3 DEF Ambient

\* What is true of the ETags stays so when anything else happens.
LEMMA OthersEtag ==
    ASSUME Typed, Typed', Streams, Extracting, Published,
           Engine \/ Others \/ Clearing, \A w \in Updater : Replaces(w),
           NEW f \in File, EtagTrue(f)
    PROVE  EtagTrue(f)'
<1>1. overlap \subseteq overlap'
  BY NotedTyped DEF Engine, Others, Clearing
<1>2. CASE Crash
  <2>1. /\ UNCHANGED <<dest, etag, profile, release>>
        /\ \A w \in Updater : ~Working(w)'
    BY <1>2 DEF Crash, Idle, Working
  <2>2. clearing => f \in kept'
    BY <1>2 DEF Crash
  <2>3. f \in kept => f \in kept'
    BY <1>2 DEF Crash
  <2>4. ASSUME NEW u \in Updater, HandedOver(u, f), f \notin overlap PROVE EtagTrue(f)'
    <3>1. Installing(u) /\ up[u].file = f
      BY <2>4 DEF HandedOver, Installing
    <3>2. CASE up[u].prof # profile
      BY <1>2, <2>2, <2>4, <3>2 DEF Crash, HandedOver, EtagTrue
    <3>3. CASE up[u].prof = profile
      <4>1. etag[f] = None \/ etag[f][1] # profile \/ Outdated(etag[f])
        BY <2>4, <3>1, <3>3 DEF Replaces
      <4>2. QED
        BY <2>1, <4>1 DEF EtagTrue, Outdated
    <3>4. QED
      BY <3>2, <3>3
  <2>5. QED
    BY <1>1, <2>1, <2>2, <2>3, <2>4 DEF EtagTrue, Outdated, Whole
<1>3. CASE Ambient /\ etag'[f] = etag[f] /\ f \notin overlap /\ etag[f] # None
  <2>1. /\ Real(etag[f]) /\ etag[f] \in Version
    BY <1>3, RealTyped DEF Published
  <2>2. CASE dest[f] = Whole(etag[f])
    BY <1>3, <2>1, <2>2, WholeStays DEF EtagTrue, Whole
  <2>3. CASE \E w \in Updater : HandedOver(w, f)
    BY <1>3, <2>3 DEF EtagTrue, HandedOver, Ambient, Same
  <2>4. CASE Outdated(etag[f])
    BY <1>3, <2>1, <2>4, OutdatedKept DEF EtagTrue, Ambient, Outdated
  <2>5. CASE f \in kept /\ kept' = kept
    BY <2>5 DEF EtagTrue
  <2>6. CASE UNCHANGED <<kept, profile, clearing>>
    <3>1. CASE clearing /\ etag[f][1] = profile
      BY <1>3, <2>6, <3>1 DEF EtagTrue
    <3>2. CASE /\ etag[f][1] # profile
               /\ \A u \in Updater : Working(u) => up[u].prof # etag[f][1]
      BY <1>3, <2>6, <3>2 DEF EtagTrue, Ambient, Same, Working
    <3>3. QED
      BY <1>3, <2>2, <2>3, <2>4, <2>5, <2>6, <3>1, <3>2 DEF EtagTrue
  <2>7. ASSUME NEW p \in Profile, SetGeoProfile(p) PROVE EtagTrue(f)'
    <3>1. ~clearing /\ clearing' /\ profile' = p /\ kept' = kept
      BY <2>7 DEF SetGeoProfile
    <3>2. CASE /\ etag[f][1] # profile
               /\ \A u \in Updater : Working(u) => up[u].prof # etag[f][1]
      BY <1>3, <3>1, <3>2 DEF EtagTrue, Ambient, Same, Working
    <3>3. QED
      BY <1>3, <2>2, <2>3, <2>4, <2>5, <3>1, <3>2 DEF EtagTrue
  <2>8. CASE ClearEtags
    BY <2>8 DEF ClearEtags, EtagTrue
  <2>9. CASE Engine
    BY <2>6, <2>9, ExtractionFacts DEF ExtractionFrame
  <2>10. QED
    BY <1>2, <2>6, <2>7, <2>8, <2>9 DEF Others, Clearing, StartVpn, Connected,
       StopVpn, Publish, prefVars
<1>4. CASE f \in overlap \/ etag'[f] = None
  BY <1>1, <1>4 DEF EtagTrue
<1>5. QED
  BY <1>2, <1>3, <1>4, AmbientFacts DEF Ambient

\* An ETag that is the latest of p is that of the file in place, for someone who
\* begins with the file for p, and with whom nobody else has it in hand.
LEMMA LatestInPlace ==
    ASSUME Typed, NEW f \in File \ overlap, EtagTrue(f), NEW p \in Profile,
           etag[f] = Latest(p), ~Doubtful(f, p),
           \A u \in Updater : ~HandedOver(u, f),
           p = profile \/ \E u \in Updater : Working(u) /\ up[u].prof = p
    PROVE  dest[f] = Whole(etag[f])
<1>1. Real(etag[f]) /\ etag[f][1] = p /\ etag[f] # None
  BY LatestReal, RealTyped
<1>2. ~Outdated(etag[f])
  <2>1. etag[f][2] = release[p] /\ release[p] \in Nat
    BY GeoAssumption DEF Latest, Typed
  <2>2. QED
    BY <1>1, <2>1 DEF Outdated
<1>3. f \notin kept /\ ~(clearing /\ etag[f][1] = profile)
  BY <1>1 DEF Doubtful
<1>4. QED
  BY <1>1, <1>2, <1>3 DEF EtagTrue

\* An updater that is to be told "not modified" has the file, after any step of
\* an updater.
LEMMA UpdaterRight ==
    ASSUME Typed, Streams, Alone, NEW u \in Updater, UpdaterNext(u),
           \A f \in File : EtagTrue(f), NEW w \in Updater, Right(w)
    PROVE  Right(w)'
<1>1. Frame(u) /\ Outcome(u) /\ Noted /\ overlap \subseteq overlap' /\ Alone'
  BY UpdaterFacts, NotedTyped, AloneKept DEF UpdaterNext
<1>2. release' = release /\ up[u].prof \in Profile /\ profile \in Profile
      /\ "geoip.dat" \in File /\ "geosite.dat" \in File
  BY <1>1 DEF Frame, Typed, Record, File
<1> SUFFICES ASSUME up'[w].pc = "answer", up'[w].file \notin overlap',
                    up'[w].tag = <<up'[w].prof, release[up'[w].prof]>>,
                    ~up'[w].early
             PROVE  dest'[up'[w].file] = Whole(up'[w].tag)
  BY <1>2 DEF Right, Is, Latest, Whole
<1>3. CASE w # u
  <2>1. InHand(w, up[w].file)
    BY <1>1, <1>3 DEF Frame, Same, InHand
  <2>2. /\ up[w].file \notin overlap /\ up'[w] = up[w]
        /\ dest'[up[w].file] = dest[up[w].file]
    BY <1>1, <1>3, <2>1, Bystander
  <2>3. QED
    BY <2>2 DEF Right, Is, Latest
<1>4. CASE w = u
  <2> DEFINE f == up'[u].file
             p == up'[u].prof
  <2>1. CASE Began(u)
    <3>1. /\ f = "geoip.dat" /\ p = profile /\ up'[u].tag = etag[f]
          /\ up'[u].early = Doubtful(f, p) /\ dest' = dest /\ ~InHand(u, f)
      BY <2>1 DEF Began, InHand, Is
    <3>2. f \in File /\ p \in Profile /\ f \notin overlap
          /\ up'[u].tag = etag[f] /\ etag[f] = Latest(p) /\ ~Doubtful(f, p)
      BY <1>1, <1>2, <1>4, <3>1 DEF Latest
    <3>3. ASSUME NEW v \in Updater, HandedOver(v, f) PROVE FALSE
      <4>1. v # u
        BY <3>1, <3>3 DEF HandedOver, InHand
      <4>2. InHand(v, "geoip.dat")' /\ InHand(u, "geoip.dat")'
        BY <1>1, <2>1, <3>1, <3>3, <4>1
           DEF Frame, Same, HandedOver, InHand, Began
      <4>3. QED
        BY <1>1, <1>2, <1>4, <3>1, <4>1, <4>2 DEF Alone
    <3>4. EtagTrue(f)
      BY <3>2
    <3> HIDE DEF f, p
    <3>5. dest[f] = Whole(etag[f])
      BY <1>4, <3>1, <3>2, <3>3, <3>4, LatestInPlace
    <3>6. QED
      BY <1>4, <3>1, <3>2, <3>5 DEF f
  <2>2. CASE GaveUp(u) \/ Lost(u) \/ Saved(u)
    <3>1. /\ f = "geosite.dat" /\ p = up[u].prof /\ up'[u].tag = etag[f]
          /\ up'[u].early = Doubtful(f, p) /\ dest' = dest
          /\ up[u].file = "geoip.dat" /\ Working(u) /\ ~InHand(u, f)
      BY <1>4, <2>2 DEF GaveUp, Lost, Saved, Onward, InHand, Working, Is
    <3>2. f \in File /\ p \in Profile /\ f \notin overlap
          /\ up'[u].tag = etag[f] /\ etag[f] = Latest(p) /\ ~Doubtful(f, p)
      BY <1>1, <1>2, <1>4, <3>1 DEF Latest
    <3>3. ASSUME NEW v \in Updater, HandedOver(v, f) PROVE FALSE
      <4>1. v # u
        BY <3>1, <3>3 DEF HandedOver, InHand
      <4>2. InHand(v, "geosite.dat")' /\ InHand(u, "geosite.dat")'
        BY <1>1, <1>4, <3>1, <3>3, <4>1 DEF Frame, Same, HandedOver, InHand
      <4>3. QED
        BY <1>1, <1>2, <1>4, <3>1, <4>1, <4>2 DEF Alone
    <3>4. EtagTrue(f)
      BY <3>2
    <3> HIDE DEF f, p
    <3>5. dest[f] = Whole(etag[f])
      BY <1>4, <3>1, <3>2, <3>3, <3>4, LatestInPlace
    <3>6. QED
      BY <1>4, <3>1, <3>2, <3>5 DEF f
  <2>3. CASE Threw(u) \/ Finished(u) \/ Restarted(u) \/ Opened(u) \/ Wrote(u)
             \/ Advanced(u) \/ Deleted(u) \/ Renamed(u)
    BY <1>4, <2>3 DEF Threw, Idle, Finished, Restarted, Opened, Wrote, Advanced,
       Deleted, Renamed
  <2>4. QED
    BY <1>1, <2>1, <2>2, <2>3 DEF Outcome
<1>5. QED
  BY <1>3, <1>4

\* And after any other step.
LEMMA OthersRight ==
    ASSUME Typed, Typed', Streams, Extracting, Published, Noted,
           Crash \/ Ambient, NEW w \in Updater, Right(w)
    PROVE  Right(w)'
<1>1. overlap \subseteq overlap'
  BY NotedTyped
<1>2. CASE Crash
  BY <1>2 DEF Crash, Idle, Right, Is
<1>3. CASE Ambient
  <2>1. SUFFICES ASSUME up'[w].pc = "answer", up'[w].file \notin overlap',
                        up'[w].tag = <<up'[w].prof, release'[up'[w].prof]>>,
                        ~up'[w].early
                 PROVE  dest'[up'[w].file] = Whole(up'[w].tag)
    BY DEF Right, Is, Latest, Whole
  <2>2. /\ up[w].pc = "answer" /\ up'[w].file = up[w].file
        /\ up'[w].tag = up[w].tag /\ up'[w].prof = up[w].prof /\ ~up[w].early
        /\ up[w].file \in File \ overlap /\ up[w].prof \in Profile
    BY <1>1, <1>3, <2>1 DEF Ambient, Same, Typed, Record
  <2>3. up[w].tag[2] = release'[up[w].prof] /\ up[w].tag[1] = up[w].prof
    BY <2>1, <2>2
  <2>4. up[w].tag # None
    <3>1. release'[up[w].prof] \in 1 .. MaxEvents + 1
      BY <2>2 DEF Typed
    <3>2. <<up[w].prof, release'[up[w].prof]>> \in Version
      BY <2>2, <3>1 DEF Version
    <3>3. QED
      BY <2>1, <2>2, <3>2, NoneAssumption
  <2>5. Real(up[w].tag) /\ up[w].tag \in Version
    BY <2>4, RealTyped DEF Published
  <2>6. release'[up[w].prof] = release[up[w].prof]
    <3>1. /\ release[up[w].prof] <= release'[up[w].prof]
          /\ release'[up[w].prof] \in 1 .. release[up[w].prof]
      BY <1>3, <2>2, <2>3, <2>5 DEF Ambient, Real
    <3>2. release[up[w].prof] \in Nat
      BY <2>2, GeoAssumption DEF Typed
    <3>3. QED
      BY <3>1, <3>2
  <2>7. dest[up[w].file] = Whole(up[w].tag)
    BY <2>1, <2>2, <2>6 DEF Right, Is, Latest
  <2>8. QED
    BY <1>3, <2>2, <2>5, <2>7, WholeStays
<1>4. QED
  BY <1>2, <1>3
-----------------------------------------------------------------------------
(* The files. *)

\* extractGeoFiles is through with file f.
PassedBy(f) ==
    \/ inited
    \/ ex.pc # "idle" /\ f = "geoip.dat" /\ ex.file = "geosite.dat"
    \/ ex.pc = "next" /\ ex.file = f

\* A file is a whole one, or is being extracted, or is missing; the latter only
\* before its extraction, while an updater has the next one ready, or since a
\* rename that failed.
FileShape(f) ==
    \/ f \in overlap \cup torn
    \/ \E v \in Version : dest[f] = Whole(v)
    \/ ex.pc = "copy" /\ ex.file = f
    \/ /\ dest[f] = None
       /\ PassedBy(f) => \/ f \in lost
                         \/ \E u \in Updater : Is(u, "rename") /\ up[u].file = f

\* A step that leaves a file alone.
LEMMA ShapeKept ==
    ASSUME NEW f \in File, FileShape(f), overlap \subseteq overlap',
           dest'[f] = dest[f], f \in torn => f \in torn',
           f \in lost => f \in lost',
           ex.pc = "copy" /\ ex.file = f =>
               f \in torn' \/ (ex'.pc = "copy" /\ ex'.file = f),
           PassedBy(f)' => PassedBy(f) /\
               \A w \in Updater : Is(w, "rename") /\ up[w].file = f =>
                                  (Is(w, "rename") /\ up[w].file = f)'
    PROVE  FileShape(f)'
<1>1. CASE f \in overlap \cup torn \/ (ex.pc = "copy" /\ ex.file = f)
  BY <1>1 DEF FileShape
<1>2. ASSUME NEW v \in Version, dest[f] = Whole(v) PROVE FileShape(f)'
  BY <1>2 DEF FileShape, Whole
<1>3. CASE /\ dest[f] = None
           /\ PassedBy(f) => \/ f \in lost
                 \/ \E u \in Updater : Is(u, "rename") /\ up[u].file = f
  BY <1>3 DEF FileShape
<1>4. QED
  BY <1>1, <1>2, <1>3 DEF FileShape

\* An updater takes the old file away only when it has the new one, and is
\* without one only if the rename fails.
LEMMA UpdaterShape ==
    ASSUME Typed, Streams, Alone, Published, \A w \in Updater : Progress(w),
           NEW u \in Updater, UpdaterNext(u), NEW f \in File, FileShape(f)
    PROVE  FileShape(f)'
<1>1. Frame(u) /\ Outcome(u) /\ overlap \subseteq overlap'
  BY UpdaterFacts, NotedTyped DEF UpdaterNext
<1>2. ex'.pc = ex.pc /\ ex'.file = ex.file /\ inited' = inited
  BY <1>1 DEF Frame
<1>3. PassedBy(f)' <=> PassedBy(f)
  BY <1>2 DEF PassedBy
<1>4. CASE f \in overlap
  BY <1>1, <1>4 DEF FileShape
<1>5. ASSUME NEW w \in Updater \ {u}, Is(w, "rename") /\ up[w].file = f
      PROVE  (Is(w, "rename") /\ up[w].file = f)'
  BY <1>1, <1>5 DEF Frame, Same, Is
<1>6. CASE ~InHand(u, f)
  <2>1. dest'[f] = dest[f] /\ (f \in torn => f \in torn')
        /\ (f \in lost => f \in lost')
    BY <1>1, <1>6 DEF Frame
  <2>2. ~(Is(u, "rename") /\ up[u].file = f)
    BY <1>6 DEF InHand, Is
  <2>3. QED
    BY <1>1, <1>2, <1>3, <1>5, <2>1, <2>2, ShapeKept
<1>7. CASE InHand(u, f) /\ f \notin overlap
  <2>1. up[u].file = f /\ up[u].pc \notin {"idle", "end", "restart"}
    BY <1>7 DEF InHand
  <2>2. Installing(u) => up[u].got \in Version
    BY RealTyped DEF Published
  <2>3. CASE GaveUp(u) \/ Threw(u) \/ Opened(u) \/ Wrote(u) \/ Advanced(u)
    <3>1. ~Is(u, "rename")
      <4>1. CASE GaveUp(u) /\ Is(u, "rename")
        <5>1. tmp[f] = Whole(up[u].got) /\ up[u].got \in Version
          BY <1>7, <2>1, <2>2, <4>1 DEF Progress, Installing, Is
        <5>2. QED
          BY <2>1, <4>1, <5>1, WholeTyped DEF GaveUp
      <4>2. QED
        BY <2>3, <4>1 DEF Threw, Opened, Wrote, Advanced, Is
    <3>2. Is(u, "write") => up[u].open = "tmp"
      BY <1>7, <2>1 DEF Progress
    <3>3. dest'[f] = dest[f] /\ torn' = torn /\ lost' = lost
      BY <2>3, <3>2 DEF GaveUp, Threw, Opened, Wrote, Advanced, Stays
    <3>4. QED
      BY <1>1, <1>2, <1>3, <1>5, <3>1, <3>3, ShapeKept
  <2>4. CASE Deleted(u)
    BY <2>1, <2>4 DEF Deleted, Stays, FileShape, Is
  <2>5. CASE Renamed(u) \/ Saved(u)
    <3>1. up[u].got \in Version
      BY <2>2, <2>5 DEF Renamed, Saved, Installing, Is
    <3>2. dest'[f] = Whole(up[u].got)
      BY <1>7, <2>1, <2>5 DEF Renamed, Saved, Progress, Is
    <3>3. QED
      BY <3>1, <3>2 DEF FileShape, Whole
  <2>7. CASE Lost(u)
    <3>1. f \in lost' /\ dest' = dest /\ torn' = torn
      BY <2>1, <2>7 DEF Lost
    <3>2. QED
      BY <1>1, <1>2, <1>3, <3>1 DEF FileShape, Whole
  <2>6. QED
    BY <1>1, <2>1, <2>3, <2>4, <2>5, <2>7
       DEF Outcome, Began, Finished, Restarted, Is
<1>8. QED
  BY <1>4, <1>6, <1>7

\* extractGeoFiles leaves no file out.
LEMMA ExtractionShape ==
    ASSUME Typed, Streams, Extracting, Phases, Engine, NEW f \in File, FileShape(f)
    PROVE  FileShape(f)'
<1>1. /\ ExtractionFrame /\ overlap \subseteq overlap'
      /\ Cleared \/ Created \/ Copied \/ Failed \/ Passed
  BY ExtractionFacts, NotedTyped DEF Engine
<1>2. ~inited /\ ex.pc # "idle"
  BY <1>1 DEF ExtractionFrame, Phases
<1>3. \A w \in Updater : Is(w, "rename") /\ up[w].file = f =>
                         (Is(w, "rename") /\ up[w].file = f)'
  BY <1>1 DEF ExtractionFrame, Same, Is
<1>4. CASE f # ex.file
  <2>1. dest'[f] = dest[f] /\ (f \in torn => f \in torn')
        /\ (f \in lost => f \in lost')
    BY <1>1, <1>4 DEF ExtractionFrame
  <2>2. PassedBy(f)' => PassedBy(f)
    <3>1. CASE Passed
      BY <1>2, <1>4, <3>1 DEF Passed, PassedBy, File
    <3>2. CASE Cleared \/ Created \/ Copied \/ Failed
      BY <1>2, <1>4, <3>2 DEF Cleared, Created, Copied, Failed, PassedBy
    <3>3. QED
      BY <1>1, <3>1, <3>2
  <2>3. QED
    BY <1>1, <1>3, <1>4, <2>1, <2>2, ShapeKept
<1>5. CASE f = ex.file
  <2>1. CASE f \in overlap
    BY <1>1, <2>1 DEF FileShape
  <2>2. CASE Cleared
    BY <1>2, <1>5, <2>2 DEF Cleared, FileShape, PassedBy
  <2>3. CASE Created
    BY <1>5, <2>3 DEF Created, FileShape
  <2>4. CASE Copied /\ f \notin overlap
    <3>1. ex.pos \in Nat /\ Chunks \in Nat /\ ex.pos < Chunks
      BY <2>4, GeoAssumption DEF Copied, Streams, Typed
    <3>2. dest'[f] = Part(Asset, ex.pos + 1)
      BY <1>5, <2>4, <3>1, WriteNext DEF Copied, Extracting
    <3>3. CASE ex'.pc = "copy"
      BY <1>5, <2>4, <3>3 DEF Copied, FileShape
    <3>4. CASE ex'.pc = "next"
      <4>1. ex.pos + 1 = Chunks
        BY <2>4, <3>1, <3>4 DEF Copied
      <4>2. dest'[f] = Whole(Asset) /\ Asset \in Version
        BY <3>2, <4>1 DEF Part, Whole, Version
      <4>3. QED
        BY <4>2 DEF FileShape, Whole
    <3>5. QED
      BY <2>4, <3>3, <3>4 DEF Copied
  <2>5. CASE Failed
    BY <1>5, <2>5 DEF Failed, FileShape
  <2>6. CASE Passed
    <3>1. dest' = dest /\ torn' = torn /\ lost' = lost /\ ex.pc # "copy"
      BY <2>6 DEF Passed
    <3>2. CASE ex.pc = "next"
      <4>1. PassedBy(f)
        BY <1>5, <3>2 DEF PassedBy
      <4>2. QED
        BY <1>1, <1>3, <3>1, <4>1, ShapeKept
    <3>3. CASE ex.pc = "check" /\ ~IsSmall(dest[f])
      <4>1. dest[f] # None
        BY <3>3 DEF IsSmall
      <4>2. f \in overlap \cup torn \/ \E v \in Version : dest[f] = Whole(v)
        BY <3>1, <4>1 DEF FileShape
      <4>3. QED
        BY <1>1, <3>1, <4>2 DEF FileShape, Whole
    <3>4. QED
      BY <1>5, <2>6, <3>2, <3>3 DEF Passed
  <2>7. QED
    BY <1>1, <2>1, <2>2, <2>3, <2>4, <2>5, <2>6
<1>6. QED
  BY <1>4, <1>5

\* A crash leaves a torn file, and a new process that looks for the others.
LEMMA OthersShape ==
    ASSUME Typed, Others \/ Clearing, NEW f \in File, FileShape(f)
    PROVE  FileShape(f)'
<1>1. overlap \subseteq overlap'
  BY NotedTyped DEF Others, Clearing
<1>2. CASE Crash
  <2>1. /\ ex'.pc = "idle" /\ ~inited' /\ dest' = dest
        /\ f \in torn => f \in torn'
        /\ lost' = lost
        /\ ex.pc = "copy" /\ ex.file = f => f \in torn'
    BY <1>2 DEF Crash, NoExtraction
  <2>2. ~PassedBy(f)'
    BY <2>1 DEF PassedBy
  <2>3. QED
    BY <1>1, <2>1, <2>2, ShapeKept
<1>3. CASE StartVpn
  <2>1. /\ UNCHANGED <<dest, torn, lost, up, inited>> /\ ex.pc = "idle"
        /\ ex' = ex \/ (ex'.pc = "check" /\ ex'.file = "geoip.dat")
    BY <1>3 DEF StartVpn, NoExtraction, faultVars
  <2>2. PassedBy(f)' => PassedBy(f)
    BY <2>1 DEF PassedBy
  <2>3. QED
    BY <1>1, <2>1, <2>2, ShapeKept DEF Is
<1>4. CASE UNCHANGED <<dest, torn, lost, up, inited, ex>>
  BY <1>1, <1>4, ShapeKept DEF Is, PassedBy
<1>5. QED
  BY <1>2, <1>3, <1>4 DEF Others, Clearing, Connected, StopVpn, SetGeoProfile,
     Publish, ClearEtags, engineVars, faultVars
-----------------------------------------------------------------------------
(* The running engine. *)

\* An updater that has replaced file f will have the engine restarted, or be
\* noted as one that does not.
Answers(u, f) == HandedOver(u, f) \/ (Working(u) /\ f \in up[u].updated)

StaleKnown ==
    Running => \A f \in stale :
        f \in overlap \cup missed \cup lost \/ \E u \in Updater : Answers(u, f)

\* A file that has changed under a running engine.
LEMMA StaleNew ==
    ASSUME Typed, Aged, NEW f \in stale'
    PROVE  Running /\ f \in File /\ (f \in stale \/ dest'[f] # dest[f])
BY DEF Aged, Typed

\* The updater that has changed it answers for it.
LEMMA UpdaterStale ==
    ASSUME Typed, Streams, Alone, Published, \A w \in Updater : Progress(w),
           StaleKnown, NEW u \in Updater, UpdaterNext(u)
    PROVE  StaleKnown'
<1>1. Frame(u) /\ Outcome(u) /\ overlap \subseteq overlap'
  BY UpdaterFacts, NotedTyped DEF UpdaterNext
<1> SUFFICES ASSUME Running', NEW f \in stale', f \notin overlap'
             PROVE  \/ f \in missed' \cup lost'
                    \/ \E w \in Updater : Answers(w, f)'
  BY DEF StaleKnown
<1>2. /\ Running /\ f \in File /\ (f \in stale \/ dest'[f] # dest[f])
      /\ f \notin overlap
  <2>1. Aged
    BY DEF UpdaterNext, Restart
  <2>2. QED
    BY <1>1, <2>1, StaleNew
<1>3. ~Restarted(u)
  BY DEF Restarted
<1>4. up[u].file = f /\ GaveUp(u) => ~Is(u, "rename")
  <2>1. SUFFICES ASSUME up[u].file = f, GaveUp(u), Is(u, "rename") PROVE FALSE
    OBVIOUS
  <2>2. tmp[f] = Whole(up[u].got) /\ Real(up[u].got)
    BY <1>2, <2>1 DEF Progress, Published, Installing, Is
  <2>3. QED
    BY <2>1, <2>2, RealTyped, WholeTyped DEF GaveUp
<1>5. CASE dest'[f] # dest[f]
  <2>1. InHand(u, f)
    BY <1>1, <1>2, <1>5 DEF Frame
  <2>2. up[u].file = f /\ (Is(u, "write") => up[u].open = "tmp")
    BY <1>2, <2>1 DEF InHand, Progress
  <2>3. Deleted(u) \/ Renamed(u)
    BY <1>1, <1>3, <1>5, <2>2 DEF Outcome, Began, GaveUp, Threw, Lost, Opened,
       Wrote, Advanced, Saved, Finished
  <2>4. HandedOver(u, f)'
    BY <2>2, <2>3 DEF Deleted, Renamed, Stays, HandedOver
  <2>5. QED
    BY <2>4 DEF Answers
<1>6. CASE f \in missed
  <2>1. vpn' # "down"
    BY DEF Running
  <2>2. QED
    BY <1>1, <1>2, <1>3, <1>6, <2>1 DEF Outcome, Began, GaveUp, Threw, Lost,
       Opened, Wrote, Advanced, Deleted, Renamed, Saved, Finished, Stays
<1>9. CASE f \in lost
  <2>1. CASE Renamed(u) /\ up[u].file = f
    BY <2>1 DEF Renamed, Stays, Answers, HandedOver
  <2>2. CASE (Renamed(u) \/ Lost(u)) /\ up[u].file # f
    BY <1>1, <1>2, <1>9, <2>2 DEF Frame, InHand
  <2>3. CASE Lost(u) /\ up[u].file = f
    BY <2>3 DEF Lost
  <2>4. CASE UNCHANGED lost
    BY <1>9, <2>4
  <2>5. QED
    BY <1>1, <1>3, <2>1, <2>2, <2>3, <2>4 DEF Outcome, Began, GaveUp, Threw,
       Opened, Wrote, Advanced, Deleted, Saved, Finished
<1>7. ASSUME NEW w \in Updater, Answers(w, f)
      PROVE  f \in missed' \cup lost' \/ Answers(w, f)'
  <2>1. CASE w # u
    BY <1>1, <1>7, <2>1 DEF Frame, Same, Answers, HandedOver, Working
  <2>2. CASE w = u /\ HandedOver(u, f)
    <3>1. up[u].file = f /\ up[u].pc \in {"rename", "save"}
      BY <2>2 DEF HandedOver
    <3>2. Renamed(u) \/ Saved(u) \/ Lost(u)
      BY <1>1, <1>3, <1>4, <3>1 DEF Outcome, Began, GaveUp, Threw, Opened, Wrote,
         Advanced, Deleted, Finished, Is
    <3>3. QED
      BY <2>2, <3>1, <3>2 DEF Renamed, Saved, Lost, Stays, Onward, Answers,
         HandedOver, Working
  <2>3. CASE w = u /\ Working(u) /\ f \in up[u].updated
    <3>1. CASE Threw(u) \/ Finished(u)
      <4>1. vpn' # "down"
        BY DEF Running
      <4>2. QED
        BY <1>2, <2>3, <3>1, <4>1 DEF Threw, Finished
    <3>2. CASE GaveUp(u) \/ Lost(u) \/ Saved(u)
      BY <2>3, <3>2 DEF GaveUp, Lost, Saved, Onward, Answers, Working
    <3>3. CASE Opened(u) \/ Wrote(u) \/ Advanced(u) \/ Deleted(u) \/ Renamed(u)
      BY <2>3, <3>3 DEF Opened, Wrote, Advanced, Deleted, Renamed, Stays, Answers,
         Working
    <3>4. ~Began(u)
      BY <2>3 DEF Began, Working, Is
    <3>5. QED
      BY <1>1, <1>3, <3>1, <3>2, <3>3, <3>4 DEF Outcome
  <2>4. QED
    BY <1>7, <2>1, <2>2, <2>3 DEF Answers
<1>8. QED
  BY <1>2, <1>5, <1>6, <1>7, <1>9 DEF StaleKnown

\* No other step changes a file under a running engine.
LEMMA OthersStale ==
    ASSUME Typed, Streams, Phases, StaleKnown, Engine \/ Others \/ Clearing
    PROVE  StaleKnown'
<1>1. Aged /\ overlap \subseteq overlap'
  BY NotedTyped DEF Engine, Others, Clearing
<1> SUFFICES ASSUME Running', NEW f \in stale', f \notin overlap'
             PROVE  \/ f \in missed' \cup lost'
                    \/ \E w \in Updater : Answers(w, f)'
  BY DEF StaleKnown
<1>0. vpn' # "down" /\ vpn # "down"
  BY <1>1, StaleNew DEF Running
<1>2. Running /\ f \in File /\ (f \in stale \/ dest'[f] # dest[f]) /\ f \notin overlap
  BY <1>1, StaleNew
<1>3. ~Engine
  BY <1>2, ExtractionFacts DEF ExtractionFrame, Phases
<1>4. UNCHANGED <<dest, up, missed, lost>>
  BY <1>0, <1>3 DEF Others, Clearing, StartVpn, Connected, StopVpn,
     SetGeoProfile, Publish, Crash, ClearEtags, engineVars, faultVars, Running
<1>5. f \in missed \cup lost \/ \E w \in Updater : Answers(w, f)
  BY <1>2, <1>4 DEF StaleKnown
<1>6. QED
  BY <1>4, <1>5 DEF Answers, HandedOver, Working
-----------------------------------------------------------------------------
(* The theorems. *)

IInv ==
    /\ Typed /\ Bounded /\ Streams /\ Alone /\ Published
    /\ \A u \in Updater : Progress(u) /\ Asked(u) /\ Replaces(u) /\ Right(u)
    /\ Extracting /\ Phases
    /\ \A f \in File : EtagTrue(f) /\ FileShape(f)
    /\ StaleKnown

\* A new installation: no file, no ETag, nobody at work.
LEMMA InitFacts == Init => IInv
<1> SUFFICES ASSUME Init PROVE IInv
  OBVIOUS
<1>1. /\ \A f \in File : dest[f] = None /\ tmp[f] = None /\ etag[f] = None
      /\ \A u \in Updater : up[u] = Idle
      /\ ex = NoExtraction /\ ~inited /\ vpn = "down"
      /\ release = [p \in Profile |-> 1]
      /\ left = MaxEvents
  BY DEF Init
<1>2. /\ \A u \in Updater : /\ up[u].pc = "idle" /\ up[u].tag = None
                            /\ up[u].open = "gone"
      /\ ex.pc = "idle" /\ ex.open = "gone" /\ ex.file = "geoip.dat"
  BY <1>1 DEF Idle, NoExtraction
<1>3. Typed
  <2>1. Idle \in Record
    BY GeoAssumption DEF Idle, Record, File, Version
  <2>2. NoExtraction \in ExtractionType
    BY GeoAssumption DEF NoExtraction, ExtractionType, File
  <2>3. 1 \in 1 .. MaxEvents + 1
    BY GeoAssumption
  <2>4. /\ clearing \in BOOLEAN /\ inited \in BOOLEAN
        /\ vpn \in {"down", "starting", "up"}
    BY DEF Init
  <2>5. QED
    BY <2>1, <2>2, <2>3, <2>4, GeoAssumption DEF Init, Typed, ExtractionType
<1>4. Bounded
  BY <1>1, GeoAssumption DEF Bounded
<1>5. Streams /\ Alone /\ Published
  BY <1>1, <1>2 DEF Streams, Alone, Published, Installing, InHand, Is
<1>6. \A u \in Updater : Progress(u) /\ Asked(u) /\ Replaces(u) /\ Right(u)
  BY <1>2 DEF Progress, Asked, Replaces, Right, Installing, Is
<1>7. Extracting /\ Phases
  BY <1>1, <1>2 DEF Extracting, Phases, Running, Is
<1>8. \A f \in File : EtagTrue(f) /\ FileShape(f)
  BY <1>1, <1>2 DEF EtagTrue, FileShape, PassedBy
<1>9. StaleKnown
  BY <1>1 DEF StaleKnown, Running
<1>10. QED
  BY <1>3, <1>4, <1>5, <1>6, <1>7, <1>8, <1>9 DEF IInv

\* Each step keeps the invariant.
LEMMA NextFacts == IInv /\ Next => IInv'
<1> SUFFICES ASSUME IInv, Next PROVE IInv'
  OBVIOUS
<1> USE DEF IInv
<1>1. Bounded'
  BY BoundedKept
<1>2. ASSUME NEW u \in Updater, UpdaterNext(u) PROVE IInv'
  <2>1. Noted
    BY <1>2 DEF UpdaterNext
  <2>2. Typed' /\ Streams' /\ Alone' /\ Published'
    BY <1>2, <2>1, UpdaterTyped, UpdaterStreams, AloneKept, UpdaterPublished
  <2>3. ASSUME NEW w \in Updater
        PROVE  Progress(w)' /\ Asked(w)' /\ Replaces(w)' /\ Right(w)'
    BY <1>2, UpdaterProgress, UpdaterAsked, UpdaterRight
  <2>4. Extracting' /\ Phases'
    BY <1>2, UpdaterExtracting
  <2>5. ASSUME NEW f \in File PROVE EtagTrue(f)' /\ FileShape(f)'
    BY <1>2, UpdaterEtag, UpdaterShape
  <2>6. StaleKnown'
    BY <1>2, UpdaterStale
  <2>7. QED
    BY <1>1, <2>2, <2>3, <2>4, <2>5, <2>6
<1>3. ASSUME Engine \/ Others \/ Clearing PROVE IInv'
  <2>1. Noted /\ (Crash \/ Ambient)
    BY <1>3, AmbientFacts DEF Engine, Others, Clearing
  <2>2. Typed' /\ Streams' /\ Alone'
    BY <1>3, <2>1, ExtractionTyped, OthersTyped, ExtractionStreams, OthersStreams,
       AloneKept
  <2>3. Published'
    BY <1>3, <2>2, OthersPublished
  <2>4. ASSUME NEW w \in Updater
        PROVE  Progress(w)' /\ Asked(w)' /\ Replaces(w)' /\ Right(w)'
    BY <2>1, <2>2, OthersProgress, OthersRight
  <2>5. Extracting' /\ Phases'
    BY <1>3, OthersExtracting
  <2>6. ASSUME NEW f \in File PROVE EtagTrue(f)' /\ FileShape(f)'
    BY <1>3, <2>2, OthersEtag, ExtractionShape, OthersShape
  <2>7. StaleKnown'
    BY <1>3, OthersStale
  <2>8. QED
    BY <1>1, <2>2, <2>3, <2>4, <2>5, <2>6, <2>7
<1>4. QED
  BY <1>2, <1>3 DEF Next

\* The invariant is about the variables and nothing else.
LEMMA Stuttering == IInv /\ UNCHANGED vars => IInv'
<1> SUFFICES ASSUME IInv, UNCHANGED vars PROVE IInv'
  OBVIOUS
<1>1. /\ UNCHANGED <<dest, tmp, up, ex, stale, left, overlap, torn, lost>>
      /\ UNCHANGED <<etag, profile, clearing, release, kept>>
      /\ UNCHANGED <<inited, vpn, missed>>
  BY DEF vars, prefVars, engineVars, faultVars
<1>2. Typed' /\ Bounded'
  BY <1>1 DEF IInv, Typed, Bounded
<1>3. Streams' /\ Alone'
  BY <1>1 DEF IInv, Streams, Alone, InHand, Is
<1>4. Published'
  BY <1>1 DEF IInv, Published, Real, Installing
<1>5. \A u \in Updater : Progress(u)' /\ Asked(u)' /\ Replaces(u)' /\ Right(u)'
  BY <1>1 DEF IInv, Progress, Asked, Replaces, Right, Installing, Outdated,
     Latest, Is
<1>6. Extracting' /\ Phases' /\ StaleKnown'
  BY <1>1 DEF IInv, Extracting, Phases, StaleKnown, Answers, HandedOver, Working,
     Running, Is
<1>7. \A f \in File : EtagTrue(f)' /\ FileShape(f)'
  BY <1>1 DEF IInv, EtagTrue, FileShape, PassedBy, HandedOver, Outdated, Working,
     Is
<1>8. QED
  BY <1>2, <1>3, <1>4, <1>5, <1>6, <1>7 DEF IInv

\* What GeoFileManager, its workers and extractGeoFiles do keeps the invariant.
THEOREM GeoInvariant == Spec => []IInv
<1>1. IInv /\ [Next]_vars => IInv'
  BY NextFacts, Stuttering
<1>2. QED
  BY <1>1, InitFacts, PTL DEF Spec

\* The files, the ETags, the updaters and the extraction keep their types.
THEOREM GeoTypes == Spec => []TypeOK
<1>1. IInv => TypeOK
  <2> SUFFICES ASSUME Typed PROVE TypeOK
    BY DEF IInv
  <2>1. {dest, tmp} \subseteq [File -> Contents \cup {None}]
    BY Zenon DEF Typed
  <2>2. {clearing, inited} \subseteq BOOLEAN
    BY Zenon DEF Typed
  <2>3. {overlap, torn, lost, kept, stale, missed} \subseteq SUBSET File
    BY Zenon DEF Typed
  <2>4. QED
    BY <2>1, <2>2, <2>3 DEF Typed, TypeOK
<1>2. QED
  BY <1>1, GeoInvariant, PTL

\* An updater of GeoFileManager that the server will answer "304 not modified"
\* has the whole file of that version in place, for any number of updaters,
\* changes of the profile, releases, failures and crashes, unless two writers
\* met or the ETag was Doubtful.
THEOREM NotModified == Spec => []NotModifiedIsRight
<1>1. IInv => NotModifiedIsRight
  BY DEF IInv, Right, NotModifiedIsRight
<1>2. QED
  BY <1>1, GeoInvariant, PTL

\* Once extractGeoFiles has run, each geo file is whole, or about to be put in
\* place by the updater that has removed it, or missing since such an updater's
\* renameTo failed, unless two writers met or the extraction was interrupted.
THEOREM Usable == Spec => []FilesUsable
<1>1. IInv => FilesUsable
  <2> SUFFICES ASSUME IInv, inited, NEW f \in File
               PROVE  \/ \E v \in Version : dest[f] = Whole(v)
                      \/ f \in overlap \cup torn
                      \/ dest[f] = None /\ f \in lost
                      \/ \E u \in Updater : Is(u, "rename") /\ up[u].file = f
    BY DEF FilesUsable
  <2>1. PassedBy(f) /\ ex.pc = "idle" /\ FileShape(f)
    BY DEF IInv, Phases, PassedBy
  <2>2. QED
    BY <2>1 DEF FileShape
<1>2. QED
  BY <1>1, GeoInvariant, PTL

\* When no updater is at work, a running engine has read the files in place, but
\* for those that were installed without a restart: by the button, or by a worker
\* whose second request threw, which WorkManager stopped, or which ended before
\* the start that read the files had reported CONNECTED.  (A file that a failed
\* renameTo has lost is excepted as well.)
THEOREM Fresh == Spec => []EngineFresh
<1>1. IInv => EngineFresh
  <2> SUFFICES ASSUME IInv, Running, \A u \in Updater : Is(u, "idle"),
                      NEW f \in stale
               PROVE  f \in overlap \cup missed \cup lost
    BY DEF EngineFresh
  <2>1. \A u \in Updater : ~Answers(u, f)
    BY DEF Answers, HandedOver, Working, Is
  <2>2. QED
    BY <2>1 DEF IInv, StaleKnown
<1>2. QED
  BY <1>1, GeoInvariant, PTL
=============================================================================
