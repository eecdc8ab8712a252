------------------------------ MODULE GeoFiles ------------------------------
(***************************************************************************)
(* The geo files: GeoFileManager downloads geoip.dat and geosite.dat when  *)
(* the server's ETag has changed, for the workers (the daily one, and the  *)
(* one that a start of the app queues when the last update is three days   *)
(* old) and for the button of the settings; extractGeoFiles copies the     *)
(* bundled ones when they are missing; the engine reads them at its start. *)
(*                                                                         *)
(* Updaters share one temporary file per geo file.  A stream stays on its  *)
(* file when that is renamed or deleted (field open says where it is now), *)
(* so what an updater writes may end up in the file the engine reads.      *)
(* SharedPreferences.apply is taken as durable: losing the last write in a *)
(* crash is a crash one step earlier.                                      *)
(***************************************************************************)
EXTENDS Naturals, Sequences

CONSTANTS
    Worker,          \* GeoUpdateWorkers that WorkManager runs
    Button,          \* the button, an updater as well
    Profile,         \* geo profiles, each with a server of its own
    Default,         \* the profile of a new installation
    None,
    Chunks,          \* size of a geo file, in writes of at least 1024 bytes
    MaxEvents        \* bound: releases, changes of the profile, stops of the
                     \* VPN and of workers, failures and deaths of the process,
                     \* together

ASSUME GeoAssumption ==
    /\ Button \notin Worker
    /\ Default \in Profile /\ None \notin Profile
    /\ Chunks \in Nat \ {0} /\ MaxEvents \in Nat

VARIABLES
    dest, tmp,       \* [File -> contents], None if there is no such file
    etag, profile,   \* saved: the ETag of each file, the geo profile
    clearing,        \* setGeoProfile has saved, and not yet cleared the ETags
    kept,            \* ghost: files whose ETag a crash or a rename that failed
                     \* has left although it may not be that of the file any
                     \* more, see Crash and Rename
    release,         \* the servers: the latest release of each profile
    up,              \* the updaters, see Record
    ex,              \* extractGeoFiles: [pc, file, pos, open]
    inited,          \* XrayManager.coreInitialized
    vpn,             \* "starting" once the engine has read the files, "up" once
                     \* the state is CONNECTED
    left,            \* what is left of MaxEvents
    overlap,         \* ghost: files that two writers had in hand at once
    torn,            \* ghost: files whose extraction was interrupted
    lost,            \* ghost: files whose rename has failed, see Rename
    stale,           \* ghost: files changed since the running engine read them
    missed           \* ghost: files installed under a running engine by an
                     \* updater that did not restart it

prefVars == <<etag, profile, clearing, release, kept>>
engineVars == <<inited, vpn, missed>>
faultVars == <<torn, lost>>
vars == <<dest, tmp, prefVars, up, ex, engineVars, stale, left, overlap,
          faultVars>>

Updater == Worker \cup {Button}
File == {"geoip.dat", "geosite.dat"}
Asset == <<None, 0>>
Version == (Profile \X (1 .. MaxEvents + 1)) \cup {Asset}
Contents == UNION {[1 .. n -> Version \cup {None}] : n \in 0 .. Chunks}

ASSUME NoneAssumption == None \notin Version \cup Contents

Record == [pc : {"idle", "answer", "write", "check", "verify", "delete",
                 "rename", "save", "end", "restart"},
           file : File, prof : Profile,
           tag : Version \cup {None},      \* the ETag it sent
           early : BOOLEAN,                \* ghost: that was Doubtful
           got : Version,                  \* the version it was sent
           pos : 0 .. Chunks,              \* chunks it has written
           open : {"tmp", "dest", "gone"},
           updated : SUBSET File]

TypeOK ==
    /\ {dest, tmp} \subseteq [File -> Contents \cup {None}]
    /\ etag \in [File -> Version \cup {None}]
    /\ profile \in Profile /\ release \in [Profile -> 1 .. MaxEvents + 1]
    /\ up \in [Updater -> Record]
    /\ ex \in [pc : {"idle", "check", "open", "copy", "next"}, file : File,
               pos : 0 .. Chunks, open : {"dest", "gone"}]
    /\ {clearing, inited} \subseteq BOOLEAN /\ vpn \in {"down", "starting", "up"}
    /\ {overlap, torn, lost, kept, stale, missed} \subseteq SUBSET File

Idle == [pc |-> "idle", file |-> "geoip.dat", prof |-> Default, tag |-> None,
         early |-> FALSE, got |-> Asset, pos |-> 0, open |-> "gone",
         updated |-> {}]
NoExtraction ==
    [pc |-> "idle", file |-> "geoip.dat", pos |-> 0, open |-> "gone"]

Init ==
    /\ dest = [f \in File |-> None] /\ tmp = dest /\ etag = dest
    /\ profile = Default /\ clearing = FALSE
    /\ release = [p \in Profile |-> 1]
    /\ up = [u \in Updater |-> Idle] /\ ex = NoExtraction
    /\ inited = FALSE /\ vpn = "down"
    /\ left = MaxEvents
    /\ overlap = {} /\ torn = {} /\ lost = {} /\ kept = {}
    /\ stale = {} /\ missed = {}

Whole(v) == [i \in 1 .. Chunks |-> v]
Latest(p) == <<p, release[p]>>

\* Mutant: a file that is missing counts as one that is there.
IsEmpty(c) == c = <<>>

\* File.length() of a missing file is 0.
IsSmall(c) == c = None \/ c = <<>>

\* A positioned write, which leaves a hole in a file that was truncated.
WriteAt(c, n, v) ==
    [i \in 1 .. (IF Len(c) > n THEN Len(c) ELSE n) |->
        IF i = n THEN v ELSE IF i <= Len(c) THEN c[i] ELSE None]

\* The stream of the answer ends.
Last(n) == n = Chunks

\* A writer, its stream now in file f's to if it was in its from.
Follow(r, f, from, to) ==
    IF r.file = f /\ r.open = from THEN [r EXCEPT !.open = to] ELSE r

\* The updaters when file f's from becomes its to.
Moved(f, from, to) == [w \in Updater |-> Follow(up[w], f, from, to)]

\* The updaters when file f's temporary file replaces it.
Replaced(f) == [w \in Updater |->
    Follow(Follow(up[w], f, "dest", "gone"), f, "tmp", "dest")]

InHand(u, f) == up[u].file = f /\ up[u].pc \notin {"idle", "end", "restart"}

Is(u, place) == up[u].pc = place
Goes(u, place) == up' = [up EXCEPT ![u] = [@ EXCEPT !.pc = place]]

\* The engine has read the files; CoreService.isActive.
Running == vpn # "down"
isActive == vpn = "up"

\* The ghosts of every step, and of every step but the start that a worker sends.
Noted ==
    overlap' = overlap \cup {f \in File : \E u \in Updater : InHand(u, f)' /\
       \/ \E w \in Updater \ {u} : InHand(w, f)'
       \/ ex'.file = f /\ ex'.pc \in {"open", "copy"}}

Aged ==
    stale' = IF Running /\ Running'
             THEN stale \cup {f \in File : dest'[f] # dest[f]} ELSE {}

Event == left > 0 /\ left' = left - 1
-----------------------------------------------------------------------------
(* The updaters. *)

\* The ETag of file f is one that setGeoProfile has yet to clear, for an updater
\* that has the new profile p already, or one that a crash kept.
Doubtful(f, p) == f \in kept \/ (clearing /\ p = profile)

\* An updater that is through with its file.  downloadIfNew begins the next
\* one with reading the ETag that was saved for it.
NextFile(r) ==
    LET first == r.file = "geoip.dat"
    IN  [r EXCEPT !.pc = IF first THEN "answer" ELSE "end",
                  !.tag = IF first THEN etag["geosite.dat"] ELSE None,
                  !.early = first /\ Doubtful("geosite.dat", r.prof),
                  !.file = "geosite.dat", !.open = "gone", !.pos = 0,
                  !.got = Asset]

\* doWork or updateGeoFiles, which ignores the button while it is at work.
UpdateAll(u) ==
    /\ Is(u, "idle")
    /\ up' = [up EXCEPT ![u] = [Idle EXCEPT
                  !.pc = "answer", !.prof = profile, !.tag = etag["geoip.dat"],
                  !.early = Doubtful("geoip.dat", profile)]]
    /\ UNCHANGED <<dest, tmp, prefVars, ex, engineVars, left, faultVars>>

\* 304, or a status that is no success, or a stream into the temporary file,
\* which loses its contents.
Answered(u) ==
    /\ Is(u, "answer")
    /\ LET v == Latest(up[u].prof)
       IN  \/ /\ up[u].tag = v
              /\ up' = [up EXCEPT ![u] = NextFile(@)]
              /\ UNCHANGED <<tmp, left>>
           \/ /\ Event
              /\ up' = [up EXCEPT ![u] = NextFile(@)]
              /\ UNCHANGED tmp
           \/ /\ up[u].tag # v
              /\ up' = [up EXCEPT ![u] = [@ EXCEPT !.pc = "write", !.tag = None,
                                    !.early = FALSE, !.got = v, !.open = "tmp"]]
              /\ tmp' = [tmp EXCEPT ![up[u].file] = <<>>]
              /\ UNCHANGED left
    /\ UNCHANGED <<dest, prefVars, ex, engineVars, faultVars>>

\* Updater u ends, and a running engine is not told what it has installed.
Missed(u) == missed' = IF Running THEN missed \cup up[u].updated ELSE missed

\* execute() fails outside the try block: the exception leaves updateAll, and
\* with it what the first file had to report.  A worker runs again, after a
\* delay or the next day.
Throws(u) ==
    /\ Is(u, "answer") /\ Event
    /\ up' = [up EXCEPT ![u] = Idle]
    /\ Missed(u)
    /\ UNCHANGED <<dest, tmp, prefVars, ex, inited, vpn, faultVars>>

\* One buffer is written, to where the stream's file is now.
Write(u) ==
    /\ Is(u, "write")
    /\ LET r == up[u]
           n == r.pos + 1
           Put(disk) == [disk EXCEPT ![r.file] = WriteAt(@, n, r.got)]
       IN  /\ up' = [up EXCEPT ![u] =
                    IF ~Last(n) THEN [r EXCEPT !.pos = n]
                    ELSE [r EXCEPT !.pc = "check", !.pos = 0, !.open = "gone"]]
           /\ tmp' = IF r.open = "tmp" THEN Put(tmp) ELSE tmp
           /\ dest' = IF r.open = "dest" THEN Put(dest) ELSE dest
    /\ UNCHANGED <<prefVars, ex, engineVars, left, faultVars>>

\* The way out that gives the temporary file up: read error, too small, wrong
\* checksum, a rename that fails.
GivesUp(u) ==
    /\ up' = [Moved(up[u].file, "tmp", "gone") EXCEPT ![u] = NextFile(@)]
    /\ tmp' = [tmp EXCEPT ![up[u].file] = None]

WriteFails(u) ==
    /\ Is(u, "write") /\ Event
    /\ GivesUp(u)
    /\ UNCHANGED <<dest, prefVars, ex, engineVars, faultVars>>

CheckLength(u) ==
    /\ Is(u, "check")
    /\ \/ IsSmall(tmp[up[u].file]) /\ GivesUp(u)
       \/ ~IsSmall(tmp[up[u].file]) /\ Goes(u, "verify") /\ UNCHANGED tmp
    /\ UNCHANGED <<dest, prefVars, ex, engineVars, left, faultVars>>

\* The checksum is that of the latest release; if it cannot be fetched, the
\* file is taken without.
VerifySha256(u) ==
    /\ Is(u, "verify")
    /\ LET good == tmp[up[u].file] = Whole(Latest(up[u].prof))
       IN  \/ good /\ Goes(u, "delete") /\ UNCHANGED <<tmp, left>>
           \/ ~good /\ GivesUp(u) /\ UNCHANGED left
           \/ Event /\ Goes(u, "delete") /\ UNCHANGED tmp
    /\ UNCHANGED <<dest, prefVars, ex, engineVars, faultVars>>

DeleteDest(u) ==
    /\ Is(u, "delete")
    /\ up' = [Moved(up[u].file, "dest", "gone") EXCEPT
                  ![u] = [@ EXCEPT !.pc = "rename"]]
    /\ ex' = Follow(ex, up[u].file, "dest", "gone")
    /\ dest' = [dest EXCEPT ![up[u].file] = None]
    /\ UNCHANGED <<tmp, prefVars, engineVars, left, faultVars>>

\* renameTo fails for want of a temporary file, or for any other reason: then
\* that is deleted as well, and nothing is left of the file.  The ETag stays,
\* and it may be one that the server of another profile still answers with 304.
Rename(u) ==
    /\ Is(u, "rename")
    /\ LET f == up[u].file
           other == etag[f] # None /\ etag[f][1] # up[u].prof
       IN  \/ /\ tmp[f] = None /\ GivesUp(u)
              /\ UNCHANGED <<dest, ex, kept, left, faultVars>>
           \/ /\ tmp[f] # None /\ Event /\ GivesUp(u)
              /\ lost' = lost \cup {f}
              /\ kept' = IF other THEN kept \cup {f} ELSE kept
              /\ UNCHANGED <<dest, ex, torn>>
           \/ /\ tmp[f] # None
              /\ up' = [Replaced(f) EXCEPT ![u] = [@ EXCEPT !.pc = "save"]]
              /\ ex' = Follow(ex, f, "dest", "gone")
              /\ dest' = [dest EXCEPT ![f] = tmp[f]]
              /\ tmp' = [tmp EXCEPT ![f] = None]
              /\ torn' = torn \ {f} /\ lost' = lost \ {f}
              /\ UNCHANGED <<kept, left>>
    /\ UNCHANGED <<etag, profile, clearing, release, engineVars>>

\* Mutant: the ETag is asked for after the download.
LatestEtag(u) == Latest(up[u].prof)

NewEtag(u) == up[u].got

SaveEtag(u) ==
    /\ Is(u, "save")
    /\ etag' = [etag EXCEPT ![up[u].file] = NewEtag(u)]
    /\ kept' = kept \ {up[u].file}
    /\ LET r == [up[u] EXCEPT !.updated = @ \cup {up[u].file}]
       IN  up' = [up EXCEPT ![u] = NextFile(r)]
    /\ UNCHANGED <<dest, tmp, profile, clearing, release, ex, engineVars, left,
                   faultVars>>

\* Mutant: only an update of both files counts.
RestartsForBoth(u) == up[u].updated = File /\ isActive /\ u # Button

Restarts(u) == up[u].updated # {} /\ isActive /\ u # Button

\* updateAll returns.  A worker that has updated something stops an active VPN,
\* to start it again half a second later.  It leaves alone one that is not
\* CONNECTED yet, although its engine may have read the old files.
Finish(u) ==
    /\ Is(u, "end")
    /\ \/ /\ Restarts(u)
          /\ up' = [up EXCEPT ![u] = [Idle EXCEPT !.pc = "restart"]]
          /\ vpn' = "down" /\ missed' = {}
       \/ /\ ~Restarts(u)
          /\ up' = [up EXCEPT ![u] = Idle]
          /\ missed' = IF Running /\ (u = Button \/ ~isActive)
                       THEN missed \cup up[u].updated ELSE missed
          /\ UNCHANGED vpn
    /\ UNCHANGED <<dest, tmp, prefVars, ex, inited, left, faultVars>>

\* WorkManager stops a worker.  The download, which does not suspend, goes on to
\* its end; then withContext throws, or the delay does, and no start is sent.
Cancelled(u) ==
    /\ u # Button /\ up[u].pc \in {"end", "restart"} /\ Event
    /\ up' = [up EXCEPT ![u] = Idle]
    /\ Missed(u)
    /\ UNCHANGED <<dest, tmp, prefVars, ex, inited, vpn, faultVars>>
-----------------------------------------------------------------------------
(* The engine. *)

\* CoreService starts the engine, which reads the files and cannot do without.
Load ==
    /\ vpn' = IF \A f \in File : dest[f] # None THEN "starting" ELSE "down"
    /\ missed' = {}

\* startConnection reports CONNECTED.
Connected ==
    /\ vpn = "starting"
    /\ vpn' = "up"
    /\ UNCHANGED <<dest, tmp, prefVars, up, ex, inited, missed, left, faultVars>>

\* Of a worker, whatever the user has done meanwhile.
Restart(u) ==
    /\ Is(u, "restart")
    /\ Goes(u, "idle")
    /\ Load /\ stale' = {}
    /\ UNCHANGED <<dest, tmp, prefVars, ex, inited, left, faultVars>>

\* The user's start.  The first one of the process extracts the files first.
StartVpn ==
    /\ ~Running /\ ex.pc = "idle"
    /\ \/ inited /\ Load /\ UNCHANGED ex
       \/ /\ ~inited
          /\ ex' = [NoExtraction EXCEPT !.pc = "check"]
          /\ UNCHANGED <<vpn, missed>>
    /\ UNCHANGED <<dest, tmp, prefVars, up, inited, left, faultVars>>

\* By the user, or because the start fails after the engine's.
StopVpn ==
    /\ Running /\ Event
    /\ vpn' = "down" /\ missed' = {}
    /\ UNCHANGED <<dest, tmp, prefVars, up, ex, inited, faultVars>>

\* extractGeoFiles is through with a file; after the second, the engine starts.
Extracted ==
    IF ex.file = "geoip.dat"
    THEN /\ ex' = [NoExtraction EXCEPT !.pc = "check", !.file = "geosite.dat"]
         /\ UNCHANGED engineVars
    ELSE ex' = NoExtraction /\ inited' = TRUE /\ Load

\* A file of less than 1024 bytes is deleted; one that exists is kept.
ExtractCheck ==
    /\ ex.pc = "check"
    /\ \/ ~IsSmall(dest[ex.file]) /\ Extracted /\ UNCHANGED <<dest, up>>
       \/ /\ IsSmall(dest[ex.file])
          /\ dest' = [dest EXCEPT ![ex.file] = None]
          /\ up' = Moved(ex.file, "dest", "gone")
          /\ ex' = [ex EXCEPT !.pc = "open"]
          /\ UNCHANGED engineVars
    /\ UNCHANGED <<tmp, prefVars, left, faultVars>>

\* What has come into its place since is truncated.
ExtractOpen ==
    /\ ex.pc = "open"
    /\ dest' = [dest EXCEPT ![ex.file] = <<>>]
    /\ ex' = [ex EXCEPT !.pc = "copy", !.open = "dest"]
    /\ lost' = lost \ {ex.file}
    /\ UNCHANGED <<tmp, prefVars, up, engineVars, left, torn>>

ExtractCopy ==
    /\ ex.pc = "copy"
    /\ dest' = IF ex.open = "gone" THEN dest
               ELSE [dest EXCEPT ![ex.file] = WriteAt(@, ex.pos + 1, Asset)]
    /\ ex' = IF ex.pos + 1 < Chunks THEN [ex EXCEPT !.pos = @ + 1]
             ELSE [ex EXCEPT !.pc = "next", !.open = "gone"]
    /\ UNCHANGED <<tmp, prefVars, up, engineVars, left, faultVars>>

\* An exception is logged, and what was written stays.
ExtractFails ==
    /\ ex.pc = "copy" /\ Event
    /\ ex' = [ex EXCEPT !.pc = "next", !.open = "gone"]
    /\ torn' = torn \cup {ex.file}
    /\ UNCHANGED <<dest, tmp, prefVars, up, engineVars, lost>>

ExtractNext ==
    /\ ex.pc = "next"
    /\ Extracted
    /\ UNCHANGED <<dest, tmp, prefVars, up, left, faultVars>>
-----------------------------------------------------------------------------
(* The user, the servers, the system. *)

\* setGeoProfile saves the profile, then clears the ETags.
SetGeoProfile(p) ==
    /\ ~clearing /\ p # profile /\ Event
    /\ profile' = p
    /\ clearing' = TRUE
    /\ UNCHANGED <<dest, tmp, etag, release, kept, up, ex, engineVars, faultVars>>

ClearEtags ==
    /\ clearing
    /\ clearing' = FALSE
    /\ etag' = [f \in File |-> None]
    /\ kept' = {}
    /\ UNCHANGED <<dest, tmp, profile, release, up, ex, engineVars, left, faultVars>>

Publish(p) ==
    /\ Event
    /\ release' = [release EXCEPT ![p] = @ + 1]
    /\ UNCHANGED <<dest, tmp, etag, profile, clearing, kept, up, ex, engineVars,
                   faultVars>>

\* The process dies and is started again.  An ETag that was to be cleared stays,
\* and so does that of the current profile when an updater for a former one has
\* taken the file away.
Crash ==
    /\ Event
    /\ kept' = IF clearing THEN File ELSE kept \cup {f \in File : \E u \in Updater :
          up[u].file = f /\ up[u].pc \in {"rename", "save"} /\ up[u].prof # profile}
    /\ up' = [u \in Updater |-> Idle]
    /\ ex' = NoExtraction
    /\ torn' = IF ex.pc \in {"open", "copy"} THEN torn \cup {ex.file} ELSE torn
    /\ clearing' = FALSE /\ inited' = FALSE /\ vpn' = "down" /\ missed' = {}
    /\ UNCHANGED <<dest, tmp, etag, profile, release, lost>>

UpdaterNext(u) ==
    /\ \/ /\ \/ UpdateAll(u) \/ Answered(u) \/ Throws(u)
             \/ Write(u) \/ WriteFails(u) \/ CheckLength(u) \/ VerifySha256(u)
             \/ DeleteDest(u) \/ Rename(u) \/ SaveEtag(u)
             \/ Finish(u) \/ Cancelled(u)
          /\ Aged
       \/ Restart(u)
    /\ Noted

Engine ==
    /\ \/ ExtractCheck \/ ExtractOpen \/ ExtractCopy \/ ExtractFails
       \/ ExtractNext
    /\ Aged /\ Noted

Others ==
    /\ \/ StartVpn \/ Connected \/ StopVpn
       \/ \E p \in Profile : SetGeoProfile(p) \/ Publish(p)
       \/ Crash
    /\ Aged /\ Noted

Clearing == ClearEtags /\ Aged /\ Noted

Next == (\E u \in Updater : UpdaterNext(u)) \/ Engine \/ Clearing \/ Others

\* WorkManager runs a worker every day and its threads are scheduled; the
\* network comes back (MaxEvents).  The user does nothing in particular.
Spec ==
    /\ Init /\ [][Next]_vars
    /\ \A u \in Worker : WF_vars(UpdaterNext(u))
    /\ WF_vars(Engine) /\ WF_vars(Clearing)
-----------------------------------------------------------------------------
\* "Not modified" is true: an updater whose question will be answered 304 has
\* the whole file of that version in place, whatever crashed, failed or was
\* switched before, unless two writers had the file in hand at once, or the ETag
\* is one that a change of the profile should have cleared.
NotModifiedIsRight ==
    \A u \in Updater :
        LET f == up[u].file
        IN  Is(u, "answer") /\ up[u].tag = Latest(up[u].prof) =>
                dest[f] = Whole(up[u].tag) \/ f \in overlap \/ up[u].early

\* Once the core is initialised, a file that the engine would read is whole, and
\* one is missing only while an update is between taking the old file away and
\* putting the new one in its place, or since a rename that failed there: then
\* until the next update, or the next process, brings it back.  (Not if two
\* writers met, or the extraction was interrupted.)
FilesUsable ==
    inited => \A f \in File :
        \/ \E v \in Version : dest[f] = Whole(v)
        \/ f \in overlap \cup torn
        \/ dest[f] = None /\ f \in lost
        \/ \E u \in Updater : Is(u, "rename") /\ up[u].file = f

\* When no updater is at work, a running engine has read the files that are in
\* place.  The exceptions are what the button installs, and what a worker
\* installs whose second request throws, which WorkManager stops, or which ends
\* after the engine has read the files and before the VPN is CONNECTED.  (A file
\* that a failed rename has lost is one the engine read and nobody has now.)
EngineFresh ==
    Running /\ (\A u \in Updater : Is(u, "idle")) =>
        stale \subseteq overlap \cup missed \cup lost

\* In the end the files are the latest of the chosen profile, although crashes,
\* lost answers, and updates for the former profile come in between.
Converges ==
    <>[](\A f \in File : \/ dest[f] = Whole(Latest(profile))
                         \/ f \in overlap \cup kept)
=============================================================================
