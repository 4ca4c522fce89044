--------------------------- MODULE Content_proofs ----------------------------
(* What Core keeps for its users and plugins: media and their transforms         *)
(* (MediaLibrary), remote sources (RemoteMedia), history, catalog and            *)
(* notifications (PlatformRecords), and the data of plugins (PluginData).        *)
EXTENDS MediaLibrary, RemoteMedia, PlatformRecords, PluginData, TLAPS

------------------------------------------------------------------------------
(***************************************************************************)
(* Theorem about MediaLibrary: sessions and transforms end with whom they  *)
(* belong to, and rows and files account for each other.  The              *)
(* strengthening: a session has read a part of one edition, and a file     *)
(* without a row is either being written or is known to be left over.      *)
(***************************************************************************)

PlayRows == [status : {"live", "overdue", "revoked"}, user : Members, of : Homes, item : Roots \X Editions,
             got : Nat, completed : BOOLEAN]
OutputRows == [status : {"pending", "live", "overdue", "revoked"}, kind : {"file", "hls"},
               user : Members, of : Homes]

(* A playback session as a row, whose reader has a part of one edition or  *)
(* all of it.                                                              *)
SessionOK(e) ==
  \/ e = NoPlayback
  \/ /\ e \in PlayRows
     /\ e.got <= Size[e.item[2]]
     /\ e.completed <=> e.got > 0 /\ e.got = Size[e.item[2]]

(* Its user and its installation are there unless it was withdrawn.        *)
PlayServed(e, people_, homes) ==
  e.status \in Unrevoked => e.user \in people_ /\ homes[e.of] = "installed"

(* An output and the handler that makes it: the row is pending as long as  *)
(* the handler runs, and a handler that was not told to end is served.     *)
OutputOK(e, j, people_, homes) ==
  /\ e \in OutputRows \cup {NoOutput}
  /\ j \in {"none", "running", "aborted"}
  /\ j # "none" <=> e.status = "pending"
  /\ (e.kind = "hls" /\ e.status \in Unrevoked) \/ j = "running" => e.user \in people_ /\ homes[e.of] = "installed"

FileOK(e, j, there, left) ==
  /\ e.status = "live" => there
  /\ there /\ e.status \in {"none", "pending"} => j # "none" \/ left

RootsOK(roots, editions) ==
  /\ roots \in [Roots -> [status : {"none", "live", "revoked"}, of : Homes \cup {None}]]
  /\ editions \in [Roots -> Editions]

PeopleOK(people_, homes) ==
  people_ \subseteq Members /\ homes \in [Homes -> {"installed", "disabled", "uninstalled"}]

SessionsOfThose(table, people_, homes) ==
  /\ table = [p \in Playbacks |-> table[p]]
  /\ \A p \in Playbacks : SessionOK(table[p]) /\ PlayServed(table[p], people_, homes)

OutputsOfThose(table, jobs, people_, homes) ==
  /\ table = [o \in Outputs |-> table[o]] /\ jobs = [o \in Outputs |-> jobs[o]]
  /\ \A o \in Outputs : OutputOK(table[o], jobs[o], people_, homes)

FilesOK(table, jobs, files, left) ==
  /\ files \subseteq Outputs /\ left \subseteq Outputs
  /\ \A o \in Outputs : FileOK(table[o], jobs[o], o \in files, o \in left)

MediaInv ==
  /\ RootsOK(root, edition)
  /\ PeopleOK(member, home)
  /\ SessionsOfThose(playback, member, home)
  /\ OutputsOfThose(output, job, member, home)
  /\ FilesOK(output, job, file, orphaned)

LEMMA MediaInvSplits ==
  /\ MediaInv <=> /\ RootsOK(root, edition) /\ PeopleOK(member, home)
                  /\ SessionsOfThose(playback, member, home) /\ OutputsOfThose(output, job, member, home)
                  /\ FilesOK(output, job, file, orphaned)
  /\ MediaInv' <=> /\ RootsOK(root', edition') /\ PeopleOK(member', home')
                   /\ SessionsOfThose(playback', member', home') /\ OutputsOfThose(output', job', member', home')
                   /\ FilesOK(output', job', file', orphaned')
BY DEF MediaInv, RootsOK, PeopleOK, SessionsOfThose, OutputsOfThose, FilesOK

LEMMA NoRowsAreRows ==
  /\ SessionOK(NoPlayback) /\ NoPlayback.status = "none" /\ NoPlayback \notin PlayRows
  /\ NoOutput.status = "none" /\ NoOutput \in OutputRows \cup {NoOutput} /\ NoOutput \notin OutputRows
BY DEF SessionOK, NoPlayback, NoOutput, PlayRows, OutputRows

LEMMA NoRowIsServed ==
  ASSUME NEW people_, NEW homes
  PROVE  PlayServed(NoPlayback, people_, homes) /\ OutputOK(NoOutput, "none", people_, homes)
BY NoRowsAreRows DEF PlayServed, OutputOK, Unrevoked

LEMMA MediaInvHolds == MediaInv => MediaSound
<1> SUFFICES ASSUME MediaInv PROVE MediaSound
  OBVIOUS
<1>1. ASSUME NEW p \in Playbacks
      PROVE  /\ playback[p] \in [status : {"none", "revoked"} \cup Unrevoked, user : Members \cup {None},
                                 of : Homes \cup {None}, item : (Roots \X Editions) \cup {None},
                                 got : Nat, completed : BOOLEAN]
             /\ playback[p].status \in Unrevoked => Serves(playback[p].user, playback[p].of)
             /\ playback[p] # NoPlayback =>
                  /\ playback[p].got <= Size[playback[p].item[2]]
                  /\ playback[p].completed <=> playback[p].got > 0 /\ playback[p].got = Size[playback[p].item[2]]
  <2>1. SessionOK(playback[p]) /\ PlayServed(playback[p], member, home)
    BY DEF MediaInv, SessionsOfThose
  <2>2. playback[p] \in PlayRows \/ playback[p] = NoPlayback
    BY <2>1 DEF SessionOK
  <2>3. playback[p] \in [status : {"none", "revoked"} \cup Unrevoked, user : Members \cup {None},
                         of : Homes \cup {None}, item : (Roots \X Editions) \cup {None},
                         got : Nat, completed : BOOLEAN]
    <3>1. CASE playback[p] \in PlayRows
      BY <3>1 DEF PlayRows, Unrevoked
    <3>2. CASE playback[p] = NoPlayback
      BY <3>2 DEF NoPlayback
    <3> QED
      BY <2>2, <3>1, <3>2
  <2>4. playback[p].status \in Unrevoked => Serves(playback[p].user, playback[p].of)
    BY <2>1 DEF PlayServed, Serves
  <2> QED
    BY <2>1, <2>3, <2>4 DEF SessionOK
<1>2. ASSUME NEW o \in Outputs
      PROVE  /\ output[o] \in [status : {"none", "pending", "revoked"} \cup Unrevoked, kind : {"file", "hls"},
                               user : Members \cup {None}, of : Homes \cup {None}]
             /\ job[o] \in {"none", "running", "aborted"}
             /\ output[o].kind = "hls" /\ output[o].status \in Unrevoked => Serves(output[o].user, output[o].of)
             /\ \A u \in Members, i \in Homes : OutputRowForUser(o, u) \/ HlsRow(o, u, i) => o \in file
             /\ o \in file /\ output[o].status \in {"none", "pending"} => job[o] # "none" \/ o \in orphaned
  <2>1. OutputOK(output[o], job[o], member, home) /\ FileOK(output[o], job[o], o \in file, o \in orphaned)
    BY DEF MediaInv, OutputsOfThose, FilesOK
  <2>2. output[o] \in [status : {"none", "pending", "revoked"} \cup Unrevoked, kind : {"file", "hls"},
                       user : Members \cup {None}, of : Homes \cup {None}]
    BY <2>1 DEF OutputOK, OutputRows, NoOutput, Unrevoked
  <2>3. job[o] \in {"none", "running", "aborted"}
    BY <2>1 DEF OutputOK
  <2>4. output[o].kind = "hls" /\ output[o].status \in Unrevoked => Serves(output[o].user, output[o].of)
    BY <2>1 DEF OutputOK, Serves
  <2>5. \A u \in Members, i \in Homes : OutputRowForUser(o, u) \/ HlsRow(o, u, i) => o \in file
    BY <2>1 DEF FileOK, OutputRowForUser, OutputRow, HlsRow
  <2>6. o \in file /\ output[o].status \in {"none", "pending"} => job[o] # "none" \/ o \in orphaned
    BY <2>1 DEF FileOK
  <2> QED
    BY <2>2, <2>3, <2>4, <2>5, <2>6
<1>3. MediaTypeOK
  <2>1. playback \in [Playbacks -> [status : {"none", "revoked"} \cup Unrevoked, user : Members \cup {None},
                                    of : Homes \cup {None}, item : (Roots \X Editions) \cup {None},
                                    got : Nat, completed : BOOLEAN]]
    BY <1>1 DEF MediaInv, SessionsOfThose
  <2>2. output \in [Outputs -> [status : {"none", "pending", "revoked"} \cup Unrevoked, kind : {"file", "hls"},
                                user : Members \cup {None}, of : Homes \cup {None}]]
    BY <1>2 DEF MediaInv, OutputsOfThose
  <2>3. job \in [Outputs -> {"none", "running", "aborted"}]
    BY <1>2 DEF MediaInv, OutputsOfThose
  <2> QED
    BY <2>1, <2>2, <2>3 DEF MediaInv, RootsOK, PeopleOK, FilesOK, MediaTypeOK
<1>4. PlaybackWithdrawn
  BY <1>1, <1>2 DEF PlaybackWithdrawn
<1>5. ReadsWhole
  BY <1>1 DEF ReadsWhole
<1>6. OutputsAccountedFor
  BY <1>2 DEF OutputsAccountedFor
<1> QED
  BY <1>3, <1>4, <1>5, <1>6 DEF MediaSound

LEMMA MediaInitEstablishes == MediaInit => MediaInv
<1> SUFFICES ASSUME MediaInit PROVE MediaInv
  OBVIOUS
<1>1. RootsOK(root, edition) /\ PeopleOK(member, home)
  BY DEF MediaInit, RootsOK, PeopleOK, NoMediaRoot
<1>2. SessionsOfThose(playback, member, home) /\ OutputsOfThose(output, job, member, home)
  BY NoRowsAreRows, NoRowIsServed DEF MediaInit, SessionsOfThose, OutputsOfThose
<1>3. FilesOK(output, job, file, orphaned)
  BY NoRowsAreRows DEF MediaInit, FilesOK, FileOK
<1> QED
  BY <1>1, <1>2, <1>3 DEF MediaInv

(* Roots and editions. *)
LEMMA RootStepKeeps ==
  ASSUME MediaInv, RootsOK(root', edition'), UNCHANGED <<playback, people, transforms>>
  PROVE  MediaInv'
BY MediaInvSplits DEF people, transforms

(* One playback session is written. *)
LEMMA PlaybackKeeps ==
  ASSUME MediaInv, NEW p \in Playbacks, NEW e, SessionOK(e), PlayServed(e, member, home),
         playback' = [playback EXCEPT ![p] = e], UNCHANGED <<root, edition, people, transforms>>
  PROVE  MediaInv'
<1>1. SessionsOfThose(playback', member, home)
  BY DEF MediaInv, SessionsOfThose
<1> QED
  BY <1>1, MediaInvSplits DEF people, transforms

LEMMA CreatePlaybackKeeps ==
  ASSUME MediaInv, NEW u \in Members, NEW i \in Homes, Serves(u, i), NEW p \in Playbacks, CreatePlayback(p, u, i)
  PROVE  MediaInv'
<1>1. PICK r \in Roots : playback' = [playback EXCEPT ![p] = [NoPlayback EXCEPT
                       !.status = "live", !.user = u, !.of = i, !.item = <<r, edition[r]>>]]
  BY DEF CreatePlayback, ItemsOf, Item
<1>2. PICK e : e = [NoPlayback EXCEPT !.status = "live", !.user = u, !.of = i, !.item = <<r, edition[r]>>]
  OBVIOUS
<1>3. edition[r] \in Editions /\ Size[edition[r]] \in Nat
  BY MediaAssumption DEF MediaInv, RootsOK
<1>4. e = [status |-> "live", user |-> u, of |-> i, item |-> <<r, edition[r]>>, got |-> 0, completed |-> FALSE]
  BY <1>2 DEF NoPlayback
<1>5. e \in PlayRows /\ e.got = 0 /\ ~e.completed /\ e.item[2] = edition[r]
  BY <1>3, <1>4 DEF PlayRows
<1>6. SessionOK(e)
  BY <1>3, <1>5 DEF SessionOK
<1>7. PlayServed(e, member, home)
  BY <1>4 DEF PlayServed, Serves
<1> QED
  BY <1>1, <1>2, <1>6, <1>7, PlaybackKeeps DEF CreatePlayback

(* What is read ends where the edition ends, or before. *)
LEMMA CountBounds ==
  ASSUME NEW start \in Nat, NEW end \in Nat, NEW size \in Nat, end >= start, start < size
  PROVE  /\ start + Count(start, end, size) \in Nat
         /\ start + Count(start, end, size) > 0 /\ start + Count(start, end, size) <= size
         /\ start + Count(start, end, size) >= size <=> start + Count(start, end, size) = size
BY DEF Count

LEMMA ReadItemKeeps ==
  ASSUME MediaInv, NEW u \in Members, NEW i \in Homes, NEW p \in Playbacks, NEW end \in 0 .. 2 * Window,
         ReadItem(p, u, i, end)
  PROVE  MediaInv'
<1> DEFINE start == playback[p].got
           size == Size[playback[p].item[2]]
           all == start + Count(start, end, size)
<1>1. SessionOK(playback[p]) /\ PlayServed(playback[p], member, home) /\ playback[p].status = "live"
  BY DEF MediaInv, SessionsOfThose, ReadItem
<1>2. playback[p] \in PlayRows
  BY <1>1, NoRowsAreRows DEF SessionOK
<1>3. start \in Nat /\ size \in Nat /\ end \in Nat /\ end >= start /\ start < size
  BY <1>2, MediaAssumption DEF PlayRows, ReadItem
<1>4. PICK n : n = all /\ n \in Nat /\ n > 0 /\ n <= size
  BY <1>3, CountBounds
<1>5. (n >= size) \in BOOLEAN
  OBVIOUS
<1>6. PICK c \in BOOLEAN : c = (n >= size)
  BY <1>5, Zenon
<1>7. PICK e : e = [playback[p] EXCEPT !.got = n, !.completed = c]
  OBVIOUS
<1>8. playback' = [playback EXCEPT ![p] = e]
  BY <1>4, <1>7, <1>6 DEF ReadItem, MediaInv, SessionsOfThose
<1>9. e \in PlayRows /\ e.got = n /\ e.completed = c /\ e.item = playback[p].item
      /\ e.status = playback[p].status /\ e.user = playback[p].user /\ e.of = playback[p].of
  BY <1>2, <1>4, <1>7 DEF PlayRows
<1>10. n >= size <=> n > 0 /\ n = size
  BY <1>3, <1>4
<1>11. c <=> n > 0 /\ n = size
  BY <1>6, <1>10, Zenon
<1>12. SessionOK(e)
  BY <1>4, <1>9, <1>11 DEF SessionOK
<1>13. PlayServed(e, member, home)
  BY <1>1, <1>9 DEF PlayServed
<1> QED
  BY <1>8, <1>12, <1>13, PlaybackKeeps DEF ReadItem

LEMMA PlaybackExpiresKeeps == ASSUME MediaInv, NEW p \in Playbacks, PlaybackExpires(p) PROVE MediaInv'
<1>1. SessionOK(playback[p]) /\ PlayServed(playback[p], member, home) /\ playback[p].status = "live"
  BY DEF MediaInv, SessionsOfThose, PlaybackExpires
<1>2. playback[p] \in PlayRows
  BY <1>1, NoRowsAreRows DEF SessionOK
<1>3. PICK e : e = [playback[p] EXCEPT !.status = "overdue"] /\ playback' = [playback EXCEPT ![p] = e]
  BY DEF PlaybackExpires
<1>4. e \in PlayRows /\ e.got = playback[p].got /\ e.completed = playback[p].completed /\ e.item = playback[p].item
      /\ e.status = "overdue" /\ e.user = playback[p].user /\ e.of = playback[p].of
  BY <1>2, <1>3 DEF PlayRows
<1>5. SessionOK(e) /\ PlayServed(e, member, home)
  BY <1>1, <1>2, <1>4, NoRowsAreRows DEF SessionOK, PlayServed, Unrevoked
<1> QED
  BY <1>3, <1>5, PlaybackKeeps DEF PlaybackExpires

(* One output is written, with its handler, its file and what is left.     *)
LEMMA OutputKeeps ==
  ASSUME MediaInv, NEW o \in Outputs, NEW e, NEW j, OutputOK(e, j, member, home),
         output' = [output EXCEPT ![o] = e], job' = [job EXCEPT ![o] = j],
         file' \subseteq Outputs, orphaned' \subseteq Outputs, FileOK(e, j, o \in file', o \in orphaned'),
         \A q \in Outputs \ {o} : (q \in file' <=> q \in file) /\ (q \in orphaned => q \in orphaned'),
         UNCHANGED <<library, people>>
  PROVE  MediaInv'
<1>1. OutputsOfThose(output', job', member, home)
  BY DEF MediaInv, OutputsOfThose
<1>2. \A q \in Outputs : /\ output'[q] = IF q = o THEN e ELSE output[q]
                         /\ job'[q] = IF q = o THEN j ELSE job[q]
  BY DEF MediaInv, OutputsOfThose
<1>3. FilesOK(output', job', file', orphaned')
  BY <1>2 DEF MediaInv, FilesOK, FileOK
<1> QED
  BY <1>1, <1>3, MediaInvSplits DEF library, people

LEMMA StartTransformKeeps ==
  ASSUME MediaInv, NEW o \in Outputs, NEW kind \in {"file", "hls"}, NEW u \in Members, NEW i \in Homes,
         StartTransform(o, kind, u, i)
  PROVE  MediaInv'
<1>1. PICK e : e = [status |-> "pending", kind |-> kind, user |-> u, of |-> i] /\ output' = [output EXCEPT ![o] = e]
  BY DEF StartTransform
<1>2. e \in OutputRows /\ e.status = "pending" /\ e.user = u /\ e.of = i
  BY <1>1 DEF OutputRows
<1>3. OutputOK(e, "running", member, home)
  BY <1>2 DEF OutputOK, StartTransform, Serves
<1>4. file' \subseteq Outputs /\ orphaned' \subseteq Outputs /\ orphaned' = orphaned
      /\ \A q \in Outputs \ {o} : q \in file' <=> q \in file
  BY DEF StartTransform, MediaInv, FilesOK
<1>5. FileOK(e, "running", o \in file', o \in orphaned')
  BY <1>2 DEF FileOK
<1>6. job' = [job EXCEPT ![o] = "running"] /\ UNCHANGED <<library, people>>
  BY DEF StartTransform
<1> QED
  BY <1>1, <1>3, <1>4, <1>5, <1>6, OutputKeeps

LEMMA ToolWritesKeeps == ASSUME MediaInv, NEW o \in Outputs, ToolWrites(o) PROVE MediaInv'
<1>1. FilesOK(output', job', file', orphaned')
  BY DEF MediaInv, FilesOK, FileOK, ToolWrites
<1> QED
  BY <1>1, MediaInvSplits DEF ToolWrites, library, people

LEMMA SucceedKeeps == ASSUME MediaInv, NEW o \in Outputs, Succeed(o) PROVE MediaInv'
<1>1. OutputOK(output[o], "running", member, home)
  BY DEF MediaInv, OutputsOfThose, Succeed
<1>2. output[o] \in OutputRows
  BY <1>1, NoRowsAreRows DEF OutputOK
<1>3. PICK e : e = [output[o] EXCEPT !.status = "live"] /\ output' = [output EXCEPT ![o] = e]
  BY DEF Succeed
<1>4. e \in OutputRows /\ e.status = "live" /\ e.user = output[o].user /\ e.of = output[o].of
  BY <1>2, <1>3 DEF OutputRows
<1>5. OutputOK(e, "none", member, home)
  BY <1>1, <1>4 DEF OutputOK
<1>6. FileOK(e, "none", o \in file', o \in orphaned')
  BY <1>4 DEF FileOK, Succeed
<1>7. file' \subseteq Outputs /\ orphaned' \subseteq Outputs /\ file' = file /\ orphaned' = orphaned
  BY DEF Succeed, MediaInv, FilesOK
<1>8. job' = [job EXCEPT ![o] = "none"] /\ UNCHANGED <<library, people>>
  BY DEF Succeed
<1> QED
  BY <1>3, <1>5, <1>6, <1>7, <1>8, OutputKeeps

LEMMA FailTransformKeeps == ASSUME MediaInv, NEW o \in Outputs, FailTransform(o) PROVE MediaInv'
<1>1. OutputOK(NoOutput, "none", member, home)
  BY NoRowIsServed
<1>2. /\ file' \subseteq Outputs /\ orphaned' \subseteq Outputs /\ (o \in file' => o \in orphaned')
      /\ \A q \in Outputs \ {o} : (q \in file' <=> q \in file) /\ (q \in orphaned => q \in orphaned')
  BY DEF FailTransform, MediaInv, FilesOK
<1>3. FileOK(NoOutput, "none", o \in file', o \in orphaned')
  BY <1>2, NoRowsAreRows DEF FileOK
<1>4. output' = [output EXCEPT ![o] = NoOutput] /\ job' = [job EXCEPT ![o] = "none"] /\ UNCHANGED <<library, people>>
  BY DEF FailTransform
<1> QED
  BY <1>1, <1>2, <1>3, <1>4, OutputKeeps

LEMMA OutputExpiresKeeps == ASSUME MediaInv, NEW o \in Outputs, OutputExpires(o) PROVE MediaInv'
<1>1. OutputOK(output[o], job[o], member, home) /\ output[o].status = "live"
  BY DEF MediaInv, OutputsOfThose, OutputExpires
<1>2. output[o] \in OutputRows /\ job[o] = "none"
  BY <1>1, NoRowsAreRows DEF OutputOK
<1>3. PICK e : e = [output[o] EXCEPT !.status = "overdue"] /\ output' = [output EXCEPT ![o] = e]
  BY DEF OutputExpires
<1>4. e \in OutputRows /\ e.status = "overdue" /\ e.kind = output[o].kind /\ e.user = output[o].user /\ e.of = output[o].of
  BY <1>2, <1>3 DEF OutputRows
<1>5. OutputOK(e, "none", member, home)
  BY <1>1, <1>4 DEF OutputOK, Unrevoked
<1>6. FileOK(e, "none", o \in file', o \in orphaned')
  BY <1>4 DEF FileOK
<1>7. file' \subseteq Outputs /\ orphaned' \subseteq Outputs /\ file' = file /\ orphaned' = orphaned
  BY DEF OutputExpires, MediaInv, FilesOK
<1>8. job' = [job EXCEPT ![o] = "none"] /\ UNCHANGED <<library, people>>
  BY <1>2 DEF OutputExpires, MediaInv, OutputsOfThose
<1> QED
  BY <1>3, <1>5, <1>6, <1>7, <1>8, OutputKeeps

LEMMA CleanupKeeps == ASSUME MediaInv, NEW o \in Outputs, Cleanup(o) PROVE MediaInv'
<1>1. OutputOK(output[o], job[o], member, home) /\ output[o].status \in {"overdue", "revoked"} /\ job[o] = "none"
  BY DEF MediaInv, OutputsOfThose, Cleanup, Removable
<1>2. PICK e \in {NoOutput, output[o]} : output' = [output EXCEPT ![o] = e]
  BY DEF Cleanup, MediaInv, OutputsOfThose
<1>3. OutputOK(e, "none", member, home) /\ e.status \in {"none", "overdue", "revoked"}
  BY <1>1, <1>2, NoRowsAreRows, NoRowIsServed
<1>4. /\ file' \subseteq Outputs /\ orphaned' \subseteq Outputs /\ orphaned' = orphaned /\ o \notin file'
      /\ \A q \in Outputs \ {o} : q \in file' <=> q \in file
  BY DEF Cleanup, MediaInv, FilesOK
<1>5. FileOK(e, "none", o \in file', o \in orphaned')
  BY <1>3, <1>4 DEF FileOK
<1>6. job' = [job EXCEPT ![o] = "none"] /\ UNCHANGED <<library, people>>
  BY <1>1 DEF Cleanup, MediaInv, OutputsOfThose
<1> QED
  BY <1>2, <1>3, <1>4, <1>5, <1>6, OutputKeeps

LEMMA MediaCrashKeeps == ASSUME MediaInv, MediaCrash PROVE MediaInv'
<1>1. ASSUME NEW o \in Outputs
      PROVE  OutputOK(output'[o], job'[o], member, home) /\ FileOK(output'[o], job'[o], o \in file', o \in orphaned')
  <2>1. OutputOK(output[o], job[o], member, home) /\ FileOK(output[o], job[o], o \in file, o \in orphaned)
    BY DEF MediaInv, OutputsOfThose, FilesOK
  <2>2. job'[o] = "none" /\ file' = file /\ (job[o] # "none" \/ o \in orphaned => o \in orphaned')
    BY DEF MediaCrash
  <2>3. CASE output[o].status = "pending"
    <3>1. output'[o] = NoOutput /\ job[o] # "none"
      BY <2>1, <2>3 DEF MediaCrash, OutputOK
    <3> QED
      BY <2>2, <3>1, NoRowsAreRows, NoRowIsServed DEF FileOK
  <2>4. CASE output[o].status # "pending"
    <3>1. output'[o] = output[o] /\ job[o] = "none"
      BY <2>1, <2>4 DEF MediaCrash, OutputOK
    <3> QED
      BY <2>1, <2>2, <3>1 DEF FileOK
  <2> QED
    BY <2>3, <2>4
<1>2. output' = [o \in Outputs |-> output'[o]] /\ job' = [o \in Outputs |-> job'[o]]
      /\ file' \subseteq Outputs /\ orphaned' \subseteq Outputs
  BY DEF MediaCrash, MediaInv, FilesOK
<1>3. OutputsOfThose(output', job', member, home) /\ FilesOK(output', job', file', orphaned')
  BY <1>1, <1>2 DEF OutputsOfThose, FilesOK
<1> QED
  BY <1>3, MediaInvSplits DEF MediaCrash, library, people

(* What revocation leaves of a row. *)
LEMMA RevokedSession ==
  ASSUME NEW e, SessionOK(e), e.status \in Unrevoked
  PROVE  SessionOK([e EXCEPT !.status = "revoked"]) /\ [e EXCEPT !.status = "revoked"].status = "revoked"
<1>1. e \in PlayRows
  BY NoRowsAreRows DEF SessionOK, Unrevoked
<1>2. PICK n : n = [e EXCEPT !.status = "revoked"]
  OBVIOUS
<1>3. n \in PlayRows /\ n.got = e.got /\ n.completed = e.completed /\ n.item = e.item /\ n.status = "revoked"
  BY <1>1, <1>2 DEF PlayRows
<1> QED
  BY <1>1, <1>2, <1>3, NoRowsAreRows DEF SessionOK

LEMMA RevokedOutput ==
  ASSUME NEW e, NEW people_, NEW homes, NEW j, NEW people2, NEW homes2, OutputOK(e, j, people_, homes),
         e.status \in Unrevoked
  PROVE  j = "none" /\ OutputOK([e EXCEPT !.status = "revoked"], "none", people2, homes2)
         /\ [e EXCEPT !.status = "revoked"].status = "revoked"
<1>1. e \in OutputRows /\ j = "none"
  BY NoRowsAreRows DEF OutputOK, Unrevoked
<1>2. PICK n : n = [e EXCEPT !.status = "revoked"]
  OBVIOUS
<1>3. n \in OutputRows /\ n.status = "revoked"
  BY <1>1, <1>2 DEF OutputRows
<1> QED
  BY <1>1, <1>2, <1>3 DEF OutputOK, Unrevoked

(* Who is revoked, disabled or logs out loses what is served to him; what  *)
(* is left is served as before.                                            *)
LEMMA WithdrawKeeps ==
  ASSUME MediaInv, NEW users, NEW homes, WithdrawPlayback(users, homes),
         \A u \in Members, i \in Homes : u \in member /\ home[i] = "installed" /\ ~(u \in users /\ i \in homes)
                                         => u \in member' /\ home'[i] = "installed",
         \/ AbortJobs(users, homes)
         \/ job' = job /\ \A u \in Members, i \in Homes : u \in member /\ home[i] = "installed"
                                                         => u \in member' /\ home'[i] = "installed",
         RootsOK(root', edition'), PeopleOK(member', home'), file' = file, orphaned' = orphaned
  PROVE  MediaInv'
<1>1. ASSUME NEW p \in Playbacks PROVE SessionOK(playback'[p]) /\ PlayServed(playback'[p], member', home')
  <2>1. SessionOK(playback[p]) /\ PlayServed(playback[p], member, home) /\ DOMAIN playback = Playbacks
    BY DEF MediaInv, SessionsOfThose
  <2>2. CASE playback[p].status \in Unrevoked /\ playback[p].user \in users /\ playback[p].of \in homes
    <3>1. playback'[p] = [playback[p] EXCEPT !.status = "revoked"]
      BY <2>1, <2>2 DEF WithdrawPlayback, Withdrawn, Belonging, Unrevoked
    <3> QED
      BY <2>1, <2>2, <3>1, RevokedSession DEF PlayServed, Unrevoked
  <2>3. CASE ~(playback[p].status \in Unrevoked /\ playback[p].user \in users /\ playback[p].of \in homes)
    <3>1. playback'[p] = playback[p]
      BY <2>1, <2>3 DEF WithdrawPlayback, Withdrawn, Belonging, Unrevoked
    <3>2. playback[p].status \in Unrevoked => playback[p].user \in Members /\ playback[p].of \in Homes
      BY <2>1, NoRowsAreRows DEF SessionOK, PlayRows, Unrevoked
    <3> QED
      BY <2>1, <2>3, <3>1, <3>2 DEF PlayServed
  <2> QED
    BY <2>2, <2>3
<1>2. ASSUME NEW o \in Outputs
      PROVE  OutputOK(output'[o], job'[o], member', home') /\ FileOK(output'[o], job'[o], o \in file, o \in orphaned)
  <2>1. /\ OutputOK(output[o], job[o], member, home) /\ FileOK(output[o], job[o], o \in file, o \in orphaned)
        /\ DOMAIN output = Outputs
    BY DEF MediaInv, OutputsOfThose, FilesOK
  <2>2. CASE output[o].status \in Unrevoked /\ output[o].user \in users /\ output[o].of \in homes /\ output[o].kind = "hls"
    <3>1. output'[o] = [output[o] EXCEPT !.status = "revoked"]
      BY <2>1, <2>2 DEF WithdrawPlayback, Withdrawn, Belonging, Unrevoked
    <3>2. OutputOK(output'[o], "none", member', home') /\ output'[o].status = "revoked" /\ job[o] = "none"
      BY <2>1, <2>2, <3>1, RevokedOutput
    <3>3. job'[o] = job[o]
      BY <3>2 DEF AbortJobs
    <3> QED
      BY <3>2, <3>3 DEF FileOK
  <2>3. CASE ~(output[o].status \in Unrevoked /\ output[o].user \in users /\ output[o].of \in homes /\ output[o].kind = "hls")
    <3>1. output'[o] = output[o]
      BY <2>1, <2>3 DEF WithdrawPlayback, Withdrawn, Belonging, Unrevoked
    <3>2. output[o].status # "none" => output[o].user \in Members /\ output[o].of \in Homes
      BY <2>1, NoRowsAreRows DEF OutputOK, OutputRows
    <3>3. /\ job'[o] # "none" <=> job[o] # "none"
          /\ job'[o] \in {"none", "running", "aborted"}
          /\ job'[o] = "running" => job[o] = "running"
                                    /\ (job' = job \/ ~(output[o].user \in users /\ output[o].of \in homes))
      BY <2>1 DEF AbortJobs, Belonging, OutputOK
    <3>4. FileOK(output'[o], job'[o], o \in file, o \in orphaned)
      BY <2>1, <3>1, <3>3 DEF FileOK
    <3>5. job'[o] = "running" => output[o].user \in member' /\ home'[output[o].of] = "installed"
      <4> SUFFICES ASSUME job'[o] = "running"
                   PROVE  output[o].user \in member' /\ home'[output[o].of] = "installed"
        OBVIOUS
      <4>1. /\ output[o].user \in member /\ home[output[o].of] = "installed"
            /\ output[o].user \in Members /\ output[o].of \in Homes
        BY <2>1, <3>2, <3>3 DEF OutputOK
      <4>2. CASE AbortJobs(users, homes)
        <5>1. ~(output[o].user \in users /\ output[o].of \in homes)
          BY <2>1, <4>2 DEF AbortJobs, Belonging
        <5> QED
          BY <4>1, <5>1
      <4> QED
        BY <4>1, <4>2
    <3>6. output[o].kind = "hls" /\ output[o].status \in Unrevoked
            => output[o].user \in member' /\ home'[output[o].of] = "installed"
      BY <2>1, <2>3, <3>2 DEF OutputOK, Unrevoked
    <3>7. OutputOK(output'[o], job'[o], member', home')
      BY <2>1, <3>1, <3>3, <3>5, <3>6 DEF OutputOK
    <3> QED
      BY <3>4, <3>7
  <2> QED
    BY <2>2, <2>3
<1>3. /\ playback' = [p \in Playbacks |-> playback'[p]] /\ output' = [o \in Outputs |-> output'[o]]
      /\ job' = [o \in Outputs |-> job'[o]]
  BY DEF WithdrawPlayback, Withdrawn, AbortJobs, MediaInv, SessionsOfThose, OutputsOfThose
<1>4. SessionsOfThose(playback', member', home') /\ OutputsOfThose(output', job', member', home')
  BY <1>1, <1>2, <1>3 DEF SessionsOfThose, OutputsOfThose
<1>5. FilesOK(output', job', file', orphaned')
  BY <1>2 DEF FilesOK, MediaInv
<1> QED
  BY <1>4, <1>5, MediaInvSplits

LEMMA LogoutMemberKeeps == ASSUME MediaInv, NEW u \in Members, LogoutMember(u) PROVE MediaInv'
<1>1. /\ WithdrawPlayback({u}, Homes) /\ job' = job /\ member' = member /\ home' = home /\ root' = root
      /\ edition' = edition /\ file' = file /\ orphaned' = orphaned
  BY DEF LogoutMember, people
<1>2. RootsOK(root', edition') /\ PeopleOK(member', home')
  BY <1>1 DEF MediaInv
<1> QED
  BY <1>1, <1>2, WithdrawKeeps

LEMMA RevokeMemberKeeps == ASSUME MediaInv, NEW u \in Members, RevokeMember(u) PROVE MediaInv'
<1>1. /\ WithdrawPlayback({u}, Homes) /\ AbortJobs({u}, Homes) /\ member' = member \ {u} /\ home' = home
      /\ root' = root /\ edition' = edition /\ file' = file /\ orphaned' = orphaned
  BY DEF RevokeMember
<1>2. RootsOK(root', edition') /\ PeopleOK(member', home')
  BY <1>1 DEF MediaInv, PeopleOK
<1>3. \A w \in Members, i \in Homes : w \in member /\ home[i] = "installed" /\ ~(w \in {u} /\ i \in Homes)
                                      => w \in member' /\ home'[i] = "installed"
  BY <1>1
<1> QED
  BY <1>1, <1>2, <1>3, WithdrawKeeps

(* disablePlugin() and uninstallPlugin(), and an installation that serves  *)
(* nobody yet and is enabled.                                              *)
LEMMA HomeKeeps ==
  ASSUME MediaInv, NEW i \in Homes, NEW s \in {"disabled", "uninstalled"}, home' = [home EXCEPT ![i] = s],
         WithdrawPlayback(Members, {i}), AbortJobs(Members, {i}), RootsOK(root', edition'),
         member' = member, file' = file, orphaned' = orphaned
  PROVE  MediaInv'
<1>1. PeopleOK(member', home')
  BY DEF MediaInv, PeopleOK
<1>2. \A w \in Members, j \in Homes : w \in member /\ home[j] = "installed" /\ ~(w \in Members /\ j \in {i})
                                      => w \in member' /\ home'[j] = "installed"
  BY DEF MediaInv, PeopleOK
<1> QED
  BY <1>1, <1>2, WithdrawKeeps

LEMMA DisableHomeKeeps == ASSUME MediaInv, NEW i \in Homes, DisableHome(i) PROVE MediaInv'
<1>1. RootsOK(root', edition')
  BY DEF DisableHome, MediaInv
<1> QED
  BY <1>1, HomeKeeps DEF DisableHome

LEMMA UninstallHomeKeeps == ASSUME MediaInv, NEW i \in Homes, UninstallHome(i) PROVE MediaInv'
<1>1. ASSUME NEW r \in Roots
      PROVE  root'[r] \in [status : {"none", "live", "revoked"}, of : Homes \cup {None}]
  <2>1. root[r] \in [status : {"none", "live", "revoked"}, of : Homes \cup {None}] /\ DOMAIN root = Roots
    BY DEF MediaInv, RootsOK
  <2>2. root'[r] = root[r] \/ root'[r] = [root[r] EXCEPT !.status = "revoked"]
    BY <2>1 DEF UninstallHome, Withdrawn
  <2> QED
    BY <2>1, <2>2
<1>2. RootsOK(root', edition')
  BY <1>1 DEF UninstallHome, Withdrawn, MediaInv, RootsOK
<1> QED
  BY <1>2, HomeKeeps DEF UninstallHome

LEMMA EnableHomeKeeps == ASSUME MediaInv, NEW i \in Homes, EnableHome(i) PROVE MediaInv'
<1>1. /\ home' = [home EXCEPT ![i] = "installed"] /\ member' = member /\ root' = root /\ edition' = edition
      /\ playback' = playback /\ output' = output /\ job' = job /\ file' = file /\ orphaned' = orphaned
  BY DEF EnableHome, library, transforms
<1>2. PeopleOK(member', home') /\ \A j \in Homes : home[j] = "installed" => home'[j] = "installed"
  BY <1>1 DEF MediaInv, PeopleOK
<1>3. SessionsOfThose(playback', member', home')
  <2>1. ASSUME NEW p \in Playbacks PROVE PlayServed(playback[p], member, home')
    <3>1. SessionOK(playback[p]) /\ PlayServed(playback[p], member, home)
      BY DEF MediaInv, SessionsOfThose
    <3>2. playback[p].status \in Unrevoked => playback[p].of \in Homes
      BY <3>1, NoRowsAreRows DEF SessionOK, PlayRows, Unrevoked
    <3> QED
      BY <1>2, <3>1, <3>2 DEF PlayServed
  <2> QED
    BY <1>1, <2>1 DEF MediaInv, SessionsOfThose
<1>4. OutputsOfThose(output', job', member', home')
  <2>1. ASSUME NEW o \in Outputs PROVE OutputOK(output[o], job[o], member, home')
    <3>1. OutputOK(output[o], job[o], member, home)
      BY DEF MediaInv, OutputsOfThose
    <3>2. output[o].status # "none" => output[o].of \in Homes
      BY <3>1, NoRowsAreRows DEF OutputOK, OutputRows
    <3> QED
      BY <1>2, <3>1, <3>2 DEF OutputOK, Unrevoked
  <2> QED
    BY <1>1, <2>1 DEF MediaInv, OutputsOfThose
<1> QED
  BY <1>1, <1>2, <1>3, <1>4, MediaInvSplits

LEMMA MediaStepKeeps == MediaInv /\ [MediaNext]_media => MediaInv'
<1> SUFFICES ASSUME MediaInv, [MediaNext]_media PROVE MediaInv'
  OBVIOUS
<1>1. ASSUME NEW r \in Roots, NEW i \in Homes, AddRoot(r, i) PROVE MediaInv'
  <2>1. RootsOK(root', edition')
    BY <1>1 DEF AddRoot, MediaInv, RootsOK
  <2> QED
    BY <1>1, <2>1, RootStepKeeps DEF AddRoot
<1>2. ASSUME NEW r \in Roots, RevokeRoot(r) PROVE MediaInv'
  <2>1. RootsOK(root', edition')
    BY <1>2 DEF RevokeRoot, MediaInv, RootsOK
  <2> QED
    BY <1>2, <2>1, RootStepKeeps DEF RevokeRoot
<1>3. ASSUME NEW r \in Roots, NEW e \in Editions, FileChanges(r, e) PROVE MediaInv'
  <2>1. RootsOK(root', edition')
    BY <1>3 DEF FileChanges, MediaInv, RootsOK
  <2> QED
    BY <1>3, <2>1, RootStepKeeps DEF FileChanges
<1>4. ASSUME NEW u \in Members, NEW i \in Homes, MediaRequest(u, i) PROVE MediaInv'
  BY <1>4, CreatePlaybackKeeps, ReadItemKeeps DEF MediaRequest
<1>5. ASSUME NEW p \in Playbacks, PlaybackExpires(p) PROVE MediaInv'
  BY <1>5, PlaybackExpiresKeeps
<1>6. ASSUME NEW o \in Outputs, NEW kind \in {"file", "hls"}, NEW u \in Members, NEW i \in Homes,
             StartTransform(o, kind, u, i)
      PROVE  MediaInv'
  BY <1>6, StartTransformKeeps
<1>7. ASSUME NEW o \in Outputs, ToolWrites(o) \/ Succeed(o) \/ FailTransform(o) \/ OutputExpires(o) \/ Cleanup(o)
      PROVE  MediaInv'
  BY <1>7, ToolWritesKeeps, SucceedKeeps, FailTransformKeeps, OutputExpiresKeeps, CleanupKeeps
<1>8. ASSUME NEW u \in Members, LogoutMember(u) \/ RevokeMember(u) PROVE MediaInv'
  BY <1>8, LogoutMemberKeeps, RevokeMemberKeeps
<1>9. ASSUME NEW i \in Homes, DisableHome(i) \/ EnableHome(i) \/ UninstallHome(i) PROVE MediaInv'
  BY <1>9, DisableHomeKeeps, EnableHomeKeeps, UninstallHomeKeeps
<1>10. CASE MediaCrash
  BY <1>10, MediaCrashKeeps
<1>11. CASE UNCHANGED media
  BY <1>11, MediaInvSplits DEF media
<1> QED
  BY <1>1, <1>2, <1>3, <1>4, <1>5, <1>6, <1>7, <1>8, <1>9, <1>10, <1>11 DEF MediaNext

(* Playback ends with its user or its installation, a reader that comes to *)
(* the end has read one edition of the file, and rows and files of         *)
(* transforms account for each other, whatever is revoked and whenever     *)
(* Core ends (MediaLibraryService, MediaTransformService).                 *)
THEOREM MediaStaysSound == MediaSpec => []MediaSound
<1>1. MediaSpec => []MediaInv
  BY MediaInitEstablishes, MediaStepKeeps, PTL DEF MediaSpec
<1> QED
  BY <1>1, MediaInvHolds, PTL

------------------------------------------------------------------------------
(***************************************************************************)
(* Theorem about RemoteMedia: the map of sources follows the rows.  The    *)
(* strengthening: what the map holds has a live row unless the plugin was  *)
(* uninstalled, what was revoked is in neither, and playback tickets name  *)
(* items their source still has.                                           *)
(***************************************************************************)

PlayTickets == [source : Sources, item : Found, late : BOOLEAN]
SourceFetches == [kind : {"list", "health", "probe", "read"}, source : Sources]

(* A session names an item that its source still holds, and a request      *)
(* under way its source.                                                   *)
TicketsOK(tickets, items) ==
  /\ items \in [Found -> Sources \cup {None}]
  /\ tickets \in [Tickets -> PlayTickets \cup {NoTicket}]
  /\ \A t \in Tickets : tickets[t] # NoTicket => items[tickets[t].item] = tickets[t].source

(* The map against the rows. *)
MapOK(status, map, gone, where) ==
  /\ status \in [Sources -> {"none", "live", "revoked"}]
  /\ map \subseteq Sources /\ gone \subseteq Sources
  /\ \A h \in map : status[h] = "live" \/ where = "uninstalled"
  /\ \A h \in gone : h \notin map /\ status[h] = "revoked"

RemoteInv ==
  /\ MapOK(sourceRow, held, withdrawn, place)
  /\ TicketsOK(ticket, item)
  /\ fetch \in [Fetches -> SourceFetches \cup {NoFetch}]
  /\ secret \in BOOLEAN /\ place \in {"installed", "disabled", "uninstalled"}

LEMMA NoTicketIsNone == NoTicket \notin PlayTickets /\ NoFetch \notin SourceFetches
<1>1. NoTicket.source = None /\ NoFetch.source = None
  BY DEF NoTicket, NoFetch
<1> QED
  BY <1>1, RemoteAssumption DEF PlayTickets, SourceFetches

LEMMA RemoteInvHolds == RemoteInv => SourcesFollowRows
<1> SUFFICES ASSUME RemoteInv PROVE SourcesFollowRows
  OBVIOUS
<1>1. ticket \in [Tickets -> [source : Sources \cup {None}, item : Found \cup {None}, late : BOOLEAN]]
  <2> DEFINE Rows == [source : Sources \cup {None}, item : Found \cup {None}, late : BOOLEAN]
  <2>1. NoTicket \in Rows /\ PlayTickets \subseteq Rows
    BY DEF NoTicket, PlayTickets
  <2> HIDE DEF Rows
  <2>2. ticket \in [Tickets -> Rows]
    BY <2>1 DEF RemoteInv, TicketsOK
  <2> QED
    BY <2>2 DEF Rows
<1>2. fetch \in [Fetches -> [kind : {"none", "list", "health", "probe", "read"}, source : Sources \cup {None}]]
  BY DEF RemoteInv, SourceFetches, NoFetch
<1> QED
  BY <1>1, <1>2 DEF RemoteInv, MapOK, TicketsOK, RemoteTypeOK, SourcesFollowRows

LEMMA RemoteInitEstablishes == RemoteInit => RemoteInv
BY DEF RemoteInit, RemoteInv, MapOK, TicketsOK

(* The routes of administrators and what becomes of the installation. *)
LEMMA RegisterSourceKeeps == ASSUME RemoteInv, NEW h \in Sources, RegisterSource(h) PROVE RemoteInv'
<1>1. MapOK(sourceRow', held', withdrawn', place')
  BY DEF RemoteInv, MapOK, RegisterSource, Register
<1> QED
  BY <1>1 DEF RemoteInv, RegisterSource, inMemory, TicketsOK, MapOK

LEMMA RevokeSourceKeeps == ASSUME RemoteInv, NEW h \in Sources, RevokeSource(h) PROVE RemoteInv'
<1>1. MapOK(sourceRow', held', withdrawn', place')
  BY DEF RemoteInv, MapOK, RevokeSource, Unregister
<1> QED
  BY <1>1 DEF RemoteInv, RevokeSource, inMemory, TicketsOK, MapOK

LEMMA PlaceKeeps == ASSUME RemoteInv, DisablePlace \/ EnablePlace \/ UninstallPlace PROVE RemoteInv'
<1>1. MapOK(sourceRow', held', withdrawn', place')
  BY DEF RemoteInv, MapOK, DisablePlace, EnablePlace, UninstallPlace
<1> QED
  BY <1>1 DEF RemoteInv, DisablePlace, EnablePlace, UninstallPlace, inMemory, TicketsOK, MapOK

(* A request that starts names a source. *)
LEMMA AskKeeps ==
  ASSUME RemoteInv, NEW f \in Fetches, NEW kind \in {"list", "health", "probe", "read"}, NEW h, Ask(f, kind, h),
         UNCHANGED <<sourceRow, held, inMemory, secret, place, withdrawn>>
  PROVE  RemoteInv'
<1>1. h \in Sources
  BY DEF RemoteInv, MapOK, Ask
<1>2. fetch' \in [Fetches -> SourceFetches \cup {NoFetch}]
  BY <1>1 DEF RemoteInv, Ask, SourceFetches
<1> QED
  BY <1>2 DEF RemoteInv, inMemory, TicketsOK, MapOK

LEMMA CreateTicketKeeps ==
  ASSUME RemoteInv, NEW t \in Tickets, NEW x \in Found, CreateTicket(t, x)
  PROVE  RemoteInv'
<1>1. PICK n : n = [source |-> item[x], item |-> x, late |-> FALSE] /\ ticket' = [ticket EXCEPT ![t] = n]
  BY DEF CreateTicket
<1>2. item[x] \in Sources /\ item' = item
  BY DEF RemoteInv, TicketsOK, CreateTicket
<1>3. n \in PlayTickets /\ item[n.item] = n.source
  BY <1>1, <1>2 DEF PlayTickets
<1>4. TicketsOK(ticket', item')
  BY <1>1, <1>2, <1>3 DEF RemoteInv, TicketsOK
<1> QED
  BY <1>4 DEF RemoteInv, CreateTicket, MapOK, TicketsOK

LEMMA TicketExpiresKeeps == ASSUME RemoteInv, NEW t \in Tickets, TicketExpires(t) PROVE RemoteInv'
<1>1. PICK n : n = [ticket[t] EXCEPT !.late = TRUE] /\ ticket' = [ticket EXCEPT ![t] = n]
  BY DEF TicketExpires
<1>2. ticket[t] \in PlayTickets /\ item[ticket[t].item] = ticket[t].source /\ item' = item
  BY DEF RemoteInv, TicketsOK, TicketExpires
<1>3. n \in PlayTickets /\ n.item = ticket[t].item /\ n.source = ticket[t].source
  BY <1>1, <1>2 DEF PlayTickets
<1>4. TicketsOK(ticket', item')
  BY <1>1, <1>2, <1>3 DEF RemoteInv, TicketsOK
<1> QED
  BY <1>4 DEF RemoteInv, TicketExpires, MapOK, TicketsOK

(* An answer gives sources only to items that no session names yet. *)
LEMMA AnsweredKeeps ==
  ASSUME RemoteInv, NEW f \in Fetches, NEW exposed \in SUBSET Found, Answered(f, exposed)
  PROVE  RemoteInv'
<1>1. fetch[f].source \in Sources
  BY DEF RemoteInv, Answered, SourceFetches
<1>2. item' \in [Found -> Sources \cup {None}] /\ ticket' = ticket
  BY <1>1 DEF RemoteInv, TicketsOK, Answered, Expose
<1>3. \A x \in Found : item[x] # None => item'[x] = item[x]
  BY DEF Answered, Expose
<1>4. \A t \in Tickets : ticket[t] # NoTicket => ticket[t].item \in Found /\ ticket[t].source \in Sources
  BY DEF RemoteInv, TicketsOK, PlayTickets
<1>5. TicketsOK(ticket', item')
  BY <1>2, <1>3, <1>4, RemoteAssumption DEF RemoteInv, TicketsOK
<1>6. fetch' \in [Fetches -> SourceFetches \cup {NoFetch}]
  BY DEF RemoteInv, Answered
<1> QED
  BY <1>5, <1>6 DEF RemoteInv, Answered, MapOK, TicketsOK

LEMMA RestartKeeps == ASSUME RemoteInv, Restart PROVE RemoteInv'
<1>1. MapOK(sourceRow', held', withdrawn', place')
  BY DEF RemoteInv, MapOK, Restart, Restore
<1>2. TicketsOK(ticket', item')
  BY DEF RemoteInv, Restart, TicketsOK
<1> QED
  BY <1>1, <1>2 DEF RemoteInv, Restart, MapOK, TicketsOK

LEMMA RemoteStepKeeps == RemoteInv /\ [RemoteNext]_remote => RemoteInv'
<1> SUFFICES ASSUME RemoteInv, [RemoteNext]_remote PROVE RemoteInv'
  OBVIOUS
<1>1. ASSUME NEW h \in Sources, RegisterSource(h) PROVE RemoteInv'
  BY <1>1, RegisterSourceKeeps
<1>2. ASSUME NEW h \in Sources, RevokeSource(h) PROVE RemoteInv'
  BY <1>2, RevokeSourceKeeps
<1>3. ASSUME NEW f \in Fetches, SourceRequest(f) PROVE RemoteInv'
  <2>1. ASSUME NEW h \in Sources, List(f, h) PROVE RemoteInv'
    BY <2>1, AskKeeps DEF List
  <2>2. ASSUME NEW x \in Found, Probe(f, x) PROVE RemoteInv'
    BY <2>2, AskKeeps DEF Probe
  <2>3. ASSUME NEW t \in Tickets, NEW x \in Found, CreateTicket(t, x) PROVE RemoteInv'
    BY <2>3, CreateTicketKeeps
  <2>4. ASSUME NEW t \in Tickets, ReadTicket(f, t) PROVE RemoteInv'
    BY <2>4, AskKeeps DEF ReadTicket
  <2> QED
    BY <1>3, <2>1, <2>2, <2>3, <2>4 DEF SourceRequest
<1>4. ASSUME NEW f \in Fetches, NEW h \in Sources, Health(f, h) PROVE RemoteInv'
  BY <1>4, AskKeeps DEF Health
<1>5. ASSUME NEW t \in Tickets, TicketExpires(t) PROVE RemoteInv'
  BY <1>5, TicketExpiresKeeps
<1>6. ASSUME NEW f \in Fetches, NEW exposed \in SUBSET Found, Answered(f, exposed) PROVE RemoteInv'
  BY <1>6, AnsweredKeeps
<1>7. CASE DisablePlace \/ EnablePlace \/ UninstallPlace
  BY <1>7, PlaceKeeps
<1>8. CASE Restart
  BY <1>8, RestartKeeps
<1>9. CASE UNCHANGED remote
  BY <1>9 DEF remote, inMemory, RemoteInv, MapOK, TicketsOK
<1> QED
  BY <1>1, <1>2, <1>3, <1>4, <1>5, <1>6, <1>7, <1>8, <1>9 DEF RemoteNext

(* The map of sources is what the rows say as long as anybody can ask, an  *)
(* answered revocation outlives every restart, and playback sessions name  *)
(* items of their source (RemoteWebDavProvider).                           *)
THEOREM SourcesAlwaysFollowRows == RemoteSpec => []SourcesFollowRows
<1>1. RemoteSpec => []RemoteInv
  BY RemoteInitEstablishes, RemoteStepKeeps, PTL DEF RemoteSpec
<1> QED
  BY <1>1, RemoteInvHolds, PTL

------------------------------------------------------------------------------
(***************************************************************************)
(* Theorem about PlatformRecords, an action property: what a step may do   *)
(* to the row of another scope or user.  The strengthening it needs is     *)
(* small: only notifications are ever read.                                *)
(***************************************************************************)

RecordRows == [kind : Kinds \cup {"none", "gone"}, user : Owners \cup {None}, of : Makers \cup {None},
               category : Categories \cup {None}, read : BOOLEAN]

(* Only notifications are ever read. *)
RecordsInv ==
  /\ RecordsTypeOK
  /\ \A x \in Ids : entry[x].read => entry[x].kind = "notification"

LEMMA RecordsInitEstablishes == RecordsInit => RecordsInv
BY DEF RecordsInit, RecordsInv, RecordsTypeOK, NoEntry

(* What a step may do to the row e when u acts, for a plugin or by a route. *)
Kept(e, n, a) ==
  n # e /\ e # NoEntry =>
    /\ e.kind # "gone"
    /\ a.user = e.user /\ a.of \in {None, e.of}
    /\ n.read \/ ~e.read \/ n.kind = "gone"

RowOK(e) == e \in RecordRows /\ (e.read => e.kind = "notification")

LEMMA RecordsPointwise ==
  /\ RecordsInv <=> /\ entry = [x \in Ids |-> entry[x]] /\ actor \in [user : Owners \cup {None}, of : Makers \cup {None}]
                    /\ \A x \in Ids : RowOK(entry[x])
  /\ RecordsInv' <=> /\ entry' = [x \in Ids |-> entry'[x]] /\ actor' \in [user : Owners \cup {None}, of : Makers \cup {None}]
                     /\ \A x \in Ids : RowOK(entry'[x])
BY DEF RecordsInv, RecordsTypeOK, RowOK, RecordRows

LEMMA NewRow ==
  ASSUME NEW kind \in Kinds, NEW u \in Owners, NEW i \in Makers, NEW c \in Categories
  PROVE  RowOK(Row(kind, u, i, c))
BY DEF RowOK, RecordRows, Row, Kinds

LEMMA GoneRow == /\ RowOK([NoEntry EXCEPT !.kind = "gone"]) /\ [NoEntry EXCEPT !.kind = "gone"].kind = "gone"
                 /\ [NoEntry EXCEPT !.kind = "gone"].read = FALSE
BY DEF RowOK, RecordRows, NoEntry

(* One row is written, by a scope. *)
LEMMA WritesOne ==
  ASSUME RecordsInv, NEW x \in Ids, NEW n, RowOK(n), entry' = [entry EXCEPT ![x] = n],
         actor' \in [user : Owners \cup {None}, of : Makers \cup {None}],
         x \in Chosen \/ Kept(entry[x], n, actor')
  PROVE  RecordsInv' /\ \A y \in Ids \ Chosen : Kept(entry[y], entry'[y], actor')
<1>1. \A y \in Ids : entry'[y] = IF y = x THEN n ELSE entry[y]
  BY RecordsPointwise
<1>2. RecordsInv'
  BY <1>1, RecordsPointwise
<1> QED
  BY <1>1, <1>2 DEF Kept

(* Rows are deleted, each of its own scope or user. *)
LEMMA Deletes ==
  ASSUME RecordsInv, NEW xs, Deleted(xs), NEW u \in Owners, NEW i \in Makers \cup {None}, By(u, i),
         \A x \in xs \cap Ids : entry[x].kind \in Kinds /\ entry[x].user = u /\ i \in {None, entry[x].of}
  PROVE  RecordsInv' /\ \A y \in Ids \ Chosen : Kept(entry[y], entry'[y], actor')
<1>1. PICK n : n = [NoEntry EXCEPT !.kind = "gone"] /\ n.kind = "gone" /\ RowOK(n)
  BY GoneRow
<1>2. entry' = [y \in Ids |-> IF y \in xs THEN n ELSE entry[y]]
  BY <1>1 DEF Deleted
<1>3. actor'.user = u /\ actor'.of = i /\ actor' \in [user : Owners \cup {None}, of : Makers \cup {None}]
  BY DEF By
<1>4. RecordsInv'
  BY <1>1, <1>2, <1>3, RecordsPointwise
<1>5. ASSUME NEW y \in Ids \ Chosen PROVE Kept(entry[y], entry'[y], actor')
  BY <1>1, <1>2, <1>3 DEF Kept, Kinds
<1> QED
  BY <1>4, <1>5

(* Notifications are marked, each of its own scope or user. *)
LEMMA Marks ==
  ASSUME RecordsInv, NEW xs, Marked(xs), NEW u \in Owners, NEW i \in Makers \cup {None}, By(u, i),
         \A x \in xs \cap Ids : entry[x].kind = "notification" /\ entry[x].user = u /\ i \in {None, entry[x].of}
  PROVE  RecordsInv' /\ \A y \in Ids \ Chosen : Kept(entry[y], entry'[y], actor')
<1>1. actor'.user = u /\ actor'.of = i /\ actor' \in [user : Owners \cup {None}, of : Makers \cup {None}]
  BY DEF By
<1>2. ASSUME NEW y \in Ids PROVE RowOK(entry'[y]) /\ Kept(entry[y], entry'[y], actor')
  <2>1. CASE y \in xs
    <3>1. PICK n : n = [entry[y] EXCEPT !.read = TRUE] /\ entry'[y] = n
      BY <2>1 DEF Marked
    <3>2. entry[y] \in RecordRows
      BY RecordsPointwise DEF RowOK
    <3>3. n \in RecordRows /\ n.read /\ n.kind = entry[y].kind
      BY <3>1, <3>2 DEF RecordRows
    <3> QED
      BY <1>1, <2>1, <3>1, <3>3 DEF RowOK, Kept
  <2>2. CASE y \notin xs
    <3>1. entry'[y] = entry[y]
      BY <2>2 DEF Marked
    <3> QED
      BY <3>1, RecordsPointwise DEF Kept
  <2> QED
    BY <2>1, <2>2
<1>3. entry' = [y \in Ids |-> entry'[y]]
  BY DEF Marked
<1> QED
  BY <1>1, <1>2, <1>3, RecordsPointwise

(* Every operation keeps the rows of others. *)
LEMMA RecordsStep ==
  ASSUME RecordsInv, RecordsNext
  PROVE  RecordsInv' /\ \A y \in Ids \ Chosen : Kept(entry[y], entry'[y], actor')
<1> DEFINE Goal == RecordsInv' /\ \A y \in Ids \ Chosen : Kept(entry[y], entry'[y], actor')
<1>0. PICK u \in Owners : \/ \E i \in Makers : HistoryRequest(u, i)
                          \/ \E i \in Makers : CatalogRequest(u, i)
                          \/ \E i \in Makers : NotificationRequest(u, i)
                          \/ HistoryRoute(u)
                          \/ NotificationRoute(u)
  BY DEF RecordsNext
<1> HIDE DEF Goal
<1>1. ASSUME NEW i \in Makers, NEW kind \in {"history", "notification"}, NEW x \in Ids, NEW c \in Categories,
             Insert(x, kind, u, i, c)
      PROVE  Goal
  <2>1. entry[x] = NoEntry /\ entry' = [entry EXCEPT ![x] = Row(kind, u, i, c)]
        /\ actor' \in [user : Owners \cup {None}, of : Makers \cup {None}]
    BY <1>1 DEF Insert, By
  <2>2. Kept(entry[x], Row(kind, u, i, c), actor')
    BY <2>1 DEF Kept
  <2>3. RowOK(Row(kind, u, i, c))
    BY <1>1, NewRow DEF Kinds
  <2> QED
    BY <2>1, <2>2, <2>3, WritesOne DEF Goal
<1>2. ASSUME NEW i \in Makers, NEW x \in Ids, NEW c \in Categories, RegisterEntry(x, u, i, c)
      PROVE  Goal
  <2>1. PICK n : n = Row("catalog", u, i, c) /\ entry' = [entry EXCEPT ![x] = n]
    BY <1>2 DEF RegisterEntry
  <2>2. actor'.user = u /\ actor'.of = i /\ actor' \in [user : Owners \cup {None}, of : Makers \cup {None}]
    BY <1>2 DEF RegisterEntry, By
  <2>3. RowOK(n)
    BY <2>1, NewRow DEF Kinds
  <2>4. entry[x] = NoEntry \/ InScope(x, "catalog", u, i) \/ x \in Chosen
    BY <1>2 DEF RegisterEntry
  <2>5. x \in Chosen \/ Kept(entry[x], n, actor')
    <3>1. CASE InScope(x, "catalog", u, i)
      BY <2>2, <3>1, RecordsPointwise DEF InScope, Within, Kept, RowOK
    <3> QED
      BY <2>4, <3>1 DEF Kept
  <2> QED
    BY <2>1, <2>2, <2>3, <2>5, WritesOne DEF Goal
<1>3. ASSUME NEW i \in Makers, NEW which, ClearHistory(u, i, which) PROVE Goal
  BY <1>3, Deletes DEF ClearHistory, InScope, Within, Kinds, Goal
<1>4. ASSUME NEW i \in Makers, NEW x \in Ids, RemoveEntry(u, i, x) PROVE Goal
  BY <1>4, Deletes DEF RemoveEntry, InScope, Within, Kinds, Goal
<1>5. ASSUME NEW i \in Makers, NEW xs, Mark(u, i, xs) PROVE Goal
  BY <1>5, Marks DEF Mark, InScope, Within, Goal
<1>6. ASSUME NEW of, NEW which, ClearUser(u, which, of) PROVE Goal
  BY <1>6, Deletes DEF ClearUser, Within, Kinds, Goal
<1>7. ASSUME NEW xs, MarkUser(u, xs) PROVE Goal
  BY <1>7, Marks DEF MarkUser, Within, Goal
<1>8. Goal
  BY <1>0, <1>1, <1>2, <1>3, <1>4, <1>5, <1>6, <1>7 DEF HistoryRequest, CatalogRequest, NotificationRequest,
     HistoryRoute, NotificationRoute
<1> QED
  BY <1>8 DEF Goal

LEMMA RecordsStepKeeps == RecordsInv /\ [RecordsNext]_records => RecordsInv'
<1>1. RecordsInv /\ UNCHANGED records => RecordsInv'
  BY DEF records, RecordsInv, RecordsTypeOK
<1> QED
  BY <1>1, RecordsStep

(* A row of a history, a catalog or of notifications changes by its own    *)
(* scope or its own user only, does not return once deleted and is not     *)
(* unread again, unless a plugin chose its identifier (HistoryService,     *)
(* CatalogService, NotificationService).                                   *)
THEOREM RecordsAreKept == RecordsSpec => RecordsKept
<1>1. RecordsSpec => []RecordsInv
  BY RecordsInitEstablishes, RecordsStepKeeps, PTL DEF RecordsSpec
<1>2. RecordsInv /\ [RecordsNext]_records =>
        [\A x \in Ids \ Chosen : entry'[x] # entry[x] /\ entry[x] # NoEntry =>
           /\ entry[x].kind # "gone"
           /\ actor'.user = entry[x].user /\ actor'.of \in {None, entry[x].of}
           /\ entry'[x].read \/ ~entry[x].read \/ entry'[x].kind = "gone"]_records
  BY RecordsStep DEF Kept
<1> QED
  BY <1>1, <1>2, PTL DEF RecordsSpec, RecordsKept

------------------------------------------------------------------------------
(***************************************************************************)
(* Theorem about PluginData: with Core's SQLite adapter, which has one     *)
(* connection and lets no operation overlap another, statements inside     *)
(* transactions implement the store of DataStore, whose batches and        *)
(* deletions are single steps.  The strengthening: one operation runs at a *)
(* time and owns the open transaction; what a batch has written are        *)
(* exactly its migrations so far, each new or under its old name; what a   *)
(* deletion has written are exactly its parts so far.                      *)
(***************************************************************************)

(* Core's SQLite adapter: one connection, and no operation overlaps another.    *)
Only == CHOOSE c : c \in Connections

SqliteAdapter == ~Overlapping /\ Connections = {Only}

Stored == Values \cup Names \cup {None}

Running == [kind : {"batch", "delete"}, scope : Scopes, inputs : Batches \cup {<<>>}, next : Nat]

(* The names a batch gives, and the cell of its n-th migration. *)
CellOf(x, n) == <<x.scope, x.inputs[n].version>>

(* What a transaction that has written p sees over the committed rows r.        *)
Seen(p, r, cell) == IF cell \in DOMAIN p THEN p[cell] ELSE r[cell]

(* The migrations done so far are seen with their names, each of them was new   *)
(* or had that name, and they are all that the transaction has written.         *)
BatchOK(x, p, r) ==
  x.kind = "batch" /\ x.next > 0 =>
    /\ x.inputs \in Batches /\ x.next <= Len(x.inputs) + 1
    /\ \A n \in 1 .. x.next - 1 : /\ Seen(p, r, CellOf(x, n)) = x.inputs[n].name
                                  /\ r[CellOf(x, n)] \in {None, x.inputs[n].name}
    /\ \A cell \in DOMAIN p : \E n \in 1 .. x.next - 1 : cell = CellOf(x, n)

(* The parts deleted so far, of nothing but the scope. *)
DeleteOK(x, p) ==
  x.kind = "delete" /\ x.next > 0 =>
    /\ x.next \in 1 .. 3
    /\ x.next = 1 => DOMAIN p = {}
    /\ x.next = 2 => DOMAIN p = {x.scope} \X Keys
    /\ x.next = 3 => DOMAIN p = {x.scope} \X (Keys \cup MigrationVersions)
    /\ \A cell \in DOMAIN p : p[cell] = None

WritesOK(p) == DOMAIN p \subseteq Cells /\ \A cell \in DOMAIN p : p[cell] \in Stored

OperationOK(x) == x # NoOperation => x \in Running /\ open = {Only}
                                     /\ BatchOK(x, pending[Only], rows) /\ DeleteOK(x, pending[Only])

DataInv ==
  /\ rows \in [Cells -> Stored]
  /\ DOMAIN pending = Connections /\ WritesOK(pending[Only])
  /\ DOMAIN operation = Operations
  /\ \A o, q \in Operations : operation[o] # NoOperation /\ operation[q] # NoOperation => o = q
  /\ (\A o \in Operations : operation[o] = NoOperation) => open = {} /\ DOMAIN pending[Only] = {}
  /\ \A o \in Operations : OperationOK(operation[o])

Migrations == [version : MigrationVersions, name : Names]

LEMMA BatchParts ==
  ASSUME NEW b \in Batches
  PROVE  /\ Len(b) \in Nat /\ DOMAIN b = 1 .. Len(b)
         /\ \A n \in 1 .. Len(b) : b[n].version \in MigrationVersions /\ b[n].name \in Names /\ b[n].name # None
<1>1. b \in Seq(Migrations)
  BY PluginDataAssumption DEF Migrations
<1>2. Len(b) \in Nat /\ DOMAIN b = 1 .. Len(b) /\ \A n \in 1 .. Len(b) : b[n] \in Migrations
  BY <1>1
<1>3. \A m \in Migrations : m.version \in MigrationVersions /\ m.name \in Names /\ m.name # None
  BY PluginDataAssumption DEF Migrations
<1> QED
  BY <1>2, <1>3

LEMMA DataInitEstablishes ==
  ASSUME SqliteAdapter
  PROVE  PluginDataInit => DataInv
BY DEF SqliteAdapter, PluginDataInit, DataInv, WritesOK, OperationOK, NoRows, Stored

(* One map written over another. *)
LEMMA WrittenOver ==
  ASSUME NEW f, NEW g
  PROVE  /\ DOMAIN Over(f, g) = DOMAIN f \cup DOMAIN g
         /\ \A x \in DOMAIN f \cup DOMAIN g : Over(f, g)[x] = IF x \in DOMAIN f THEN f[x] ELSE g[x]
         /\ Over(f, g) = [x \in DOMAIN f \cup DOMAIN g |-> IF x \in DOMAIN f THEN f[x] ELSE g[x]]
BY DEF Over

(* A transaction sees a row in every cell. *)
LEMMA ViewIsSeen ==
  ASSUME DataInv
  PROVE  /\ View(Only) \in [Cells -> Stored]
         /\ \A cell \in Cells : View(Only)[cell] = Seen(pending[Only], rows, cell)
<1>1. DOMAIN pending[Only] \cup DOMAIN rows = Cells
  BY DEF DataInv, WritesOK
<1>2. View(Only) = [x \in Cells |-> Seen(pending[Only], rows, x)]
  <2>1. PICK p : p = pending[Only]
    OBVIOUS
  <2>2. Over(p, rows) = [x \in DOMAIN p \cup DOMAIN rows |-> IF x \in DOMAIN p THEN p[x] ELSE rows[x]]
    BY DEF Over
  <2>3. Over(p, rows) = [x \in Cells |-> IF x \in DOMAIN p THEN p[x] ELSE rows[x]]
    BY <1>1, <2>1, <2>2
  <2> QED
    BY <2>1, <2>3 DEF View, Seen
<1>3. \A x \in Cells : Seen(pending[Only], rows, x) \in Stored
  BY DEF DataInv, WritesOK, Seen
<1> QED
  BY <1>2, <1>3

(* With no operation, a statement writes the rows. *)
LEMMA FreeMeans ==
  ASSUME DataInv
  PROVE  \A o \in Operations : Free(o) <=> operation[o] = NoOperation
BY DEF DataInv, OperationOK, Running, Free, NoOperation

LEMMA QuietMeans ==
  ASSUME SqliteAdapter, DataInv, Quiet
  PROVE  /\ \A o \in Operations : operation[o] = NoOperation
         /\ open = {} /\ DOMAIN pending[Only] = {}
BY FreeMeans DEF SqliteAdapter, Quiet, DataInv

LEMMA PutKeeps ==
  ASSUME SqliteAdapter, DataInv, NEW s \in Scopes, NEW k \in Keys, NEW c \in Connections, NEW value \in Values \cup {None},
         Put(s, k, c, value)
  PROVE  DataInv' /\ \A cell \in Cells \ {<<s, k>>} : rows'[cell] = rows[cell]
<1>1. /\ open = {} /\ \A o \in Operations : operation[o] = NoOperation
      /\ DOMAIN pending[Only] = {}
  BY QuietMeans DEF Put
<1>2. rows' = Over([cell \in {<<s, k>>} |-> value], rows) /\ UNCHANGED <<pending, open, operation>>
  BY <1>1 DEF Put, Execute
<1>3. PICK f : f = [cell \in {<<s, k>>} |-> value]
  OBVIOUS
<1>4. <<s, k>> \in Cells /\ value \in Stored /\ rows \in [Cells -> Stored]
  BY DEF Cells, Stored, DataInv
<1>5. rows' = [x \in Cells |-> IF x = <<s, k>> THEN value ELSE rows[x]]
  <2>1. DOMAIN f \cup DOMAIN rows = Cells /\ DOMAIN f = {<<s, k>>} /\ f[<<s, k>>] = value
    BY <1>3, <1>4
  <2>2. rows' = Over(f, rows)
    BY <1>2, <1>3
  <2>3. Over(f, rows) = [x \in DOMAIN f \cup DOMAIN rows |-> IF x \in DOMAIN f THEN f[x] ELSE rows[x]]
    BY WrittenOver
  <2>4. rows' = [x \in Cells |-> IF x \in DOMAIN f THEN f[x] ELSE rows[x]]
    BY <2>1, <2>2, <2>3
  <2> QED
    BY <2>1, <2>4
<1>6. rows' \in [Cells -> Stored] /\ \A cell \in Cells \ {<<s, k>>} : rows'[cell] = rows[cell]
  BY <1>4, <1>5
<1>7. DataInv'
  BY <1>1, <1>2, <1>6 DEF DataInv, OperationOK, WritesOK
<1> QED
  BY <1>6, <1>7

LEMMA StartedKeeps ==
  ASSUME SqliteAdapter, DataInv, NEW o \in Operations, NEW s \in Scopes, NEW c \in Connections,
         NEW kind \in {"batch", "delete"}, NEW inputs \in Batches \cup {<<>>}, kind = "batch" => inputs \in Batches,
         Started(o, s, kind, inputs), open' = open \cup {c}, UNCHANGED <<rows, pending>>
  PROVE  DataInv'
<1>1. /\ open = {} /\ \A q \in Operations : operation[q] = NoOperation
      /\ DOMAIN pending[Only] = {}
  BY QuietMeans DEF Started
<1>2. open' = {Only}
  BY <1>1 DEF SqliteAdapter
<1>3. PICK x : x = [kind |-> kind, scope |-> s, inputs |-> inputs, next |-> 1]
               /\ operation' = [operation EXCEPT ![o] = x]
  BY DEF Started
<1>4. x \in Running /\ x.next = 1 /\ x.kind = kind /\ x.inputs = inputs
  BY <1>3 DEF Running
<1>5. \A q \in Operations : operation'[q] = IF q = o THEN x ELSE NoOperation
  BY <1>1, <1>3 DEF DataInv
<1>6. x # NoOperation
  BY <1>4 DEF NoOperation
<1>7. BatchOK(x, pending[Only], rows)
  <2> SUFFICES ASSUME kind = "batch" PROVE BatchOK(x, pending[Only], rows)
    BY <1>4 DEF BatchOK
  <2>1. inputs \in Batches /\ Len(inputs) \in Nat
    BY PluginDataAssumption
  <2>2. 1 .. x.next - 1 = {}
    BY <1>4
  <2> QED
    BY <1>1, <1>4, <2>1, <2>2 DEF BatchOK
<1>8. DeleteOK(x, pending[Only])
  BY <1>1, <1>4 DEF DeleteOK
<1>9. rows' \in [Cells -> Stored] /\ DOMAIN pending' = Connections /\ WritesOK(pending[Only])'
  BY DEF DataInv
<1>10. DOMAIN operation' = Operations
  BY <1>3 DEF DataInv
<1>11. \A q \in Operations : OperationOK(operation[q])'
  <2> SUFFICES ASSUME NEW q \in Operations PROVE OperationOK(operation[q])'
    OBVIOUS
  <2>1. CASE q = o
    BY <1>2, <1>4, <1>5, <1>7, <1>8, <2>1 DEF OperationOK
  <2>2. CASE q # o
    BY <1>5, <2>2 DEF OperationOK
  <2> QED
    BY <2>1, <2>2
<1> QED
  BY <1>5, <1>6, <1>9, <1>10, <1>11 DEF DataInv

(* The one operation that runs goes on, and what it has written is the same or more. *)
LEMMA GoesOn ==
  ASSUME DataInv, NEW o \in Operations, operation[o] # NoOperation, NEW x \in Running,
         operation' = [operation EXCEPT ![o] = x], UNCHANGED <<rows, open>>,
         DOMAIN pending' = Connections, WritesOK(pending'[Only]),
         BatchOK(x, pending'[Only], rows), DeleteOK(x, pending'[Only])
  PROVE  DataInv'
<1>1. \A q \in Operations : operation'[q] = IF q = o THEN x ELSE operation[q]
  BY DEF DataInv
<1>2. DOMAIN operation' = Operations
  BY DEF DataInv
<1>3. x # NoOperation
  BY DEF Running, NoOperation
<1>4. \A q \in Operations : q # o => operation[q] = NoOperation
  BY DEF DataInv
<1>5. open' = {Only}
  BY DEF DataInv, OperationOK
<1>6. \A q \in Operations : OperationOK(operation[q])'
  <2> SUFFICES ASSUME NEW q \in Operations PROVE OperationOK(operation[q])'
    OBVIOUS
  <2>1. CASE q = o
    BY <1>1, <1>5, <2>1 DEF OperationOK
  <2>2. CASE q # o
    BY <1>1, <1>4, <2>2 DEF OperationOK
  <2> QED
    BY <2>1, <2>2
<1>7. \A p, q \in Operations : operation'[p] # NoOperation /\ operation'[q] # NoOperation => p = q
  BY <1>1, <1>4
<1> QED
  BY <1>1, <1>2, <1>3, <1>6, <1>7 DEF DataInv

LEMMA StepOf ==
  ASSUME DataInv, NEW o \in Operations, operation[o].next > 0
  PROVE  operation[o] # NoOperation /\ operation[o] \in Running /\ open = {Only}
         /\ BatchOK(operation[o], pending[Only], rows) /\ DeleteOK(operation[o], pending[Only])
<1>1. operation[o] # NoOperation
  BY DEF NoOperation
<1> QED
  BY <1>1 DEF DataInv, OperationOK

(* A statement that fails leaves only the rollback. *)
LEMMA BrokenKeeps ==
  ASSUME DataInv, NEW o \in Operations, operation[o].next > 0, Broken(o), UNCHANGED <<rows, pending, open>>
  PROVE  DataInv'
<1>1. operation[o] # NoOperation /\ operation[o] \in Running
  BY StepOf
<1>2. PICK x : x = [operation[o] EXCEPT !.next = 0] /\ operation' = [operation EXCEPT ![o] = x]
  BY DEF Broken
<1>3. x \in Running /\ x.next = 0
  BY <1>1, <1>2 DEF Running
<1>4. BatchOK(x, pending[Only], rows) /\ DeleteOK(x, pending[Only])
  BY <1>3 DEF BatchOK, DeleteOK
<1> QED
  BY <1>1, <1>2, <1>3, <1>4, GoesOn DEF DataInv

(* What a statement inside the transaction writes. *)
LEMMA ExecuteInside ==
  ASSUME SqliteAdapter, DataInv, NEW c \in Connections, open = {Only}, NEW written, Execute(c, written)
  PROVE  /\ rows' = rows /\ DOMAIN pending' = Connections
         /\ DOMAIN pending'[Only] = DOMAIN written \cup DOMAIN pending[Only]
         /\ \A x \in DOMAIN pending'[Only] :
               pending'[Only][x] = IF x \in DOMAIN written THEN written[x] ELSE pending[Only][x]
<1>1. c = Only
  BY DEF SqliteAdapter
<1>2. pending' = [pending EXCEPT ![Only] = Over(written, pending[Only])] /\ rows' = rows
  BY <1>1 DEF Execute
<1>3. DOMAIN pending' = Connections /\ pending'[Only] = Over(written, pending[Only])
  BY <1>1, <1>2 DEF DataInv
<1>4. PICK p : p = pending[Only]
  OBVIOUS
<1>5. PICK o : o = Over(written, p)
  OBVIOUS
<1>6. DOMAIN o = DOMAIN written \cup DOMAIN p /\ \A x \in DOMAIN o : o[x] = IF x \in DOMAIN written THEN written[x] ELSE p[x]
  BY <1>5, WrittenOver
<1> QED
  BY <1>2, <1>3, <1>4, <1>5, <1>6

LEMMA MigrateOneKeeps ==
  ASSUME SqliteAdapter, DataInv, NEW o \in Operations, NEW c \in Connections, MigrateOne(o, c)
  PROVE  DataInv' /\ rows' = rows
<1>1. PICK x : x = operation[o]
  OBVIOUS
<1>2. /\ x # NoOperation /\ x \in Running /\ open = {Only} /\ x.kind = "batch" /\ x.next > 0
      /\ BatchOK(x, pending[Only], rows) /\ DOMAIN operation = Operations
  BY <1>1, StepOf DEF MigrateOne, Going, DataInv
<1>3. PICK n \in Nat : n = x.next /\ n > 0 /\ n <= Len(x.inputs)
  BY <1>1, <1>2 DEF MigrateOne, Running
<1>4. /\ x.inputs \in Batches /\ Len(x.inputs) \in Nat
      /\ \A m \in 1 .. Len(x.inputs) : /\ x.inputs[m].version \in MigrationVersions
                                       /\ x.inputs[m].name \in Names /\ x.inputs[m].name # None
  <2>1. x.inputs \in Batches
    BY <1>2 DEF BatchOK
  <2> QED
    BY <2>1, BatchParts
<1>5. PICK name \in Names : name = x.inputs[n].name /\ name # None
  BY <1>3, <1>4
<1>6. PICK cell \in Cells : cell = CellOf(x, n)
  <2>1. x.scope \in Scopes /\ x.inputs[n].version \in MigrationVersions
    BY <1>2, <1>3, <1>4 DEF Running
  <2> QED
    BY <2>1 DEF CellOf, Cells
<1>7. Cell(o) = cell /\ Now(o).name = name
  BY <1>1, <1>3, <1>5, <1>6 DEF Cell, CellOf, Now
<1>8. c = Only
  BY DEF SqliteAdapter
<1>9. View(c)[Cell(o)] = Seen(pending[Only], rows, cell)
  BY <1>7, <1>8, ViewIsSeen
<1>10. /\ \A m \in 1 .. n - 1 : /\ Seen(pending[Only], rows, CellOf(x, m)) = x.inputs[m].name
                                /\ rows[CellOf(x, m)] \in {None, x.inputs[m].name}
       /\ \A k \in DOMAIN pending[Only] : \E m \in 1 .. n - 1 : k = CellOf(x, m)
  BY <1>2, <1>3 DEF BatchOK
<1>11. PICK y : y = [x EXCEPT !.next = n + 1]
  OBVIOUS
<1>12. /\ y \in Running /\ y.kind = "batch" /\ y.next = n + 1 /\ y.inputs = x.inputs /\ y.scope = x.scope
  BY <1>2, <1>3, <1>11 DEF Running
<1>13. Advance(o) => operation' = [operation EXCEPT ![o] = y]
  BY <1>1, <1>2, <1>3, <1>11 DEF Advance
<1>14. \A m : CellOf(y, m) = CellOf(x, m)
  BY <1>12 DEF CellOf
<1>15. \A m \in 1 .. n : m = n \/ m \in 1 .. n - 1
  BY <1>3
<1>16. \A m \in 1 .. n - 1 : x.inputs[m].name # None
  BY <1>3, <1>4
<1>17. CASE Seen(pending[Only], rows, cell) = None /\ Execute(c, [k \in {cell} |-> name]) /\ Advance(o)
  <2>1. PICK f : f = [k \in {cell} |-> name]
    OBVIOUS
  <2>2. PICK p : p = pending'[Only]
    OBVIOUS
  <2>3. /\ rows' = rows /\ DOMAIN pending' = Connections /\ DOMAIN p = {cell} \cup DOMAIN pending[Only]
        /\ \A k \in DOMAIN p : p[k] = IF k = cell THEN name ELSE pending[Only][k]
    <3>1. DOMAIN f = {cell} /\ f[cell] = name
      BY <2>1
    <3>2. /\ rows' = rows /\ DOMAIN pending' = Connections
          /\ DOMAIN pending'[Only] = DOMAIN f \cup DOMAIN pending[Only]
          /\ \A k \in DOMAIN pending'[Only] :
                pending'[Only][k] = IF k \in DOMAIN f THEN f[k] ELSE pending[Only][k]
      BY <1>2, <1>17, <2>1, ExecuteInside
    <3> QED
      BY <2>2, <3>1, <3>2
  <2>4. WritesOK(p)
    BY <2>3 DEF WritesOK, DataInv, Stored
  <2>5. cell \notin DOMAIN pending[Only] /\ rows[cell] = None
    BY <1>10, <1>16, <1>17 DEF Seen
  <2>6. \A m \in 1 .. n - 1 : CellOf(x, m) # cell
    BY <1>10, <1>16, <1>17
  <2>7. \A m \in 1 .. n : /\ Seen(p, rows, CellOf(x, m)) = x.inputs[m].name
                          /\ rows[CellOf(x, m)] \in {None, x.inputs[m].name}
    <3> SUFFICES ASSUME NEW m \in 1 .. n
                 PROVE  /\ Seen(p, rows, CellOf(x, m)) = x.inputs[m].name
                        /\ rows[CellOf(x, m)] \in {None, x.inputs[m].name}
      OBVIOUS
    <3>1. CASE m = n
      BY <1>5, <1>6, <2>3, <2>5, <3>1 DEF Seen
    <3>2. CASE m \in 1 .. n - 1
      BY <1>10, <2>3, <2>6, <3>2 DEF Seen
    <3> QED
      BY <1>15, <3>1, <3>2
  <2>8. \A k \in DOMAIN p : \E m \in 1 .. n : k = CellOf(x, m)
    <3>1. n \in 1 .. n /\ 1 .. n - 1 \subseteq 1 .. n
      BY <1>3
    <3> QED
      BY <1>6, <1>10, <2>3, <3>1
  <2>9. BatchOK(y, p, rows)
    <3>1. y.next - 1 = n /\ y.next <= Len(y.inputs) + 1
      BY <1>3, <1>4, <1>12
    <3> QED
      BY <1>4, <1>12, <1>14, <2>7, <2>8, <3>1 DEF BatchOK
  <2>10. DeleteOK(y, p)
    BY <1>12 DEF DeleteOK
  <2>11. DataInv'
    BY <1>1, <1>2, <1>12, <1>13, <1>17, <2>2, <2>3, <2>4, <2>9, <2>10, GoesOn DEF MigrateOne
  <2> QED
    BY <2>3, <2>11
<1>18. CASE Seen(pending[Only], rows, cell) = name /\ UNCHANGED <<rows, pending>> /\ Advance(o)
  <2>1. rows[cell] \in {None, name}
    BY <1>10, <1>18 DEF Seen
  <2>2. \A m \in 1 .. n : /\ Seen(pending[Only], rows, CellOf(x, m)) = x.inputs[m].name
                          /\ rows[CellOf(x, m)] \in {None, x.inputs[m].name}
    BY <1>5, <1>6, <1>10, <1>15, <1>18, <2>1
  <2>3. \A k \in DOMAIN pending[Only] : \E m \in 1 .. n : k = CellOf(x, m)
    <3>1. 1 .. n - 1 \subseteq 1 .. n
      BY <1>3
    <3> QED
      BY <1>10, <3>1
  <2>4. BatchOK(y, pending[Only], rows)
    <3>1. y.next - 1 = n /\ y.next <= Len(y.inputs) + 1
      BY <1>3, <1>4, <1>12
    <3> QED
      BY <1>4, <1>12, <1>14, <2>2, <2>3, <3>1 DEF BatchOK
  <2>5. DeleteOK(y, pending[Only])
    BY <1>12 DEF DeleteOK
  <2>6. pending' = pending /\ DOMAIN pending = Connections /\ WritesOK(pending[Only]) /\ rows' = rows
    BY <1>18 DEF DataInv
  <2>7. DataInv'
    BY <1>1, <1>2, <1>12, <1>13, <1>18, <2>4, <2>5, <2>6, GoesOn DEF MigrateOne
  <2> QED
    BY <2>6, <2>7
<1>19. CASE Broken(o) /\ UNCHANGED <<rows, pending>>
  BY <1>1, <1>2, <1>19, BrokenKeeps DEF MigrateOne
<1> QED
  BY <1>7, <1>9, <1>17, <1>18, <1>19 DEF MigrateOne

LEMMA DeletePartKeeps ==
  ASSUME SqliteAdapter, DataInv, NEW o \in Operations, NEW c \in Connections, DeletePart(o, c)
  PROVE  DataInv' /\ rows' = rows
<1>1. PICK x : x = operation[o]
  OBVIOUS
<1>2. /\ x # NoOperation /\ x \in Running /\ open = {Only} /\ x.kind = "delete" /\ x.next > 0
      /\ DeleteOK(x, pending[Only]) /\ DOMAIN operation = Operations
  BY <1>1, StepOf DEF DeletePart, Going, DataInv
<1>3. PICK n \in {1, 2} : n = x.next
  BY <1>1, <1>2 DEF DeletePart, Running
<1>4. PICK f : f = [cell \in {x.scope} \X (IF n = 1 THEN Keys ELSE MigrationVersions) |-> None]
  OBVIOUS
<1>5. Execute(c, f) /\ Advance(o)
  BY <1>1, <1>3, <1>4 DEF DeletePart
<1>6. PICK p : p = pending'[Only]
  OBVIOUS
<1>7. /\ rows' = rows /\ DOMAIN pending' = Connections /\ DOMAIN p = DOMAIN f \cup DOMAIN pending[Only]
      /\ \A k \in DOMAIN p : p[k] = IF k \in DOMAIN f THEN f[k] ELSE pending[Only][k]
  BY <1>2, <1>5, <1>6, ExecuteInside
<1>8. DOMAIN f = {x.scope} \X (IF n = 1 THEN Keys ELSE MigrationVersions) /\ \A k \in DOMAIN f : f[k] = None
  BY <1>4
<1>9. \A k \in DOMAIN p : p[k] = None
  BY <1>2, <1>7, <1>8 DEF DeleteOK
<1>10. x.scope \in Scopes
  BY <1>2 DEF Running
<1>11. DOMAIN f \subseteq Cells
  BY <1>3, <1>8, <1>10 DEF Cells
<1>12. WritesOK(p)
  BY <1>7, <1>9, <1>11 DEF WritesOK, DataInv, Stored
<1>13. PICK y : y = [x EXCEPT !.next = n + 1]
  OBVIOUS
<1>14. y \in Running /\ y.kind = "delete" /\ y.next = n + 1 /\ y.scope = x.scope
  BY <1>2, <1>3, <1>13 DEF Running
<1>15. operation' = [operation EXCEPT ![o] = y]
  BY <1>1, <1>2, <1>3, <1>5, <1>13 DEF Advance
<1>16. n = 1 => DOMAIN p = {x.scope} \X Keys
  BY <1>2, <1>3, <1>7, <1>8 DEF DeleteOK
<1>17. n = 2 => DOMAIN p = {x.scope} \X (Keys \cup MigrationVersions)
  BY <1>2, <1>3, <1>7, <1>8 DEF DeleteOK
<1>18. DeleteOK(y, p) /\ BatchOK(y, p, rows)
  BY <1>3, <1>9, <1>14, <1>16, <1>17 DEF DeleteOK, BatchOK
<1>19. open' = open
  BY DEF DeletePart
<1>20. DataInv'
  BY <1>1, <1>2, <1>6, <1>7, <1>12, <1>14, <1>15, <1>18, <1>19, GoesOn
<1> QED
  BY <1>7, <1>20

(* The end of the one operation, whatever becomes of the rows. *)
LEMMA FinishedKeeps ==
  ASSUME SqliteAdapter, DataInv, NEW o \in Operations, NEW c \in Connections, operation[o] # NoOperation,
         Finished(o, c), rows' \in [Cells -> Stored]
  PROVE  DataInv'
<1>1. c = Only
  BY DEF SqliteAdapter
<1>2. \A q \in Operations : operation'[q] = NoOperation
  BY DEF Finished, DataInv
<1>3. open' = {}
  BY <1>1 DEF Finished, DataInv, OperationOK
<1>4. DOMAIN pending' = Connections /\ pending'[Only] = NoRows
  BY <1>1 DEF Finished, DataInv
<1>5. DOMAIN operation' = Operations
  BY DEF Finished, DataInv
<1>6. DOMAIN NoRows = {}
  BY DEF NoRows
<1> QED
  BY <1>2, <1>3, <1>4, <1>5, <1>6 DEF DataInv, WritesOK, OperationOK

LEMMA CrashKeeps ==
  ASSUME SqliteAdapter, DataInv, DataCrash
  PROVE  DataInv'
<1>1. /\ \A o \in Operations : operation'[o] = NoOperation
      /\ DOMAIN operation' = Operations /\ open' = {} /\ DOMAIN pending' = Connections /\ pending'[Only] = NoRows
  BY DEF DataCrash, SqliteAdapter
<1>2. DOMAIN NoRows = {} /\ rows' = rows
  BY DEF NoRows, DataCrash
<1> QED
  BY <1>1, <1>2 DEF DataInv, WritesOK, OperationOK

(* A commit puts the whole batch, or the whole deletion, into the rows.         *)
LEMMA CommitRefines ==
  ASSUME SqliteAdapter, DataInv, NEW o \in Operations, NEW c \in Connections, Commit(o, c)
  PROVE  DataInv' /\ DOMAIN rows' = DOMAIN rows /\ \E s \in Scopes : Data!Migrate(s) \/ Data!Delete(s)
<1>1. PICK x : x = operation[o]
  OBVIOUS
<1>2. /\ x # NoOperation /\ x \in Running /\ x.kind \in {"batch", "delete"} /\ x.next > 0
      /\ BatchOK(x, pending[Only], rows) /\ DeleteOK(x, pending[Only])
  BY <1>1, StepOf DEF Commit, Going
<1>3. c = Only
  BY DEF SqliteAdapter
<1>4. /\ rows' \in [Cells -> Stored] /\ rows \in [Cells -> Stored]
      /\ \A cell \in Cells : rows'[cell] = Seen(pending[Only], rows, cell)
  BY <1>3, ViewIsSeen DEF Commit, DataInv
<1>5. DataInv'
  BY <1>1, <1>2, <1>4, FinishedKeeps DEF Commit
<1>6. x.scope \in Scopes
  BY <1>2 DEF Running
<1>7. CASE x.kind = "batch"
  <2>1. x.next > Len(x.inputs) /\ x.inputs \in Batches /\ x.next <= Len(x.inputs) + 1
    BY <1>1, <1>2, <1>7 DEF Commit, Going, BatchOK
  <2>2. \A n \in DOMAIN x.inputs : x.inputs[n].version \in MigrationVersions
    BY <2>1, BatchParts
  <2>3. x.next \in Nat /\ Len(x.inputs) \in Nat /\ DOMAIN x.inputs = 1 .. Len(x.inputs)
    BY <1>2, <2>1, BatchParts DEF Running
  <2>4. 1 .. x.next - 1 = DOMAIN x.inputs
    BY <2>1, <2>3
  <2>5. PICK q : q = [scope |-> x.scope, inputs |-> x.inputs]
    OBVIOUS
  <2>6. q \in {[scope |-> operation[r].scope, inputs |-> operation[r].inputs] : r \in {w \in Operations : operation[w].kind = "batch"}}
    BY <1>1, <1>7, <2>5
  <2>7. q.scope = x.scope /\ q.inputs = x.inputs
    BY <2>5
  <2>8. \A n \in DOMAIN x.inputs : <<x.scope, x.inputs[n].version>> \in Cells
    BY <1>6, <2>2 DEF Cells
  <2>9. \A n \in DOMAIN x.inputs : /\ rows[<<x.scope, x.inputs[n].version>>] \in {None, x.inputs[n].name}
                                   /\ rows'[<<x.scope, x.inputs[n].version>>] = x.inputs[n].name
    BY <1>2, <1>4, <1>7, <2>4, <2>8 DEF BatchOK, CellOf
  <2>10. \A cell \in Cells : cell \notin {<<x.scope, x.inputs[n].version>> : n \in DOMAIN x.inputs} => rows'[cell] = rows[cell]
    BY <1>2, <1>4, <1>7, <2>4 DEF BatchOK, CellOf, Seen
  <2>11. Data!OnlyIn({<<x.scope, q.inputs[n].version>> : n \in DOMAIN q.inputs})
    BY <1>4, <2>7, <2>10 DEF Data!OnlyIn
  <2>12. Data!Migrate(x.scope)
    BY <2>6, <2>7, <2>9, <2>11 DEF Data!Migrate
  <2> QED
    BY <1>4, <1>5, <1>6, <2>12
<1>8. CASE x.kind = "delete"
  <2>1. x.next \in 1 .. 3 /\ x.next > 2
    BY <1>1, <1>2, <1>8 DEF Commit, Going, DeleteOK
  <2>2. /\ DOMAIN pending[Only] = {x.scope} \X (Keys \cup MigrationVersions)
        /\ \A cell \in DOMAIN pending[Only] : pending[Only][cell] = None
    BY <1>2, <1>8, <2>1 DEF DeleteOK
  <2>3. {x.scope} \X (Keys \cup MigrationVersions) \subseteq Cells
    BY <1>6 DEF Cells
  <2>4. \A cell \in Data!OfScope(x.scope) : rows'[cell] = None
    BY <1>4, <2>2, <2>3 DEF Data!OfScope, Seen
  <2>5. Data!OnlyIn(Data!OfScope(x.scope))
    BY <1>4, <2>2 DEF Data!OnlyIn, Data!OfScope, Seen
  <2>6. Data!Delete(x.scope)
    BY <2>4, <2>5 DEF Data!Delete
  <2> QED
    BY <1>4, <1>5, <1>6, <2>6
<1> QED
  BY <1>2, <1>7, <1>8

LEMMA DataRefines ==
  ASSUME SqliteAdapter, DataInv, [PluginDataNext]_pluginData
  PROVE  DataInv' /\ Data!DataNext
<1>1. ASSUME rows' = rows PROVE Data!DataNext
  BY <1>1 DEF Data!DataNext
<1>2. ASSUME NEW s \in Scopes, NEW c \in Connections, NEW k \in Keys, NEW value \in Values \cup {None}, Put(s, k, c, value)
      PROVE  DataInv' /\ Data!DataNext
  <2>1. DataInv' /\ \A cell \in Cells \ {<<s, k>>} : rows'[cell] = rows[cell]
    BY <1>2, PutKeeps
  <2>2. DOMAIN rows = Cells /\ DOMAIN rows' = Cells
    BY <2>1 DEF DataInv
  <2>3. Data!OnlyIn({<<s, k>>})
    BY <2>1, <2>2 DEF Data!OnlyIn
  <2>4. Data!Write(s)
    BY <2>3 DEF Data!Write
  <2> QED
    BY <2>1, <2>2, <2>4 DEF Data!DataNext
<1>3. ASSUME NEW s \in Scopes, NEW c \in Connections, NEW o \in Operations, NEW inputs \in Batches, BeginBatch(o, s, c, inputs)
      PROVE  DataInv' /\ Data!DataNext
  <2>1. rows' = rows
    BY <1>3 DEF BeginBatch
  <2> QED
    BY <1>1, <1>3, <2>1, StartedKeeps DEF BeginBatch
<1>4. ASSUME NEW o \in Operations, NEW s \in Scopes, NEW c \in Connections, BeginDelete(o, s, c)
      PROVE  DataInv' /\ Data!DataNext
  <2>1. rows' = rows
    BY <1>4 DEF BeginDelete
  <2> QED
    BY <1>1, <1>4, <2>1, StartedKeeps DEF BeginDelete
<1>5. ASSUME NEW o \in Operations, NEW c \in Connections, MigrateOne(o, c) \/ DeletePart(o, c)
      PROVE  DataInv' /\ Data!DataNext
  BY <1>1, <1>5, MigrateOneKeeps, DeletePartKeeps
<1>6. ASSUME NEW o \in Operations, StatementFails(o) PROVE DataInv' /\ Data!DataNext
  BY <1>1, <1>6, BrokenKeeps DEF StatementFails
<1>7. ASSUME NEW o \in Operations, NEW c \in Connections, Commit(o, c) PROVE DataInv' /\ Data!DataNext
  BY <1>7, CommitRefines DEF Data!DataNext
<1>8. ASSUME NEW o \in Operations, NEW c \in Connections, Rollback(o, c) PROVE DataInv' /\ Data!DataNext
  <2>1. operation[o] # NoOperation /\ rows' = rows
    BY <1>8, FreeMeans DEF Rollback
  <2>2. rows' \in [Cells -> Stored]
    BY <2>1 DEF DataInv
  <2> QED
    BY <1>1, <1>8, <2>1, <2>2, FinishedKeeps DEF Rollback
<1>9. CASE UNCHANGED <<rows, pending, open, operation>>
  <2>1. DataInv'
    BY <1>9 DEF DataInv, WritesOK, OperationOK
  <2> QED
    BY <1>1, <1>9, <2>1
<1>10. CASE DataCrash
  <2>1. rows' = rows
    BY <1>10 DEF DataCrash
  <2> QED
    BY <1>1, <1>10, <2>1, CrashKeeps
<1>11. ASSUME NEW s \in Scopes, Grant(s) PROVE UNCHANGED <<rows, pending, open, operation>>
  BY <1>11 DEF Grant
<1>12. ASSUME NEW s \in Scopes, NEW c \in Connections, DataRequest(s, c) PROVE DataInv' /\ Data!DataNext
  BY <1>2, <1>3, <1>12 DEF DataRequest
<1> QED
  BY <1>4, <1>5, <1>6, <1>7, <1>8, <1>9, <1>10, <1>11, <1>12 DEF PluginDataNext, pluginData

(***************************************************************************)
(* What is committed changes as the plugin's store promises, when          *)
(* statements fail and when Core ends between two of them                  *)
(* (createPluginDataStore).                                                *)
(***************************************************************************)
THEOREM SqliteImplementsDataStore ==
  ASSUME SqliteAdapter
  PROVE  PluginDataSpec => ImplementsDataStore
<1>1. PluginDataInit => DataInv
  BY DataInitEstablishes
<1>2. PluginDataInit => Data!DataInit
  BY DEF PluginDataInit, Data!DataInit
<1>3. DataInv /\ [PluginDataNext]_pluginData => DataInv' /\ Data!DataNext
  BY DataRefines
<1> QED
  BY <1>1, <1>2, <1>3, PTL DEF PluginDataSpec, ImplementsDataStore, Data!DataSpec

==============================================================================
