----------------------------- MODULE FetchProofs -----------------------------
(***************************************************************************)
(* Proofs about Fetch: whatever is published, deleted, uploaded again or     *)
(* overwritten on the way, what is installed agrees with all the evidence    *)
(* there is, and is called verified exactly where there is some; the release *)
(* is the newest there was, its asset and program are those the rules single *)
(* out, and a dry run says of it what can be said beforehand.                *)
(***************************************************************************)
EXTENDS Fetch, FiniteSetTheorems, SequenceTheorems, TLAPS

AtMostOne(s) == \A x, y \in s : x = y

Hosting == \E rs : host \in Seq(rs) /\ \A r \in rs : Hashed(r)

\* What was hashed has been held against the evidence.
Judged(id, c) ==
  /\ id # None /\ Evidence(c) \subseteq {id}
  /\ out.verified <=> Evidence(c) # {}
  /\ Evidence(c) = {} => command.unverified /\ ChecksumAssets(c.asset, c.assets) = {}

\* One choice, one file, one set of checksums.  A file that was overwritten does
\* not become again what it was, so that the second hash finds every change.
Before == {"begin", "list", "tag", "latest", "select", "dry", "asset"}
Holds ==
  /\ AtMostOne(chosen) /\ AtMostOne(sums) /\ AtMostOne(file)
  /\ \A f \in file : f.id # None
  /\ pc \in Before => sums = {} /\ file = {}
  /\ pc \in Before \ {"dry", "asset"} => chosen = {}
  /\ pc \in Before \union {"sums", "verify", "extract"} => taken = {}
  /\ pc = "sums" => sums = {}
  /\ pc = "verify" /\ sums = {} => \A c \in chosen : ChecksumAssets(c.asset, c.assets) = {}
  /\ pc # "done" => out.status = "none"
  /\ pc = "done" => file = {}
  /\ out = [status |-> out.status, verified |-> out.verified]
Hashing ==
  /\ pc \in {"extract", "recheck"} => \A c \in chosen : \E id : sha = {id} /\ Judged(id, c)
  /\ pc = "extract" => \A f \in file : sha = {f.id} \/ f = Damaged
  /\ pc = "recheck" => \A t \in taken : sha = {t.data.id} \/ (t.data = Damaged /\ file \subseteq {Damaged})

FetchInv == Hosting /\ Holds /\ Hashing /\ EvidenceIsTruthful

-----------------------------------------------------------------------------
(* Evidence *)

\* The verdict on a hash says what the evidence says.
LEMMA VerdictIsEvidence ==
  ASSUME NEW id, id # None, NEW c \in chosen, AtMostOne(sums),
         sums = {} => ChecksumAssets(c.asset, c.assets) = {},
         resolvePublisherChecksum(id, c, sums) # "refused"
  PROVE  /\ Evidence(c) \subseteq {id}
         /\ resolvePublisherChecksum(id, c, sums) = "verified" <=> Evidence(c) # {}
         /\ Evidence(c) = {} => command.unverified /\ ChecksumAssets(c.asset, c.assets) = {}
<1>1. c.asset.digest \in {None, id}
  BY DEF resolvePublisherChecksum
<1>2. CASE sums = {}
  BY <1>1, <1>2 DEF resolvePublisherChecksum, Evidence
<1>3. CASE sums # {}
  <2>1. PICK s \in sums : sums = {s}
    BY <1>3 DEF AtMostOne
  <2>2. Listed(s, c.asset) = {id}
    BY <1>1, <2>1 DEF resolvePublisherChecksum
  <2>3. Evidence(c) = {id}
    <3>1. UNION {Listed(x, c.asset) : x \in sums} = {id}
      BY <2>1, <2>2
    <3> QED
      BY <1>1, <3>1 DEF Evidence
  <2> QED
    BY <1>1, <2>1, <2>2, <2>3 DEF resolvePublisherChecksum
<1> QED
  BY <1>2, <1>3

LEMMA PicksOne ==
  ASSUME NEW assets, NEW target, NEW filter
  PROVE  AtMostOne(Pick(assets, target, filter))
<1> DEFINE pool == Filter(Pool(assets, target), filter)
           found == IF filter # {} /\ Single(pool) THEN pool ELSE Detected(pool, target)
           left == IF Single(found) THEN found ELSE Tiebreak(found, target)
<1>1. Pick(assets, target, filter) = IF Single(left) THEN left ELSE {}
  BY DEF Pick
<1> HIDE DEF left
<1> QED
  BY <1>1 DEF Single, AtMostOne

-----------------------------------------------------------------------------
(* The host *)

LEMMA ServedAreReadable ==
  ASSUME Hosting, NEW c, NEW asset, NEW d \in Served(c, asset) \union {Damaged}
  PROVE  Readable(d)
<1>1. CASE d = Damaged
  BY <1>1, ContentAssumption
<1>2. CASE d \in Served(c, asset)
  <2>1. PICK r \in Range(host) : \E a \in r.assets : a.data = d
    BY <1>2 DEF Served
  <2>2. PICK rs : host \in Seq(rs) /\ \A q \in rs : Hashed(q)
    BY DEF Hosting
  <2>3. r \in rs
    BY <2>1, <2>2 DEF Range
  <2> QED
    BY <2>1, <2>2, <2>3 DEF Hashed
<1> QED
  BY <1>1, <1>2

LEMMA HostStays ==
  ASSUME Hosting, [Next]_vars
  PROVE  Hosting'
<1> PICK rs : host \in Seq(rs) /\ \A r \in rs : Hashed(r)
  BY DEF Hosting
<1>1. CASE \E r \in NewReleases : Publish(r)
  <2>1. PICK r \in NewReleases : Publish(r)
    BY <1>1
  <2>2. host' \in Seq(rs \union {r})
    BY <2>1 DEF Publish
  <2>3. Hashed(r)
    BY ContentAssumption
  <2> QED
    BY <2>2, <2>3 DEF Hosting
<1>2. CASE \E i \in DOMAIN host : Delete(i)
  <2>1. PICK i \in DOMAIN host : Delete(i)
    BY <1>2
  <2>2. host' \in Seq(rs)
    BY <2>1 DEF Delete, RemoveAt
  <2> QED
    BY <2>2 DEF Hosting
<1>3. CASE \E i \in DOMAIN host : \E a \in host[i].assets, d \in NewData : Upload(i, a, d)
  <2>0. PICK i \in DOMAIN host : \E a \in host[i].assets, d \in NewData : Upload(i, a, d)
    BY <1>3
  <2>1. PICK a \in host[i].assets, d \in NewData : Upload(i, a, d)
    BY <2>0
  <2> DEFINE b == [a EXCEPT !.data = d, !.size = d.len, !.digest = IF @ = None THEN None ELSE d.id]
             r == [host[i] EXCEPT !.assets = (@ \ {a}) \union {b}]
  <2>2. Hashed(host[i])
    OBVIOUS
  <2>3. "data" \in DOMAIN b /\ b.data = d
    BY <2>2 DEF Hashed
  <2>4. /\ r.assets = (host[i].assets \ {a}) \union {b} /\ DOMAIN r = DOMAIN host[i]
        /\ r.tag = host[i].tag
    BY <2>2 DEF Hashed
  <2>5. Readable(d)
    BY ContentAssumption
  <2> HIDE DEF b
  <2>6. Hashed(r)
    BY <2>2, <2>3, <2>4, <2>5 DEF Hashed
  <2>7. host' = [host EXCEPT ![i] = r]
    BY <2>1 DEF Upload, b
  <2> HIDE DEF r
  <2>8. host' \in Seq(rs \union {r})
    BY <2>7
  <2> QED
    BY <2>6, <2>8 DEF Hosting
<1>4. CASE UNCHANGED host
  BY <1>4 DEF Hosting
<1> QED
  BY <1>1, <1>2, <1>3, <1>4 DEF Next, Checking, Installing, Others, Begin, ListPage, AskOne, RequestFails, SelectRelease,
     DryRun, DownloadAsset, DownloadSums, Verify, ExtractAsset, Recheck, Overwrite, vars, world

-----------------------------------------------------------------------------
(* Steps *)

LEMMA HoldsStay ==
  ASSUME FetchInv, [Next]_vars
  PROVE  Holds'
<1>0. Hosting /\ Holds
  BY DEF FetchInv
<1> USE DEF Holds, Before, Done
<1>1. CASE Begin
  BY <1>0, <1>1 DEF Begin, Asks, world
<1>2. CASE ListPage \/ AskOne
  BY <1>0, <1>2 DEF ListPage, AskOne, world
<1>3. CASE RequestFails
  BY <1>0, <1>3 DEF RequestFails, world, AtMostOne
<1>4. CASE SelectRelease
  <2> DEFINE release == listed[Min({i \in DOMAIN listed : listed[i].tag = Selected.tag})]
             all == Pick(release.assets, command.target, command.filter)
             picked == {a \in all : a.url /\ a.size >= 0}
  <2>1. AtMostOne(all)
    BY PicksOne
  <2> HIDE DEF all
  <2>2. AtMostOne(picked)
    BY <2>1 DEF AtMostOne
  <2>3. \/ chosen' = chosen /\ pc' = "done"
        \/ /\ chosen' = {[tag |-> release.tag, asset |-> a, assets |-> release.assets] : a \in picked}
           /\ pc' \in {"dry", "asset"} /\ out' = out
    BY <1>4 DEF SelectRelease, all
  <2> HIDE DEF picked, release
  <2>4. AtMostOne(chosen')
    BY <1>0, <2>2, <2>3 DEF AtMostOne
  <2>5. /\ pc = "select" /\ UNCHANGED <<sums, file, taken>>
        /\ \/ out' = out
           \/ \E v : out' = [out EXCEPT !.status = v]
    BY <1>4 DEF SelectRelease
  <2> QED
    BY <1>0, <2>3, <2>4, <2>5
<1>5. CASE \E c \in chosen : DryRun(c)
  BY <1>0, <1>5 DEF DryRun, world
<1>6. CASE \E c \in chosen : \E d \in Served(c, c.asset) \union {Damaged} : DownloadAsset(c, d)
  <2>1. PICK c \in chosen : \E d \in Served(c, c.asset) \union {Damaged} : DownloadAsset(c, d)
    BY <1>6
  <2>2. PICK d \in Served(c, c.asset) \union {Damaged} : DownloadAsset(c, d)
    BY <2>1
  <2>3. d.id # None
    BY <1>0, <2>2, ServedAreReadable DEF Readable
  <2> QED
    BY <1>0, <2>2, <2>3 DEF DownloadAsset, AtMostOne
<1>7. CASE \E c \in chosen : \E s \in ChecksumAssets(c.asset, c.assets) :
              \E d \in Served(c, s) \union {Damaged} : DownloadSums(c, s, d)
  <2>1. PICK c \in chosen : \E s \in ChecksumAssets(c.asset, c.assets) :
              \E d \in Served(c, s) \union {Damaged} : DownloadSums(c, s, d)
    BY <1>7
  <2>2. PICK s \in ChecksumAssets(c.asset, c.assets) : \E d \in Served(c, s) \union {Damaged} : DownloadSums(c, s, d)
    BY <2>1
  <2>3. PICK d : DownloadSums(c, s, d)
    BY <2>2
  <2> QED
    BY <1>0, <2>3 DEF DownloadSums, AtMostOne
<1>8. CASE \E c \in chosen, f \in file : Verify(c, f)
  BY <1>0, <1>8 DEF Verify, AtMostOne
<1>9. CASE \E c \in chosen, f \in file : ExtractAsset(c, f)
  BY <1>0, <1>9 DEF ExtractAsset, AtMostOne
<1>10. CASE \E f \in file : Recheck(f)
  BY <1>0, <1>10 DEF Recheck, AtMostOne
<1>11. CASE Overwrite
  <2>1. Damaged.id # None
    BY ContentAssumption DEF Readable
  <2> QED
    BY <1>0, <1>11, <2>1 DEF Overwrite, AtMostOne
<1>12. CASE UNCHANGED <<command, pc, client>>
  BY <1>0, <1>12 DEF client
<1> QED
  BY <1>1, <1>2, <1>3, <1>4, <1>5, <1>6, <1>7, <1>8, <1>9, <1>10, <1>11, <1>12 DEF Next, Checking, Installing, Others,
     Publish, Delete, Upload, vars

\* What was judged stays so while nothing is chosen or downloaded.
LEMMA JudgedStays ==
  ASSUME UNCHANGED <<command, sums>>, out'.verified = out.verified
  PROVE  \A id, c : Judged(id, c) => Judged(id, c)'
BY DEF Judged, Evidence

LEMMA HashingStays ==
  ASSUME FetchInv, [Next]_vars
  PROVE  Hashing' /\ EvidenceIsTruthful'
<1>0. Hosting /\ Holds /\ Hashing /\ EvidenceIsTruthful
  BY DEF FetchInv
<1>1. CASE \E c \in chosen, f \in file : Verify(c, f)
  <2>1. PICK c \in chosen, f \in file : Verify(c, f)
    BY <1>1
  <2> DEFINE v == resolvePublisherChecksum(f.id, c, sums)
  <2>2. chosen = {c} /\ file = {f} /\ f.id # None /\ pc = "verify" /\ pc' \in {"done", "extract"}
    BY <1>0, <2>1 DEF Holds, AtMostOne, Verify, Done
  <2>3. CASE v # "refused"
    <3>1. /\ Evidence(c) \subseteq {f.id}
          /\ v = "verified" <=> Evidence(c) # {}
          /\ Evidence(c) = {} => command.unverified /\ ChecksumAssets(c.asset, c.assets) = {}
      BY <1>0, <2>2, <2>3, VerdictIsEvidence DEF Holds
    <3> HIDE DEF v
    <3>2. /\ pc' = "extract" /\ out' = [out EXCEPT !.verified = (v = "verified")]
          /\ sha' = {f.id} /\ UNCHANGED <<command, chosen, file, sums, taken>>
      BY <2>1, <2>3 DEF Verify, v
    <3>3. out'.verified <=> (v = "verified")
      BY <1>0, <3>2 DEF Holds
    <3>4. out'.status = "none"
      BY <1>0, <2>2, <3>2 DEF Holds
    <3>5. Judged(f.id, c)'
      BY <2>2, <3>1, <3>2, <3>3 DEF Judged, Evidence
    <3> QED
      BY <2>2, <3>2, <3>4, <3>5 DEF Hashing, EvidenceIsTruthful
  <2>4. CASE v = "refused"
    <3>1. pc' = "done" /\ out' = [out EXCEPT !.status = "refused"]
      BY <2>1, <2>4 DEF Verify, Done
    <3>2. out'.status = "refused"
      BY <1>0, <3>1 DEF Holds
    <3> QED
      BY <3>1, <3>2 DEF Hashing, EvidenceIsTruthful
  <2> QED
    BY <2>3, <2>4
<1>2. CASE \E c \in chosen, f \in file : ExtractAsset(c, f)
  <2>1. PICK c \in chosen, f \in file : ExtractAsset(c, f)
    BY <1>2
  <2>2. /\ chosen = {c} /\ file = {f} /\ pc = "extract" /\ (sha = {f.id} \/ f = Damaged)
        /\ UNCHANGED <<command, chosen, sums, sha>>
    BY <1>0, <2>1 DEF Holds, Hashing, AtMostOne, ExtractAsset
  <2>3. CASE pc' = "recheck" /\ UNCHANGED <<out, file>> /\ \A t \in taken' : t.data = f
    <3>1. out'.status = "none"
      BY <1>0, <2>2, <2>3 DEF Holds
    <3>2. \A d \in chosen' : \E id : sha' = {id} /\ Judged(id, d)'
      <4>1. PICK id : sha = {id} /\ Judged(id, c)
        BY <1>0, <2>2 DEF Hashing
      <4>2. Judged(id, c)'
        BY <2>2, <2>3, <4>1, JudgedStays
      <4> QED
        BY <2>2, <4>1, <4>2
    <3>3. \A t \in taken' : sha' = {t.data.id} \/ (t.data = Damaged /\ file' \subseteq {Damaged})
      BY <2>2, <2>3
    <3>4. Hashing'
      BY <2>3, <3>2, <3>3 DEF Hashing
    <3> QED
      BY <3>1, <3>4 DEF EvidenceIsTruthful
  <2>4. CASE pc' = "done" /\ out' = [out EXCEPT !.status = "unusable"]
    <3>1. out'.status = "unusable"
      BY <1>0, <2>4 DEF Holds
    <3> QED
      BY <2>4, <3>1 DEF Hashing, EvidenceIsTruthful
  <2> QED
    BY <2>1, <2>3, <2>4 DEF ExtractAsset, Done
<1>3. CASE \E f \in file : Recheck(f)
  <2>1. PICK f \in file : Recheck(f)
    BY <1>3
  <2>2. /\ pc = "recheck" /\ pc' = "done" /\ UNCHANGED <<command, chosen, sums, sha, taken>>
        /\ out' = [out EXCEPT !.status = IF sha = {f.id} THEN "installed" ELSE "refused"]
    BY <2>1 DEF Recheck, Done
  <2>3. out'.verified = out.verified /\ (out'.status = "installed" => sha = {f.id})
    BY <1>0, <2>2 DEF Holds
  <2>4. ASSUME out'.status = "installed", NEW c \in chosen, NEW t \in taken
        PROVE  /\ Evidence(c)' \subseteq {t.data.id}
               /\ out'.verified <=> Evidence(c)' # {}
               /\ Evidence(c)' = {} => command.unverified /\ ChecksumAssets(c.asset, c.assets) = {}
    <3>1. PICK id : sha = {id} /\ Judged(id, c)'
      BY <1>0, <2>2, <2>3, JudgedStays DEF Hashing
    <3>2. id = f.id
      BY <2>3, <2>4, <3>1
    <3>3. t.data.id = id
      BY <1>0, <2>1, <2>2, <3>1, <3>2 DEF Hashing
    <3> QED
      BY <2>2, <3>1, <3>3 DEF Judged
  <2> QED
    BY <2>2, <2>4 DEF Hashing, EvidenceIsTruthful
<1>4. CASE Overwrite
  <2>1. /\ UNCHANGED <<command, pc, chosen, sums, sha, taken, out>> /\ file' = {Damaged} /\ file # {} /\ file # {Damaged}
    BY <1>4 DEF Overwrite
  <2>2. ~(file \subseteq {Damaged})
    BY <2>1
  <2>3. \A c, id : Judged(id, c)' <=> Judged(id, c)
    BY <2>1 DEF Judged, Evidence
  <2>4. EvidenceIsTruthful'
    BY <1>0, <2>1 DEF EvidenceIsTruthful, Evidence
  <2> QED
    BY <1>0, <2>1, <2>2, <2>3, <2>4 DEF Hashing
<1>5. CASE UNCHANGED <<command, pc, client>>
  <2>1. \A c, id : Judged(id, c)' <=> Judged(id, c)
    BY <1>5 DEF Judged, Evidence, client
  <2> QED
    BY <1>0, <1>5, <2>1 DEF Hashing, EvidenceIsTruthful, Evidence, client
<1>6. CASE Checking \/ \E c \in chosen :
              \/ DryRun(c)
              \/ \E d \in Served(c, c.asset) \union {Damaged} : DownloadAsset(c, d)
              \/ \E s \in ChecksumAssets(c.asset, c.assets) : \E d \in Served(c, s) \union {Damaged} : DownloadSums(c, s, d)
  <2>1. pc \in Before \union {"sums"}
    BY <1>6 DEF Checking, Begin, ListPage, AskOne, RequestFails, SelectRelease, DryRun, DownloadAsset, DownloadSums, Before
  <2>2. pc' \notin {"extract", "recheck"}
    BY <1>6 DEF Checking, Begin, ListPage, AskOne, RequestFails, SelectRelease, DryRun, DownloadAsset, DownloadSums,
       Before, Done, Asks
  <2>3. taken = {} /\ UNCHANGED taken
    BY <1>0, <1>6, <2>1 DEF Checking, Begin, ListPage, AskOne, RequestFails, SelectRelease, DryRun, DownloadAsset,
       DownloadSums, Before, Holds
  <2> QED
    BY <2>2, <2>3 DEF Hashing, EvidenceIsTruthful
<1> QED
  BY <1>1, <1>2, <1>3, <1>4, <1>5, <1>6 DEF Next, Installing, Others, Publish, Delete, Upload, vars

\* The invariant holds at the start and every step keeps it.
THEOREM FetchInductive == Spec => []FetchInv
<1>1. Init => FetchInv
  <2> SUFFICES ASSUME Init
               PROVE  FetchInv
    OBVIOUS
  <2>1. Hosting
    BY DEF Init, Hosting
  <2>2. Holds
    BY DEF Init, Holds, AtMostOne, Before
  <2>3. Hashing /\ EvidenceIsTruthful
    BY DEF Init, Hashing, EvidenceIsTruthful
  <2> QED
    BY <2>1, <2>2, <2>3 DEF FetchInv
<1>2. FetchInv /\ [Next]_vars => FetchInv'
  BY HostStays, HoldsStay, HashingStays DEF FetchInv
<1> QED
  BY <1>1, <1>2, PTL DEF Spec

\* Fail closed, in front of every publisher and every other program: what is
\* installed agrees with all the evidence there is, or the user has said that
\* none is needed.
THEOREM EvidenceStands == Spec => []EvidenceIsTruthful
<1>1. FetchInv => EvidenceIsTruthful
  BY DEF FetchInv
<1> QED
  BY <1>1, FetchInductive, PTL

-----------------------------------------------------------------------------
(* The choice of an asset *)

\* Whatever the preferences of the tiebreak, it only drops assets.
LEMMA TiebreakNarrows ==
  ASSUME NEW pool, NEW target
  PROVE  Tiebreak(pool, target) \subseteq pool
<1>1. \A s : ByArch(s, target) \subseteq s
  BY DEF ByArch, Prefer
<1>2. \A s : ByWidth(s, target) \subseteq s
  BY DEF ByWidth, Prefer
<1>3. \A s : ByFormat(s) \subseteq s
  BY DEF ByFormat, Prefer
<1>4. \A s : ByLibc(s, target) \subseteq s
  BY DEF ByLibc, Prefer
<1> QED
  BY <1>1, <1>2, <1>3, <1>4 DEF Tiebreak

LEMMA DetectedNarrows ==
  ASSUME NEW pool, NEW target
  PROVE  Detected(pool, target) \subseteq pool
BY DEF Detected

\* A filter narrows the pool, and nothing comes from outside it.
LEMMA PicksFromPool ==
  ASSUME NEW assets, NEW target, NEW filter
  PROVE  Pick(assets, target, filter) \subseteq Pool(assets, target)
<1> DEFINE pool == Filter(Pool(assets, target), filter)
           found == IF filter # {} /\ Single(pool) THEN pool ELSE Detected(pool, target)
           left == IF Single(found) THEN found ELSE Tiebreak(found, target)
<1>1. pool \subseteq Pool(assets, target)
  BY DEF Filter
<1> HIDE DEF pool
<1>2. found \subseteq pool
  BY DetectedNarrows
<1> HIDE DEF found
<1>3. left \subseteq found
  BY TiebreakNarrows
<1>4. Pick(assets, target, filter) = IF Single(left) THEN left ELSE {}
  BY DEF Pick, left, found, pool
<1> QED
  BY <1>1, <1>2, <1>3, <1>4

LEMMA PicksAmong ==
  ASSUME NEW assets, NEW target, NEW filter
  PROVE  Pick(assets, target, filter) \subseteq assets
<1>1. Pool(assets, target) \subseteq assets
  BY DEF Pool
<1> QED
  BY <1>1, PicksFromPool

\* The pool is a last resort as a whole, and then all of it names the machine.
LEMMA PoolIsLastResort ==
  ASSUME NEW assets, NEW target, NEW x \in Pool(assets, target)
  PROVE  /\ ~Blacklisted(x, target) /\ ~SourceArchive(x)
         /\ Demoted(x) => Fits(x, target) /\ \A a \in assets : Blacklisted(a, target) \/ Demoted(a)
<1> DEFINE listed1 == {a \in assets : ~Blacklisted(a, target)}
           preferred == {a \in listed1 : ~Demoted(a)}
<1>1. CASE preferred # {}
  <2>1. x \in preferred
    BY <1>1 DEF Pool
  <2> QED
    BY <2>1 DEF Demoted
<1>2. CASE preferred = {}
  <2>1. x \in listed1 /\ ~SourceArchive(x) /\ Fits(x, target)
    BY <1>2 DEF Pool
  <2> QED
    BY <1>2, <2>1
<1> QED
  BY <1>1, <1>2

\* Where an asset that can be installed names the machine, the picked one does.
LEMMA PickFits ==
  ASSUME NEW assets, NEW target, NEW a \in assets,
         ~Blacklisted(a, target), ~Demoted(a), Fits(a, target),
         NEW x \in Pick(assets, target, {})
  PROVE  Fits(x, target)
<1> DEFINE pool == Filter(Pool(assets, target), {})
           found == IF {} # {} /\ Single(pool) THEN pool ELSE Detected(pool, target)
           left == IF Single(found) THEN found ELSE Tiebreak(found, target)
<1>1. a \in pool /\ \A b \in pool : ~Demoted(b)
  BY DEF Pool, Filter
<1> HIDE DEF pool
<1>2. found = {b \in pool : Fits(b, target)}
  <2>1. {b \in pool : target.os = "linux" /\ b.ext = "appimage"} = {}
    BY <1>1 DEF Demoted
  <2> QED
    BY <1>1, <2>1 DEF Detected
<1> HIDE DEF found
<1>3. left \subseteq found
  BY TiebreakNarrows
<1>4. Pick(assets, target, {}) = IF Single(left) THEN left ELSE {}
  BY DEF Pick, left, found, pool
<1> QED
  BY <1>2, <1>3, <1>4

-----------------------------------------------------------------------------
(* The choice of a member *)

LEMMA MinIsLeast ==
  ASSUME NEW S, S \subseteq Nat, S # {}
  PROVE  Min(S) \in S /\ \A y \in S : Min(S) <= y
<1>1. PICK n \in S : \A m \in S : ~ (<<m, n>> \in OpToRel(<, Nat))
  BY NatLessThanWellFounded, WFMin
<1>2. \A m \in S : ~ (m < n)
  BY <1>1, Zenon DEF OpToRel
<1>3. \A m \in S : n <= m
  BY <1>2
<1> QED
  BY <1>3 DEF Min

\* Of the members that can be the program, one is the only one there is.
LEMMA ProgramFound ==
  ASSUME NEW c, NEW t, Readable(t.data), c.asset.format \in Archives,
         t.member \in Extract(t.data.members, c.asset.format, command.exe)
  PROVE  ProgramIsUnambiguous(c, t)
<1> DEFINE ms == t.data.members
           format == c.asset.format
           want == command.exe
           examined == {i \in DOMAIN ms : ms[i].type # "dir"}
           regular == {i \in examined : ms[i].type = "file"}
           exact == {i \in regular : Wanted(ms[i], want)}
           programs == {i \in regular \ exact : ExecutableLike(ms[i])}
           files == {i \in DOMAIN ms : ms[i].type = "file"}
<1>1. /\ ms \in Seq(Range(ms))
      /\ \A i, j \in DOMAIN ms : ms[i].path = ms[j].path => ms[i].names = ms[j].names
  BY DEF Readable, Range
<1>2. files = regular /\ "file" # "dir"
  OBVIOUS
<1>3. PICK x \in FindTarget(ms, want) : t.member = Found(ms, format, x)
  BY DEF Extract
<1>4. IsFiniteSet(exact) /\ IsFiniteSet(programs)
  <2>1. DOMAIN ms = 1..Len(ms) /\ Len(ms) \in Nat
    BY <1>1
  <2>2. IsFiniteSet(DOMAIN ms)
    BY <2>1, FS_Interval
  <2>3. exact \subseteq DOMAIN ms /\ programs \subseteq DOMAIN ms
    OBVIOUS
  <2> HIDE DEF exact, programs, ms
  <2> QED
    BY <2>2, <2>3, FS_Subset
<1>5. /\ ~(Cardinality(exact) > 1)
      /\ exact # {} => x \in exact
      /\ exact = {} => x \in programs /\ Cardinality(programs) = 1
  BY <1>3 DEF FindTarget
<1>6. t.member \in files /\ ms[t.member].path = ms[x].path
  <2>0. x \in files
    BY <1>2, <1>5
  <2>1. CASE format = "zip"
    BY <1>3, <2>0, <2>1 DEF Found
  <2>2. CASE format # "zip"
    <3> DEFINE alike == {i \in DOMAIN ms : ms[i].type = "file" /\ ms[i].path = ms[x].path}
    <3>1. x \in alike
      BY <2>0
    <3>2. alike \subseteq Nat
      BY <1>1
    <3> HIDE DEF alike
    <3>3. Min(alike) \in alike
      BY <3>1, <3>2, MinIsLeast
    <3> QED
      BY <1>3, <2>2, <3>3 DEF Found, alike
  <2> QED
    BY <2>1, <2>2
<1>7. CASE exact # {}
  <2>1. PICK y : exact = {y}
    <3> HIDE DEF exact
    <3>1. Cardinality(exact) \in Nat
      BY <1>4, FS_CardinalityType
    <3>2. Cardinality(exact) # 0
      BY <1>4, <1>7, FS_EmptySet
    <3>3. Cardinality(exact) = 1
      BY <1>5, <3>1, <3>2
    <3> QED
      BY <1>4, <3>3, FS_Singleton
  <2>2. t.member \in exact
    <3>1. x \in exact /\ x \in DOMAIN ms /\ Wanted(ms[x], want)
      BY <1>5, <1>7
    <3>2. ms[t.member].names = ms[x].names
      BY <1>1, <1>6, <3>1
    <3> QED
      BY <1>2, <1>6, <3>1, <3>2 DEF Wanted
  <2>3. exact = {t.member} /\ exact = {i \in files : Wanted(ms[i], want)}
    BY <1>2, <2>1, <2>2
  <2> QED
    BY <1>7, <2>3 DEF ProgramIsUnambiguous
<1>8. CASE exact = {}
  <2>1. PICK y : programs = {y}
    <3> HIDE DEF exact, programs
    <3> QED
      BY <1>4, <1>5, <1>8, FS_Singleton
  <2>2. \A i \in files : ExecutableLike(ms[i]) => i = x
    BY <1>2, <1>5, <1>8, <2>1
  <2>3. {i \in files : Wanted(ms[i], want)} = {}
    BY <1>2, <1>8
  <2> QED
    BY <1>6, <2>2, <2>3 DEF ProgramIsUnambiguous
<1> QED
  BY <1>7, <1>8

-----------------------------------------------------------------------------
(* The choice of a release *)

\* A release keeps its tag and its flags when its assets are uploaded again.
Same(q, r) == q.tag = r.tag /\ q.draft = r.draft /\ q.prerelease = r.prerelease
Seen(r) == \E q \in Range(listed) : Same(q, r)
Ahead(r) == \E i \in DOMAIN host : i > (page - 1) * PerPage /\ Same(host[i], r)
Newest == command.policy.pin = {} /\ command.policy.mode = "semver"

Listing == \E rs : listed \in Seq(rs) /\ \A r \in rs : Hashed(r)

Typed ==
  /\ Listing /\ \A r \in atStart : Hashed(r)
  /\ page \in Nat \ {0} /\ command.current.rank \in Nat
  /\ pc = "begin" => page = 1
  /\ \A f \in file : Readable(f)
  /\ \A c \in chosen : c.asset \in c.assets /\ c.asset.data.id # None

\* While the list is read and nothing is deleted, every release that was there
\* at the start has been received or is on a page still to come.
Reading ==
  /\ pc \in {"tag", "latest"} => ~Newest
  /\ pc = "list" /\ ~deleted => \A r \in atStart : Seen(r) \/ Ahead(r)
  /\ pc = "select" /\ Newest /\ ~deleted => \A r \in atStart : Seen(r)

Wanting ==
  \A c \in chosen :
    /\ command.filter = {} => FittingWins(c)
    /\ LastResortOnly(c)
    /\ c.asset.format \in Archives => \A t \in taken : ProgramIsUnambiguous(c, t)

ChoiceInv == Typed /\ Reading /\ Wanting /\ SelectionIsNewest /\ DryRunIsHonest

\* A page holds what the host has between its ends, and one that is not full is
\* the last.
LEMMA BatchIsPage ==
  ASSUME Hosting, page \in Nat \ {0}
  PROVE  /\ \E rs : Batch \in Seq(rs) /\ \A r \in rs : Hashed(r)
         /\ \A i \in DOMAIN host : i > (page - 1) * PerPage =>
              \/ host[i] \in Range(Batch)
              \/ i > page * PerPage /\ ~(Len(Batch) < PerPage)
<1> DEFINE n == Len(host)
           lo == (page - 1) * PerPage
           hi == page * PerPage
           m == Min({hi, n})
<1> PICK rs : host \in Seq(rs) /\ \A r \in rs : Hashed(r)
  BY DEF Hosting
<1>1. n \in Nat /\ DOMAIN host = 1..n /\ \A i \in 1..n : host[i] \in rs
  OBVIOUS
<1>2. lo \in Nat /\ hi \in Nat /\ PerPage \in Nat \ {0} /\ hi = lo + PerPage
  <2>1. PerPage \in Nat \ {0}
    BY FetchAssumption
  <2>2. page - 1 \in Nat /\ page = (page - 1) + 1
    OBVIOUS
  <2>3. lo \in Nat /\ hi \in Nat
    BY <2>1, <2>2
  <2>4. \A p, q \in Nat : (p + 1) * q = p * q + q
    OBVIOUS
  <2> QED
    BY <2>1, <2>2, <2>3, <2>4
<1>3. Batch = SubSeq(host, lo + 1, m)
  BY DEF Batch
<1> HIDE DEF n, lo, hi
<1>4. m \in {hi, n} /\ m <= hi /\ m <= n
  <2>1. {hi, n} \subseteq Nat /\ {hi, n} # {}
    BY <1>1, <1>2
  <2> QED
    BY <2>1, MinIsLeast
<1> HIDE DEF m
<1>5. \A i \in (lo + 1)..m : host[i] \in rs
  BY <1>1, <1>2, <1>4
<1>6. /\ Batch \in Seq(rs)
      /\ Len(Batch) = IF lo + 1 <= m THEN m - (lo + 1) + 1 ELSE 0
      /\ \A k \in 1..(m - (lo + 1) + 1) : Batch[k] = host[(lo + 1) + k - 1]
  BY <1>1, <1>2, <1>3, <1>4, <1>5, SubSeqProperties
<1>7. ASSUME NEW i \in DOMAIN host, i > lo, i <= m
      PROVE  host[i] \in Range(Batch)
  <2>1. i - lo \in 1..(m - (lo + 1) + 1) /\ (lo + 1) + (i - lo) - 1 = i /\ lo + 1 <= m
    BY <1>1, <1>2, <1>4, <1>7
  <2>2. Batch[i - lo] = host[i] /\ i - lo \in DOMAIN Batch
    <3>1. Batch[i - lo] = host[i]
      BY <1>6, <2>1
    <3>2. i - lo \in 1..Len(Batch)
      BY <1>2, <1>4, <1>6, <2>1
    <3> QED
      BY <1>6, <3>1, <3>2
  <2> QED
    BY <2>2 DEF Range
<1>8. ASSUME NEW i \in DOMAIN host, i > m
      PROVE  i > hi /\ ~(Len(Batch) < PerPage)
  <2>1. m = hi
    BY <1>1, <1>2, <1>4, <1>8
  <2> QED
    BY <1>1, <1>2, <1>6, <1>8, <2>1
<1>9. \A i \in DOMAIN host : i <= m \/ i > m
  BY <1>1, <1>2, <1>4
<1> QED
  BY <1>6, <1>7, <1>8, <1>9 DEF lo, hi

LEMMA VerdictIsKnown ==
  Selected.verdict \in {"unsupported", "current", "outdated"}
BY DEF Selected, Select, selectPin, selectSemver, selectLegacy, Verdict

\* An update goes to a release of the list; by semantic version, to one that no
\* candidate is above and that is above the current one.
LEMMA SelectedIsListed ==
  ASSUME Typed, Selected.verdict = "outdated"
  PROVE  LET k == Min({i \in DOMAIN listed : listed[i].tag = Selected.tag})
         IN  /\ listed[k] \in Range(listed) /\ Hashed(listed[k])
             /\ listed[k].tag = Selected.tag
             /\ Newest =>
                  /\ ~command.current.baseline => Selected.tag.rank > command.current.rank
                  /\ \A r \in Candidates(listed, command.policy.channel) : r.tag.rank <= Selected.tag.rank
<1> DEFINE same == {i \in DOMAIN listed : listed[i].tag = Selected.tag}
           channel == command.policy.channel
<1>0. PICK rs : listed \in Seq(rs) /\ \A r \in rs : Hashed(r)
  BY DEF Typed, Listing
<1>1. DOMAIN listed \subseteq Nat /\ \A i \in DOMAIN listed : listed[i] \in rs
  BY <1>0
<1>2. \A r \in Range(listed) : Hashed(r) /\ r.tag.rank \in Nat
  BY <1>0, <1>1 DEF Range, Hashed
<1>3. ASSUME command.policy.pin # {}
      PROVE  \E r \in Range(listed) : r.tag = Selected.tag
  BY <1>3 DEF Selected, Select, selectPin, Verdict
<1>4. ASSUME Newest
      PROVE  /\ \E r \in Range(listed) : r.tag = Selected.tag
             /\ ~command.current.baseline => Selected.tag.rank > command.current.rank
             /\ \A r \in Candidates(listed, channel) : r.tag.rank <= Selected.tag.rank
  <2> DEFINE t == CHOOSE h \in Highest(listed, channel) : TRUE
  <2>1. Selected = selectSemver(command.current, listed, channel)
    BY <1>4 DEF Newest, Selected, Select
  <2>2. Highest(listed, channel) # {} /\ Selected.tag = t
    BY <2>1 DEF selectSemver, Verdict
  <2>3. t \in Highest(listed, channel)
    BY <2>2
  <2>4. PICK c \in Candidates(listed, channel) :
          c.tag = t /\ \A d \in Candidates(listed, channel) : ~Above(d, c)
    BY <2>3 DEF Highest
  <2>5. Candidates(listed, channel) \subseteq Range(listed)
    BY DEF Candidates
  <2>6. \A r \in Candidates(listed, channel) : r.tag.rank <= t.rank
    <3>1. c.tag.rank \in Nat /\ c.tag.rank = t.rank
      BY <1>2, <2>4, <2>5
    <3>2. ASSUME NEW r \in Candidates(listed, channel)
          PROVE  r.tag.rank <= t.rank
      <4>1. r.tag.rank \in Nat /\ ~(r.tag.rank > c.tag.rank)
        BY <1>2, <2>4, <2>5 DEF Above
      <4> HIDE DEF t
      <4> QED
        BY <3>1, <4>1
    <3> QED
      BY <3>2
  <2>7. ~command.current.baseline => t.rank > command.current.rank
    <3>1. t.rank \in Nat /\ command.current.rank \in Nat
      BY <1>2, <2>4, <2>5 DEF Typed
    <3>2. ~command.current.baseline => ~(t.rank < command.current.rank) /\ t.rank # command.current.rank
      <4> HIDE DEF t
      <4>1. Selected.verdict = (IF command.current.baseline THEN "outdated"
                  ELSE IF ~IsSemanticTag(command.current) \/ t.rank < command.current.rank THEN "unsupported"
                  ELSE IF t.rank = command.current.rank THEN "current" ELSE "outdated")
        BY <2>1, <2>2 DEF selectSemver, Verdict, t
      <4> QED
        BY <4>1
    <3> QED
      BY <3>1, <3>2
  <2> QED
    BY <2>2, <2>4, <2>5, <2>6, <2>7
<1>5. ASSUME command.policy.pin = {}, command.policy.mode # "semver"
      PROVE  \E r \in Range(listed) : r.tag = Selected.tag
  <2> DEFINE open == {i \in DOMAIN listed : Open(listed[i], channel)}
  <2>1. Selected = selectLegacy(command.current, listed, channel)
    BY <1>5 DEF Selected, Select
  <2>2. open # {} /\ Selected.tag = listed[Min(open)].tag
    BY <2>1 DEF selectLegacy, Verdict
  <2>3. open \subseteq Nat /\ open \subseteq DOMAIN listed
    BY <1>1
  <2> HIDE DEF open
  <2>4. Min(open) \in DOMAIN listed
    BY <2>2, <2>3, MinIsLeast
  <2> QED
    BY <2>2, <2>4 DEF Range
<1>6. \E r \in Range(listed) : r.tag = Selected.tag
  BY <1>3, <1>4, <1>5 DEF Newest
<1>7. same # {} /\ same \subseteq Nat
  BY <1>1, <1>6 DEF Range
<1>8. Min(same) \in same
  <2> HIDE DEF same
  <2> QED
    BY <1>7, MinIsLeast
<1>9. listed[Min(same)] \in Range(listed) /\ listed[Min(same)].tag = Selected.tag
  BY <1>8 DEF Range
<1> QED
  BY <1>2, <1>4, <1>9
-----------------------------------------------------------------------------
(* The steps of the choice *)

LEMMA TypedStays ==
  ASSUME ChoiceInv, FetchInv, [Next]_vars
  PROVE  Typed'
<1>0. Typed /\ Hosting
  BY DEF ChoiceInv, FetchInv
<1>1. CASE Begin
  <2>1. \A r \in Range(host) : Hashed(r)
    BY <1>0 DEF Hosting, Range
  <2> QED
    BY <1>0, <1>1, <2>1 DEF Begin, Typed, Listing, Done, Asks
<1>2. CASE ListPage
  <2>1. PICK rs : listed \in Seq(rs) /\ \A r \in rs : Hashed(r)
    BY <1>0 DEF Typed, Listing
  <2>2. PICK bs : Batch \in Seq(bs) /\ \A r \in bs : Hashed(r)
    BY <1>0, BatchIsPage DEF Typed
  <2>3. listed' \in Seq(rs \union bs)
    BY <1>2, <2>1, <2>2 DEF ListPage
  <2>4. Listing'
    BY <2>1, <2>2, <2>3 DEF Listing
  <2>5. page' \in Nat \ {0} /\ pc' # "begin" /\ UNCHANGED <<command, file, chosen, atStart>>
    BY <1>0, <1>2 DEF ListPage, Typed, Done
  <2> QED
    BY <1>0, <2>4, <2>5 DEF Typed
<1>3. CASE AskOne
  <2>1. Listing'
    <3>1. CASE Answers = {}
      BY <1>0, <1>3, <3>1 DEF AskOne, Typed, Listing
    <3>2. CASE Answers # {}
      <4>1. PICK rs : host \in Seq(rs) /\ \A r \in rs : Hashed(r)
        BY <1>0 DEF Hosting
      <4>2. Answers \subseteq DOMAIN host /\ DOMAIN host \subseteq Nat
        BY <4>1 DEF Answers
      <4>3. Min(Answers) \in DOMAIN host
        BY <3>2, <4>2, MinIsLeast
      <4>4. listed' = <<host[Min(Answers)]>>
        BY <1>3, <3>2 DEF AskOne
      <4>5. listed' \in Seq(rs)
        BY <4>1, <4>3, <4>4
      <4> QED
        BY <4>1, <4>5 DEF Listing
    <3> QED
      BY <3>1, <3>2
  <2>2. pc' # "begin" /\ UNCHANGED <<command, file, chosen, atStart, page>>
    BY <1>3 DEF AskOne, Done
  <2> QED
    BY <1>0, <2>1, <2>2 DEF Typed
<1>4. CASE SelectRelease
  <2> DEFINE k == Min({i \in DOMAIN listed : listed[i].tag = Selected.tag})
             all == Pick(listed[k].assets, command.target, command.filter)
  <2>1. pc' # "begin" /\ UNCHANGED <<command, file, listed, atStart, page>>
    BY <1>4 DEF SelectRelease, Done
  <2>2. CASE chosen' = chosen
    BY <1>0, <2>1, <2>2 DEF Typed, Listing
  <2>3. CASE chosen' # chosen
    <3>1. /\ Selected.verdict = "outdated"
          /\ chosen' = {[tag |-> listed[k].tag, asset |-> a, assets |-> listed[k].assets] :
                          a \in {x \in all : x.url /\ x.size >= 0}}
      BY <1>4, <2>3 DEF SelectRelease
    <3>2. Hashed(listed[k])
      BY <1>0, <3>1, SelectedIsListed
    <3>3. all \subseteq listed[k].assets
      BY PicksAmong
    <3> HIDE DEF all, k
    <3>4. \A c \in chosen' : c.asset \in listed[k].assets /\ c.assets = listed[k].assets
      BY <3>1, <3>3
    <3>5. \A c \in chosen' : c.asset \in c.assets /\ c.asset.data.id # None
      BY <3>2, <3>4 DEF Hashed, Readable
    <3> QED
      BY <1>0, <2>1, <3>5 DEF Typed, Listing
  <2> QED
    BY <2>2, <2>3
<1>5. CASE \E c \in chosen : \E d \in Served(c, c.asset) \union {Damaged} : DownloadAsset(c, d)
  <2>1. PICK c \in chosen : \E d \in Served(c, c.asset) \union {Damaged} : DownloadAsset(c, d)
    BY <1>5
  <2>2. PICK d \in Served(c, c.asset) \union {Damaged} : DownloadAsset(c, d)
    BY <2>1
  <2>3. Readable(d)
    BY <1>0, <2>2, ServedAreReadable
  <2>4. file' = {d} /\ pc' # "begin" /\ UNCHANGED <<command, chosen, listed, atStart, page>>
    BY <2>2 DEF DownloadAsset
  <2> QED
    BY <1>0, <2>3, <2>4 DEF Typed, Listing
<1>6. CASE Overwrite
  <2>1. Readable(Damaged)
    BY ContentAssumption
  <2> QED
    BY <1>0, <1>6, <2>1 DEF Overwrite, Typed, Listing
<1>7. CASE /\ file' \subseteq file /\ UNCHANGED <<command, chosen, listed, atStart, page>>
           /\ pc' = "begin" => pc = "begin"
  BY <1>0, <1>7 DEF Typed, Listing
<1>8. CASE UNCHANGED <<command, pc, client>>
  BY <1>0, <1>8 DEF Typed, Listing, client
<1> QED
  BY <1>1, <1>2, <1>3, <1>4, <1>5, <1>6, <1>7, <1>8 DEF Next, Checking, Installing, Others, RequestFails, DryRun,
     DownloadSums, Verify, ExtractAsset, Recheck, Done, Publish, Delete, Upload, vars

\* A publication moves a release to the next place, another upload leaves it
\* where it is.
LEMMA AheadStays ==
  ASSUME Hosting, page \in Nat \ {0}, UNCHANGED page, NEW r, Ahead(r),
         \/ \E q \in NewReleases : Publish(q)
         \/ \E i \in DOMAIN host : \E a \in host[i].assets, d \in NewData : Upload(i, a, d)
  PROVE  Ahead(r)'
<1>1. PICK rs : host \in Seq(rs) /\ \A q \in rs : Hashed(q)
  BY DEF Hosting
<1>2. PICK j \in DOMAIN host : j > (page - 1) * PerPage /\ Same(host[j], r)
  BY DEF Ahead
<1>3. (page - 1) * PerPage \in Nat /\ j \in Nat
  <2>1. page - 1 \in Nat /\ PerPage \in Nat
    BY FetchAssumption
  <2> QED
    BY <1>1, <2>1
<1> DEFINE lo == (page - 1) * PerPage
<1> HIDE DEF lo
<1>4. CASE \E q \in NewReleases : Publish(q)
  <2>1. PICK q : host' = <<q>> \o host
    BY <1>4 DEF Publish
  <2>2. j + 1 \in DOMAIN host' /\ host'[j + 1] = host[j]
    BY <1>1, <2>1
  <2>3. j + 1 > lo
    BY <1>2, <1>3 DEF lo
  <2> QED
    BY <1>2, <2>2, <2>3 DEF Ahead, lo
<1>5. CASE \E i \in DOMAIN host : \E a \in host[i].assets, d \in NewData : Upload(i, a, d)
  <2>1. PICK i \in DOMAIN host : \E v : host' = [host EXCEPT ![i] = [host[i] EXCEPT !.assets = v]]
    BY <1>5 DEF Upload
  <2>2. j \in DOMAIN host' /\ Same(host'[j], host[j])
    BY <2>1 DEF Same
  <2>3. Same(host'[j], r)
    BY <1>2, <2>2 DEF Same
  <2> QED
    BY <1>2, <2>2, <2>3 DEF Ahead
<1> QED
  BY <1>4, <1>5

LEMMA ReadingStays ==
  ASSUME ChoiceInv, FetchInv, [Next]_vars
  PROVE  Reading'
<1>0. Typed /\ Reading /\ Hosting
  BY DEF ChoiceInv, FetchInv
<1>1. CASE Begin
  <2>1. pc = "begin" /\ page = 1 /\ UNCHANGED <<command, host, deleted, page, listed>> /\ atStart' = Range(host)
    BY <1>0, <1>1 DEF Begin, Typed, world
  <2>2. pc' = "done" \/ pc' = Asks(command.policy)
    BY <1>1 DEF Begin, Done
  <2>3. pc' \in {"tag", "latest"} => ~Newest'
    BY <2>1, <2>2 DEF Asks, Newest
  <2>4. \A r \in atStart' : Ahead(r)'
    <3>1. PICK rs : host \in Seq(rs) /\ \A q \in rs : Hashed(q)
      BY <1>0 DEF Hosting
    <3>2. (page' - 1) * PerPage = 0 /\ DOMAIN host \subseteq Nat \ {0}
      BY <2>1, <3>1, FetchAssumption
    <3>3. \A i \in DOMAIN host : i > (page' - 1) * PerPage
      BY <3>2
    <3>4. \A r \in Range(host) : \E i \in DOMAIN host : Same(host[i], r)
      BY DEF Range, Same
    <3> QED
      BY <2>1, <3>3, <3>4 DEF Ahead
  <2> QED
    BY <2>2, <2>3, <2>4 DEF Reading, Asks
<1>2. CASE ListPage
  <2>1. /\ pc = "list" /\ listed' = listed \o Batch /\ page' = page + 1 /\ UNCHANGED <<command, host, deleted, atStart>>
        /\ IF Len(Batch) < PerPage THEN pc' = "select" ELSE pc' \in {"done", "list"}
    BY <1>2 DEF ListPage, Done, world
  <2>2. page \in Nat \ {0}
    BY <1>0 DEF Typed
  <2>3. \A q \in Range(listed) \union Range(Batch) : q \in Range(listed')
    <3>1. PICK rs : listed \in Seq(rs) /\ \A r \in rs : Hashed(r)
      BY <1>0 DEF Typed, Listing
    <3>2. PICK bs : Batch \in Seq(bs) /\ \A r \in bs : Hashed(r)
      BY <1>0, <2>2, BatchIsPage
    <3> DEFINE batch == Batch
    <3>3. batch \in Seq(bs) /\ listed' = listed \o batch
      BY <2>1, <3>2
    <3> HIDE DEF batch
    <3>4. ASSUME NEW i \in DOMAIN batch
          PROVE  Len(listed) + i \in DOMAIN listed' /\ listed'[Len(listed) + i] = batch[i]
      BY <3>1, <3>3
    <3>5. ASSUME NEW i \in DOMAIN listed
          PROVE  i \in DOMAIN listed' /\ listed'[i] = listed[i]
      BY <3>1, <3>3
    <3>6. Range(batch) \subseteq Range(listed')
      BY <3>4 DEF Range
    <3>7. Range(listed) \subseteq Range(listed')
      BY <3>5 DEF Range
    <3> QED
      BY <3>6, <3>7 DEF batch
  <2>4. ASSUME ~deleted, NEW r \in atStart
        PROVE  Seen(r)' \/ (Ahead(r)' /\ ~(Len(Batch) < PerPage))
    <3>1. CASE Seen(r)
      <4>1. PICK q \in Range(listed) : Same(q, r)
        BY <3>1 DEF Seen
      <4> QED
        BY <2>3, <4>1 DEF Seen
    <3>2. CASE Ahead(r)
      <4>1. PICK i \in DOMAIN host : i > (page - 1) * PerPage /\ Same(host[i], r)
        BY <3>2 DEF Ahead
      <4>2. CASE host[i] \in Range(Batch)
        BY <2>3, <4>1, <4>2 DEF Seen
      <4>3. CASE i > page * PerPage /\ ~(Len(Batch) < PerPage)
        <5>1. (page' - 1) * PerPage = page * PerPage
          BY <2>1, <2>2
        <5> QED
          BY <2>1, <4>1, <4>3, <5>1 DEF Ahead
      <4> QED
        BY <1>0, <2>2, <4>1, <4>2, <4>3, BatchIsPage
    <3> QED
      BY <1>0, <2>1, <2>4, <3>1, <3>2 DEF Reading
  <2> QED
    BY <2>1, <2>4 DEF Reading
<1>3. CASE AskOne
  <2>1. ~Newest /\ pc' \in {"done", "select"} /\ UNCHANGED command
    BY <1>0, <1>3 DEF AskOne, Done, Reading
  <2> QED
    BY <2>1 DEF Reading, Newest
<1>4. CASE pc' \notin {"tag", "latest", "list", "select"}
  BY <1>4 DEF Reading
<1>5. CASE \/ \E q \in NewReleases : Publish(q)
           \/ \E i \in DOMAIN host : \E a \in host[i].assets, d \in NewData : Upload(i, a, d)
  <2>1. UNCHANGED <<command, deleted, pc, page, listed, atStart>>
    BY <1>5 DEF Publish, Upload, client
  <2>2. \A r : Seen(r) => Seen(r)'
    BY <2>1 DEF Seen
  <2>3. \A r : Ahead(r) => Ahead(r)'
    BY <1>0, <1>5, <2>1, AheadStays DEF Typed
  <2> QED
    BY <1>0, <2>1, <2>2, <2>3 DEF Reading, Newest
<1>6. CASE \E i \in DOMAIN host : Delete(i)
  <2>1. deleted' = TRUE /\ UNCHANGED <<command, pc>>
    BY <1>6 DEF Delete
  <2> QED
    BY <1>0, <2>1 DEF Reading, Newest
<1>7. CASE UNCHANGED <<command, host, deleted, pc, page, listed, atStart>>
  BY <1>0, <1>7 DEF Reading, Newest, Seen, Ahead
<1> QED
  BY <1>1, <1>2, <1>3, <1>4, <1>5, <1>6, <1>7 DEF Next, Checking, Installing, Others, RequestFails, SelectRelease, DryRun,
     DownloadAsset, DownloadSums, Verify, ExtractAsset, Recheck, Overwrite, Done, vars, client, world

\* What the selection of a release leaves.
LEMMA Choosing ==
  ASSUME SelectRelease, NEW c \in chosen', chosen = {}
  PROVE  LET k == Min({i \in DOMAIN listed : listed[i].tag = Selected.tag})
         IN  /\ Selected.verdict = "outdated"
             /\ c.tag = listed[k].tag /\ c.assets = listed[k].assets
             /\ c.asset \in Pick(listed[k].assets, command.target, command.filter)
BY DEF SelectRelease

LEMMA WantingStays ==
  ASSUME ChoiceInv, FetchInv, [Next]_vars
  PROVE  Wanting'
<1>0. Typed /\ Wanting /\ Holds
  BY DEF ChoiceInv, FetchInv
<1>1. CASE SelectRelease
  <2>1. chosen = {} /\ taken' = {} /\ UNCHANGED command
    BY <1>0, <1>1 DEF SelectRelease, Holds, Before
  <2>2. ASSUME NEW c \in chosen', command.filter = {}
        PROVE  FittingWins(c)
    <3> DEFINE k == Min({i \in DOMAIN listed : listed[i].tag = Selected.tag})
    <3>1. c.assets = listed[k].assets /\ c.asset \in Pick(listed[k].assets, command.target, {})
      BY <1>1, <2>1, <2>2, Choosing
    <3> HIDE DEF k
    <3> QED
      BY <3>1, PickFits DEF FittingWins
  <2>3. ASSUME NEW c \in chosen'
        PROVE  LastResortOnly(c)
    <3> DEFINE k == Min({i \in DOMAIN listed : listed[i].tag = Selected.tag})
    <3>1. c.assets = listed[k].assets /\ c.asset \in Pick(listed[k].assets, command.target, command.filter)
      BY <1>1, <2>1, <2>3, Choosing
    <3> HIDE DEF k
    <3>2. c.asset \in Pool(c.assets, command.target)
      BY <3>1, PicksFromPool
    <3> QED
      BY <3>2, PoolIsLastResort DEF LastResortOnly
  <2> QED
    BY <2>1, <2>2, <2>3 DEF Wanting, FittingWins, LastResortOnly
<1>2. CASE \E c \in chosen, f \in file : ExtractAsset(c, f)
  <2>1. PICK c \in chosen, f \in file : ExtractAsset(c, f)
    BY <1>2
  <2>2. chosen = {c} /\ taken = {} /\ UNCHANGED <<command, chosen>> /\ Readable(f)
    BY <1>0, <2>1 DEF ExtractAsset, Holds, Before, AtMostOne, Typed
  <2>3. \A t \in taken' : t.data = f /\ t.member \in Extract(f.members, FileFormat(c.asset), command.exe)
    BY <2>1, <2>2 DEF ExtractAsset
  <2>4. ASSUME c.asset.format \in Archives, NEW t \in taken'
        PROVE  ProgramIsUnambiguous(c, t)
    <3>1. FileFormat(c.asset) = c.asset.format
      BY <2>4 DEF FileFormat, Archives, Supported
    <3> QED
      BY <2>2, <2>3, <2>4, <3>1, ProgramFound
  <2> QED
    BY <1>0, <2>2, <2>4 DEF Wanting, FittingWins, LastResortOnly, ProgramIsUnambiguous
<1>3. CASE UNCHANGED <<command, chosen, taken>>
  BY <1>0, <1>3 DEF Wanting, FittingWins, LastResortOnly, ProgramIsUnambiguous
<1> QED
  BY <1>1, <1>2, <1>3 DEF Next, Checking, Installing, Others, Begin, ListPage, AskOne, RequestFails, DryRun, DownloadAsset,
     DownloadSums, Verify, Recheck, Publish, Delete, Upload, Overwrite, vars, client

LEMMA SelectionStays ==
  ASSUME ChoiceInv, FetchInv, [Next]_vars
  PROVE  SelectionIsNewest'
<1>0. Typed /\ Reading /\ SelectionIsNewest /\ Holds
  BY DEF ChoiceInv, FetchInv
<1>1. CASE SelectRelease
  <2>1. pc = "select" /\ chosen = {} /\ UNCHANGED <<command, deleted, atStart>>
    BY <1>0, <1>1 DEF SelectRelease, Holds, Before, world
  <2>2. ASSUME NEW c \in chosen', Newest
        PROVE  /\ ~command.current.baseline => c.tag.rank > command.current.rank
               /\ ~deleted => \A r \in atStart :
                    r \in Candidates(<<r>>, command.policy.channel) => r.tag.rank <= c.tag.rank
    <3>1. Selected.verdict = "outdated"
      BY <1>1, <2>1, Choosing
    <3>2. c.tag = Selected.tag
      BY <1>0, <1>1, <2>1, <3>1, Choosing, SelectedIsListed
    <3>3. /\ ~command.current.baseline => c.tag.rank > command.current.rank
          /\ \A r \in Candidates(listed, command.policy.channel) : r.tag.rank <= c.tag.rank
      BY <1>0, <2>2, <3>1, <3>2, SelectedIsListed
    <3>4. ASSUME ~deleted, NEW r \in atStart, r \in Candidates(<<r>>, command.policy.channel)
          PROVE  r.tag.rank <= c.tag.rank
      <4>1. PICK q \in Range(listed) : Same(q, r)
        BY <1>0, <2>1, <2>2, <3>4 DEF Reading, Seen
      <4>2. q \in Candidates(listed, command.policy.channel)
        BY <3>4, <4>1 DEF Candidates, Open, Same
      <4> QED
        BY <3>3, <4>1, <4>2 DEF Same
    <3> QED
      BY <3>3, <3>4
  <2> QED
    BY <2>1, <2>2 DEF SelectionIsNewest, Newest
<1>2. CASE Begin
  <2>1. chosen' = {}
    BY <1>0, <1>2 DEF Begin, Holds, Before
  <2> QED
    BY <2>1 DEF SelectionIsNewest
<1>3. CASE UNCHANGED <<command, chosen, atStart, deleted>>
  BY <1>0, <1>3 DEF SelectionIsNewest
<1>4. CASE \E i \in DOMAIN host : Delete(i)
  BY <1>0, <1>4 DEF SelectionIsNewest, Delete, client
<1> QED
  BY <1>1, <1>2, <1>3, <1>4 DEF Next, Checking, Installing, Others, ListPage, AskOne, RequestFails, DryRun, DownloadAsset,
     DownloadSums, Verify, ExtractAsset, Recheck, Publish, Upload, Overwrite, vars, client, world

LEMMA DryRunStays ==
  ASSUME ChoiceInv, FetchInv, [Next]_vars
  PROVE  DryRunIsHonest'
<1>0. Typed /\ DryRunIsHonest /\ Holds
  BY DEF ChoiceInv, FetchInv
<1>1. CASE \E c \in chosen : DryRun(c)
  <2>1. PICK c \in chosen : DryRun(c)
    BY <1>1
  <2> DEFINE needed == ChecksumAssets(c.asset, c.assets)
             some == (UNION {{a.data.id, a.digest} : a \in c.assets}) \ {None}
             offered == IF needed = {} THEN {{}} ELSE {{[asset |-> s, data |-> s.data]} : s \in needed}
             accepted == \E id \in some, s \in offered : resolvePublisherChecksum(id, c, s) # "refused"
             refuses == needed = {} /\ c.asset.digest = None /\ ~command.unverified
  <2>2. /\ chosen = {c} /\ UNCHANGED <<command, chosen>> /\ c.asset \in c.assets /\ c.asset.data.id # None
        /\ out' = [out EXCEPT !.status = IF refuses THEN "would refuse" ELSE "would upgrade"]
    BY <1>0, <2>1 DEF DryRun, Done, Holds, AtMostOne, Typed
  <2>3. out'.status = IF refuses THEN "would refuse" ELSE "would upgrade"
    BY <1>0, <2>2 DEF Holds
  <2>4. ASSUME refuses, NEW id \in some, NEW s \in offered
        PROVE  resolvePublisherChecksum(id, c, s) = "refused"
    <3>1. id # None /\ s = {}
      BY <2>4
    <3> HIDE DEF some, offered
    <3> QED
      BY <2>4, <3>1 DEF resolvePublisherChecksum
  <2> DEFINE known == UNION {{a.data.id, a.digest} : a \in c.assets}
  <2>8. c.asset.data.id \in known /\ c.asset.digest \in known /\ some = known \ {None}
    <3>1. {c.asset.data.id, c.asset.digest} \in {{a.data.id, a.digest} : a \in c.assets}
      BY <2>2
    <3> QED
      BY <3>1
  <2> HIDE DEF known
  <2>5. ASSUME ~refuses, needed = {}
        PROVE  accepted
    <3>1. {} \in offered
      BY <2>5
    <3>2. CASE c.asset.digest # None
      <4>1. c.asset.digest \in some
        BY <2>8, <3>2
      <4>2. resolvePublisherChecksum(c.asset.digest, c, {}) # "refused"
        BY DEF resolvePublisherChecksum
      <4> QED
        BY <3>1, <4>1, <4>2
    <3>3. CASE c.asset.digest = None
      <4>1. c.asset.data.id \in some
        BY <2>2, <2>8
      <4>2. resolvePublisherChecksum(c.asset.data.id, c, {}) # "refused"
        BY <2>5, <3>3 DEF resolvePublisherChecksum
      <4> QED
        BY <3>1, <4>1, <4>2
    <3> QED
      BY <3>2, <3>3
  <2> HIDE DEF some, offered
  <2>6. refuses => ~accepted
    BY <2>4
  <2> HIDE DEF accepted
  <2>7. /\ out'.status = "would refuse" => ~accepted
        /\ out'.status = "would upgrade" /\ needed = {} => accepted
    BY <2>3, <2>5, <2>6
  <2> QED
    <3>1. \A id, s : resolvePublisherChecksum(id, c, s)' = resolvePublisherChecksum(id, c, s)
      BY <2>2 DEF resolvePublisherChecksum
    <3>2. accepted <=> \E id \in some, s \in offered : resolvePublisherChecksum(id, c, s)' # "refused"
      BY <3>1 DEF accepted
    <3> QED
      BY <2>2, <2>7, <3>2, Zenon DEF DryRunIsHonest, some, offered
<1>2. CASE UNCHANGED <<command, pc, chosen, out>>
  BY <1>0, <1>2 DEF DryRunIsHonest, resolvePublisherChecksum
<1>3. CASE /\ pc # "done"
           /\ \/ pc' # "done"
              \/ \E v : v \notin {"would refuse", "would upgrade"} /\ out' = [out EXCEPT !.status = v]
  <2>1. pc' = "done" => out'.status \notin {"would refuse", "would upgrade"}
    BY <1>0, <1>3 DEF Holds
  <2> QED
    BY <2>1 DEF DryRunIsHonest
<1>4. Begin \/ ListPage \/ AskOne \/ RequestFails => pc # "done" /\ (pc' # "done" \/
        \E v : v \notin {"would refuse", "would upgrade"} /\ out' = [out EXCEPT !.status = v])
  BY DEF Begin, ListPage, AskOne, RequestFails, Done, Asks
<1>5. SelectRelease => pc # "done" /\ (pc' # "done" \/
        \E v : v \notin {"would refuse", "would upgrade"} /\ out' = [out EXCEPT !.status = v])
  BY VerdictIsKnown DEF SelectRelease, Done
<1>6. \A c \in chosen, f \in file : Verify(c, f) \/ ExtractAsset(c, f) => pc # "done" /\ (pc' # "done" \/
        \E v : v \notin {"would refuse", "would upgrade"} /\ out' = [out EXCEPT !.status = v])
  BY DEF Verify, ExtractAsset, Done
<1>7. \A f \in file : Recheck(f) => pc # "done" /\ (pc' # "done" \/
        \E v : v \notin {"would refuse", "would upgrade"} /\ out' = [out EXCEPT !.status = v])
  BY DEF Recheck, Done
<1>8. \A c, s, d : DownloadAsset(c, d) \/ DownloadSums(c, s, d) => pc # "done" /\ (pc' # "done" \/
        \E v : v \notin {"would refuse", "would upgrade"} /\ out' = [out EXCEPT !.status = v])
  BY DEF DownloadAsset, DownloadSums, Done
<1>9. Others \/ UNCHANGED vars => UNCHANGED <<command, pc, chosen, out>>
  BY DEF Others, Publish, Delete, Upload, Overwrite, client, vars
<1> QED
  BY <1>1, <1>2, <1>3, <1>4, <1>5, <1>6, <1>7, <1>8, <1>9 DEF Next, Checking, Installing

-----------------------------------------------------------------------------

\* The invariant of the choice holds at the start, and every step keeps it, given
\* that of the evidence.
THEOREM ChoiceInductive == Spec => []ChoiceInv
<1>1. Init => ChoiceInv
  <2> SUFFICES ASSUME Init
               PROVE  ChoiceInv
    OBVIOUS
  <2>1. Typed
    <3>1. <<>> \in Seq({})
      OBVIOUS
    <3>2. listed \in Seq({})
      BY <3>1 DEF Init
    <3>3. Listing
      BY <3>2 DEF Listing
    <3> QED
      BY <3>3 DEF Init, Typed
  <2>2. Reading /\ Wanting /\ SelectionIsNewest /\ DryRunIsHonest
    BY DEF Init, Reading, Wanting, SelectionIsNewest, DryRunIsHonest
  <2> QED
    BY <2>1, <2>2 DEF ChoiceInv
<1>2. ChoiceInv /\ FetchInv /\ [Next]_vars => ChoiceInv'
  BY TypedStays, ReadingStays, WantingStays, SelectionStays, DryRunStays DEF ChoiceInv
<1> QED
  BY <1>1, <1>2, FetchInductive, PTL DEF Spec

\* A semantic upgrade never goes down, and never below a candidate that was there
\* when the list was begun, whatever is published between its pages, as long as
\* no release is deleted.
THEOREM SelectionStaysNewest == Spec => []SelectionIsNewest
<1>1. ChoiceInv => SelectionIsNewest
  BY DEF ChoiceInv
<1> QED
  BY <1>1, ChoiceInductive, PTL

\* An asset for this machine is not passed over for one that is not, no filter
\* promotes a last resort, and of an archive only the one program there is gets
\* installed.
THEOREM InstalledStaysWanted == Spec => []InstalledIsWanted
<1>1. ChoiceInv => InstalledIsWanted
  BY DEF ChoiceInv, Wanting, InstalledIsWanted
<1> QED
  BY <1>1, ChoiceInductive, PTL

\* A dry run refuses only what every download would have been refused for, and
\* promises only what some download is accepted for.
THEOREM DryRunStaysHonest == Spec => []DryRunIsHonest
<1>1. ChoiceInv => DryRunIsHonest
  BY DEF ChoiceInv
<1> QED
  BY <1>1, ChoiceInductive, PTL
=============================================================================
