------------------------------ MODULE Revoker ------------------------------
(***************************************************************************)
(* The revocation list of one server (ext/revoker/revoker.go): a map of    *)
(* revoked subjects and a row of tries of revoked prefixes, the newest     *)
(* first, one more every rotation and at most Keep of them.  Revocations   *)
(* reach the server as entries of two fanout streams (RedisStream), are    *)
(* handed over in order and applied by the goroutines of the pool.         *)
(*                                                                         *)
(* The list modelled is the one NewRevoker makes.  published and stored    *)
(* are history.                                                            *)
(***************************************************************************)
EXTENDS Trie

CONSTANTS
    Scope,      \* what is revoked: [stem, star], star for a trailing "*"
    Subject,    \* subjects of tokens
    Worker,     \* goroutines of the pool
    Keep,       \* revokeKeepBuckets (24 in the code)
    MaxTime, MaxEpoch, MaxRevoke,   \* bounds
    NoWork

Time  == 0 .. MaxTime
Epoch == 0 .. MaxEpoch

Revocation == [star : BOOLEAN, scope : {sc.stem : sc \in Scope}, when : Time]

ASSUME RevokerAssumption ==
    /\ {Keep, MaxTime, MaxEpoch, MaxRevoke} \subseteq Nat
    /\ Keep > 0
    /\ Scope \subseteq [stem : Seq(Char), star : BOOLEAN] /\ Subject \subseteq Seq(Char)
    /\ NoValue \notin Nat
    /\ NoWork \notin [rev : Revocation, bucket : Epoch \cup {-1}]

VARIABLES
    now,
    stream,     \* entries published and not yet handed over
    worker,     \* Worker -> NoWork, or the revocation and the bucket loaded for it (-1: none yet)
    revokeMaps, \* exact scope -> time of revocation, or NoValue
    buckets,    \* revokeBuckets, newest first: [since, trie]
    published,  \* every revocation asked for
    stored      \* the prefix revocations a trie took since then: [rev, bucket]

revokerVars == <<now, stream, worker, revokeMaps, buckets, published, stored>>

Stems == {sc.stem : sc \in Scope}
epoch == buckets[1].since

RevokerInit ==
    /\ now = 0
    /\ stream = <<>>
    /\ worker = [w \in Worker |-> NoWork]
    /\ revokeMaps = [s \in Stems |-> NoValue]
    /\ buckets = <<[since |-> 0, trie |-> NewTrie]>>
    /\ published = {} /\ stored = {}

Tick ==
    /\ now < MaxTime
    /\ now' = now + 1
    /\ UNCHANGED <<stream, worker, revokeMaps, buckets, published, stored>>

\* Revoke, on any server: the time is read before the entry is appended, so entries of two
\* servers may be in the stream in the other order.  A "*" ends the prefix.
Revoke(sc, t) ==
    /\ Cardinality(published) < MaxRevoke /\ t <= now
    /\ LET rev == [star |-> sc.star, scope |-> sc.stem, when |-> t]
       IN /\ rev \notin published
          /\ published' = published \cup {rev}
          /\ stream' = Append(stream, rev)
    /\ UNCHANGED <<now, worker, revokeMaps, buckets, stored>>

Receive(w) ==
    /\ stream # <<>> /\ worker[w] = NoWork
    /\ worker' = [worker EXCEPT ![w] = [rev |-> Head(stream), bucket |-> -1]]
    /\ stream' = Tail(stream)
    /\ UNCHANGED <<now, revokeMaps, buckets, published, stored>>

Doing(w, star) == worker[w] # NoWork /\ worker[w].rev.star = star

\* Insert: the last write wins, whatever its time.
InsertExact(w) ==
    /\ Doing(w, FALSE)
    /\ LET rev == worker[w].rev IN revokeMaps' = [revokeMaps EXCEPT ![rev.scope] = rev.when]
    /\ worker' = [worker EXCEPT ![w] = NoWork]
    /\ UNCHANGED <<now, stream, buckets, published, stored>>

\* InsertPrefix: current() loads the newest bucket ...
Current(w) ==
    /\ Doing(w, TRUE) /\ worker[w].bucket = -1
    /\ worker' = [worker EXCEPT ![w].bucket = epoch]
    /\ UNCHANGED <<now, stream, revokeMaps, buckets, published, stored>>

\* ... and the trie takes the prefix, by now perhaps not the newest one; the error of
\* a prefix that is there, or of the empty prefix, is dropped.
InsertPrefix(w) ==
    /\ Doing(w, TRUE) /\ worker[w].bucket # -1
    /\ LET rev == worker[w].rev
           b   == worker[w].bucket
           at  == {i \in DOMAIN buckets : buckets[i].since = b}
       IN /\ buckets' = [i \in DOMAIN buckets |->
                            IF i \in at THEN [buckets[i] EXCEPT !.trie = Insert(@, rev.scope, rev.when)]
                                        ELSE buckets[i]]
          /\ stored' = IF \E i \in at : ~Refused(buckets[i].trie, rev.scope)
                         THEN stored \cup {[rev |-> rev, bucket |-> b]} ELSE stored
    /\ worker' = [worker EXCEPT ![w] = NoWork]
    /\ UNCHANGED <<now, stream, revokeMaps, published>>

\* revokeRotator, on its ticker.
revokeRotator ==
    /\ epoch < MaxEpoch
    /\ buckets' = SubSeq(<<[since |-> epoch + 1, trie |-> NewTrie]>> \o buckets, 1,
                         Min({Len(buckets) + 1, Keep}))
    /\ UNCHANGED <<now, stream, worker, revokeMaps, published, stored>>

\* The process starts again: the list is empty, and the groups of the fanout streams go on
\* after what they delivered.
Restart ==
    /\ worker' = [w \in Worker |-> NoWork]
    /\ revokeMaps' = [s \in Stems |-> NoValue]
    /\ buckets' = <<[since |-> 0, trie |-> NewTrie]>>
    /\ stored' = {}
    /\ UNCHANGED <<now, stream, published>>

RevokerNext ==
    \/ Tick \/ revokeRotator \/ Restart
    \/ \E sc \in Scope, t \in Time : Revoke(sc, t)
    \/ \E w \in Worker : Receive(w) \/ InsertExact(w) \/ Current(w) \/ InsertPrefix(w)

RevokerSpec == RevokerInit /\ [][RevokerNext]_revokerVars

(***************************************************************************)
(* What a request is told                                                  *)
(***************************************************************************)
isRevoked(s, issuedAt) ==
    s \in Stems /\ revokeMaps[s] # NoValue /\ issuedAt <= revokeMaps[s]

\* Mutant: only the first prefix that matches is asked.
isRevokedPrefixShortest(s, issuedAt) ==
    \E i \in DOMAIN buckets :
        LET v == ShortestMatch(buckets[i].trie, s) IN v # NoValue /\ issuedAt <= v

\* The callback of MatchAll stops at the first value that is not before the token.
isRevokedPrefix(s, issuedAt) ==
    \E i \in DOMAIN buckets :
        \E n \in MatchAll(buckets[i].trie, s) : issuedAt <= buckets[i].trie[n].value

IsRevoked(s, issuedAt) == isRevoked(s, issuedAt) \/ isRevokedPrefix(s, issuedAt)

Covers(rev, s, issuedAt) ==
    /\ IF rev.star THEN hasPrefix(s, rev.scope) ELSE s = rev.scope
    /\ issuedAt <= rev.when

(***************************************************************************)
(* Properties                                                              *)
(***************************************************************************)
\* Nobody is shut out by accident: a token is refused only if some revocation was asked for
\* that covers its subject and is not older than the token, however prefixes share edges.
NoFalseDenial ==
    \A s \in Subject, t \in Time :
        IsRevoked(s, t) => \E rev \in published : Covers(rev, s, t)

\* The tokens refused for a prefix are exactly those covered by a revocation that a trie took
\* and whose bucket is one of the Keep newest: no later insertion, split or rotation loses
\* it, and a rotated bucket does not answer any more.
KeptUntilRotatedOut ==
    \A s \in Subject, t \in Time :
        isRevokedPrefix(s, t) <=>
            \E x \in stored : x.bucket + Keep > epoch /\ Covers(x.rev, s, t)

\* MatchAll gives exactly the prefixes of its argument that were stored in this bucket, each
\* once and with its own time, however the edges were split; ShortestMatch the shortest one.
MatchesArePrefixes ==
    \A i \in DOMAIN buckets, s \in Subject :
        LET t       == buckets[i].trie
            entries == {x.rev : x \in {y \in stored : /\ y.bucket = buckets[i].since
                                                    /\ hasPrefix(s, y.rev.scope)}}
        IN /\ MatchAll(t, s) = {r.scope : r \in entries}
           /\ \A r \in entries : t[r.scope].value = r.when
           /\ IF entries = {} THEN ShortestMatch(t, s) = NoValue
              ELSE \E r \in entries : /\ ShortestMatch(t, s) = r.when
                                      /\ \A q \in entries : Len(r.scope) <= Len(q.scope)

=============================================================================
