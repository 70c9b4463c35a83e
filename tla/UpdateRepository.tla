-------------------------- MODULE UpdateRepository --------------------------
(***************************************************************************)
(* The author's side of updates: StaticUpdateRepository                    *)
(* (core/vnext/update_repository_v6.py), one domain of one product.         *)
(*                                                                         *)
(* Every commit writes five roles, each as an immutable N.role.json and as  *)
(* the pointer role.json.  A client starts from timestamp.json and follows  *)
(* versions and hashes through the immutable files; a file stands here for  *)
(* its bytes, and its commit number for the time it was issued at.  No lock *)
(* protects the tree: the IDE and scripts/update_feed_v6.py are publishers. *)
(***************************************************************************)
EXTENDS Naturals, Sequences

CONSTANTS
    Publishers,   \* processes that publish
    MaxReleases,  \* bound: releases
    MaxCommits,   \* bound: commits that are begun
    MaxKeys,      \* bound: generations of the role keys
    MaxBreaks     \* bound: operations that are broken off

ASSUME RepositoryAssumption ==
    /\ MaxReleases \in Nat /\ MaxCommits \in Nat /\ MaxBreaks \in Nat
    /\ MaxKeys \in Nat \ {0}

VARIABLES
    files,      \* role -> version -> the immutable file
    pointers,   \* role -> the file role.json
    roots,      \* version -> the keys N.root.json names, 0 for no file
    rootPointer, \* the version of root.json, 0 before initialize
    online,     \* the keys in UpdateSigningKeyStore
    artifacts,  \* releases whose artifacts are in place
    publisher,  \* process -> its operation
    commits,    \* commits begun
    breaks,     \* operations broken off
    announced,  \* history: releases a client can have seen
    broken      \* history: a rotation did not reach its end

repositoryVars ==
    <<files, pointers, roots, rootPointer, online, artifacts, publisher, commits, breaks,
      announced, broken>>

PayloadRoles == <<"targets", "rollout", "policy">>
RoleOrder == PayloadRoles \o <<"snapshot", "timestamp">>
Roles == {RoleOrder[i] : i \in DOMAIN RoleOrder}

NoFile == [version |-> 0]
NoRollout == [release |-> 0, full |-> FALSE, paused |-> FALSE]
NoPayload == [targets |-> {}, rollout |-> NoRollout, policy |-> 0]
NoOperation == [at |-> "idle", op |-> "none", payload |-> NoPayload, turn |-> 1, keys |-> 0,
                made |-> [r \in Roles |-> NoFile]]

RepositoryInit ==
    /\ files = [r \in Roles |-> [v \in 1..MaxCommits |-> NoFile]]
    /\ pointers = [r \in Roles |-> NoFile]
    /\ roots = [v \in 1..MaxKeys |-> 0]
    /\ rootPointer = 0
    /\ online = 1
    /\ artifacts = {}
    /\ publisher = [p \in Publishers |-> NoOperation]
    /\ commits = 0
    /\ breaks = 0
    /\ announced = {}
    /\ broken = FALSE

----------------------------------------------------------------------------
(* Operations: they read the pointers, check the request, and commit.       *)

Begin(p, op, at, payload) ==
    publisher' = [publisher EXCEPT ![p] =
                     [NoOperation EXCEPT !.at = at, !.op = op, !.payload = payload, !.keys = online]]

\* _current_payloads
Current ==
    [targets |-> pointers["targets"].data,
     rollout |-> IF pointers["rollout"] = NoFile THEN NoRollout ELSE pointers["rollout"].data,
     policy |-> IF pointers["policy"] = NoFile THEN 0 ELSE pointers["policy"].data]

Ready(p) == publisher[p].at = "idle" /\ pointers["targets"] # NoFile

initialize(p) ==
    /\ publisher[p].at = "idle"
    /\ pointers["targets"] = NoFile
    /\ Begin(p, "initialize", IF rootPointer = 0 THEN "first_root" ELSE "commit", NoPayload)
    /\ UNCHANGED <<files, pointers, roots, rootPointer, online, artifacts, commits, breaks,
                   announced, broken>>

\* root.json before 1.root.json.
first_root(p) ==
    /\ publisher[p].at = "first_root"
    /\ rootPointer' = 1
    /\ publisher' = [publisher EXCEPT ![p].at = "first_version"]
    /\ UNCHANGED <<files, pointers, roots, online, artifacts, commits, breaks, announced, broken>>

first_version(p) ==
    /\ publisher[p].at = "first_version"
    /\ roots' = [roots EXCEPT ![1] = IF @ = 0 THEN publisher[p].keys ELSE @]
    /\ publisher' = [publisher EXCEPT ![p].at = "commit"]
    /\ UNCHANGED <<files, pointers, rootPointer, online, artifacts, commits, breaks, announced, broken>>

\* publish_release: the next sequence number; the artifacts are copied before the commit.
publish_release(p, n) ==
    /\ Ready(p)
    /\ \A m \in Current.targets : m < n
    /\ Begin(p, "publish", "artifact", [Current EXCEPT !.targets = @ \cup {n}])
    /\ UNCHANGED <<files, pointers, roots, rootPointer, online, artifacts, commits, breaks,
                   announced, broken>>

copy_artifacts(p) ==
    /\ publisher[p].at = "artifact"
    /\ artifacts' = artifacts \cup publisher[p].payload.targets
    /\ publisher' = [publisher EXCEPT ![p].at = "commit"]
    /\ UNCHANGED <<files, pointers, roots, rootPointer, online, commits, breaks, announced, broken>>

\* set_rollout, pause_rollout and resume_rollout: the share of a release only grows.
set_rollout(p, rollout) ==
    /\ Ready(p)
    /\ rollout.release \in Current.targets
    /\ rollout.release = Current.rollout.release /\ Current.rollout.full => rollout.full
    /\ Begin(p, "rollout", "commit", [Current EXCEPT !.rollout = rollout])
    /\ UNCHANGED <<files, pointers, roots, rootPointer, online, artifacts, commits, breaks,
                   announced, broken>>

\* publish_required_policy: only what the stable channel has in full.
publish_required_policy(p, n) ==
    /\ Ready(p)
    /\ n \in Current.targets
    /\ Current.rollout = [release |-> n, full |-> TRUE, paused |-> FALSE]
    /\ Begin(p, "policy", "commit", [Current EXCEPT !.policy = n])
    /\ UNCHANGED <<files, pointers, roots, rootPointer, online, artifacts, commits, breaks,
                   announced, broken>>

revoke_required_policy(p) ==
    /\ Ready(p)
    /\ Begin(p, "policy", "commit", [Current EXCEPT !.policy = 0])
    /\ UNCHANGED <<files, pointers, roots, rootPointer, online, artifacts, commits, breaks,
                   announced, broken>>

----------------------------------------------------------------------------
(* rotate_root: the command replaces the stored keys first.                 *)

rotate_online_roles(p) ==
    /\ Ready(p)
    /\ online < MaxKeys   \* bound
    /\ online' = online + 1
    /\ publisher' = [publisher EXCEPT ![p] =
                        [NoOperation EXCEPT !.at = "rotate", !.op = "rotate", !.keys = online + 1]]
    /\ UNCHANGED <<files, pointers, roots, rootPointer, artifacts, commits, breaks, announced, broken>>

rotate_root(p) ==
    LET next == rootPointer + 1 IN
    /\ publisher[p].at = "rotate"
    /\ roots[next] = 0
    /\ roots' = [roots EXCEPT ![next] = publisher[p].keys]
    /\ publisher' = [publisher EXCEPT ![p].at = "root_pointer"]
    /\ UNCHANGED <<files, pointers, rootPointer, online, artifacts, commits, breaks, announced, broken>>

\* The commit that follows signs what is there with the new keys.
move_root_pointer(p) ==
    /\ publisher[p].at = "root_pointer"
    /\ rootPointer' = rootPointer + 1
    /\ publisher' = [publisher EXCEPT ![p].at = "commit", ![p].payload = Current]
    /\ UNCHANGED <<files, pointers, roots, online, artifacts, commits, breaks, announced, broken>>

----------------------------------------------------------------------------
(* _commit                                                                 *)

\* The three payloads get the next version of their pointers.
commit_payloads(p) ==
    LET File(r) == [version |-> pointers[r].version + 1, issued |-> commits + 1,
                    keys |-> publisher[p].keys, data |-> publisher[p].payload[r]]
    IN
    /\ publisher[p].at = "commit"
    /\ commits < MaxCommits   \* bound
    /\ commits' = commits + 1
    /\ publisher' = [publisher EXCEPT ![p].at = "version", ![p].turn = 1, ![p].made =
                        [r \in Roles |-> IF r \in {"snapshot", "timestamp"} THEN NoFile ELSE File(r)]]
    /\ UNCHANGED <<files, pointers, roots, rootPointer, online, artifacts, breaks, announced, broken>>

Role(p) == RoleOrder[publisher[p].turn]

\* What is to be written: snapshot and timestamp are made when their turn comes.
Content(p) ==
    LET made == publisher[p].made
        new(data) == [version |-> pointers[Role(p)].version + 1, issued |-> made["targets"].issued,
                      keys |-> publisher[p].keys, data |-> data]
    IN CASE Role(p) = "snapshot" ->
              new([targets |-> made["targets"], rollout |-> made["rollout"], policy |-> made["policy"]])
         [] Role(p) = "timestamp" -> new(made["snapshot"])
         [] OTHER -> made[Role(p)]

Existing(p) == files[Role(p)][Content(p).version]

\* Mutant: an immutable file that is there is taken to be the right one.
AnyFile(p) == TRUE

\* _write_role refuses another content under the same version.
MayWrite(p) == Existing(p) \in {NoFile, Content(p)}

write_version(p) ==
    /\ publisher[p].at = "version"
    /\ MayWrite(p)
    /\ files' = [files EXCEPT ![Role(p)][Content(p).version] =
                    IF @ = NoFile THEN Content(p) ELSE @]
    /\ publisher' = [publisher EXCEPT ![p].at = "pointer", ![p].made[Role(p)] = Content(p)]
    /\ UNCHANGED <<pointers, roots, rootPointer, online, artifacts, commits, breaks, announced, broken>>

move_pointer(p) ==
    /\ publisher[p].at = "pointer"
    /\ pointers' = [pointers EXCEPT ![Role(p)] = publisher[p].made[Role(p)]]
    /\ IF Role(p) = "timestamp"
       THEN /\ publisher' = [publisher EXCEPT ![p] = NoOperation]
            /\ announced' = announced \cup publisher[p].payload.targets
       ELSE /\ publisher' = [publisher EXCEPT ![p].at = "version", ![p].turn = @ + 1]
            /\ UNCHANGED announced
    /\ UNCHANGED <<files, roots, rootPointer, online, artifacts, commits, breaks, broken>>

\* A write is refused or fails, or the process ends: what was written stays.
broken_off(p) ==
    /\ publisher[p].at # "idle"
    /\ breaks < MaxBreaks   \* bound
    /\ breaks' = breaks + 1
    /\ publisher' = [publisher EXCEPT ![p] = NoOperation]
    /\ broken' = (broken \/ publisher[p].op = "rotate")
    /\ UNCHANGED <<files, pointers, roots, rootPointer, online, artifacts, commits, announced>>

----------------------------------------------------------------------------
Publish(p) ==
    \/ initialize(p) \/ first_root(p) \/ first_version(p)
    \/ \E n \in 1..MaxReleases : publish_release(p, n) \/ publish_required_policy(p, n)
    \/ \E rollout \in [release : 1..MaxReleases, full : BOOLEAN, paused : BOOLEAN] :
          set_rollout(p, rollout)
    \/ revoke_required_policy(p)
    \/ rotate_online_roles(p) \/ rotate_root(p) \/ move_root_pointer(p)
    \/ copy_artifacts(p) \/ commit_payloads(p) \/ write_version(p) \/ move_pointer(p)
    \/ broken_off(p)

RepositoryNext == \E p \in Publishers : Publish(p)

RepositorySpec == RepositoryInit /\ [][RepositoryNext]_repositoryVars

----------------------------------------------------------------------------
(* Properties.                                                             *)

\* The keys of the newest root a client is led to.
ClientKeys ==
    LET newer == {v \in 2..MaxKeys : roots[v] # 0} IN
    IF newer = {} THEN 1 ELSE roots[CHOOSE v \in newer : \A w \in newer : w <= v]

Rotating == broken \/ \E p \in Publishers : publisher[p].op = "rotate"

(* Whenever a client asks, wherever a commit is or has been broken off: the  *)
(* timestamp leads to files that are there, are the ones that were hashed    *)
(* and are signed by the keys of its root; the rollout and the required      *)
(* policy name releases of the same feed, whose artifacts are in place; and  *)
(* every release that was announced is still in it.                          *)
FeedIsWhole ==
    pointers["timestamp"] # NoFile /\ ~Rotating =>
        LET snapshot == pointers["timestamp"].data
            named == snapshot.data
            Served(r, f) == files[r][f.version] = f /\ f.keys = ClientKeys
        IN /\ pointers["timestamp"].keys = ClientKeys
           /\ Served("snapshot", snapshot)
           /\ \A r \in DOMAIN named : Served(r, named[r])
           /\ {named["rollout"].data.release, named["policy"].data} \ {0} \subseteq named["targets"].data
           /\ named["targets"].data \subseteq artifacts
           /\ announced \subseteq named["targets"].data
=============================================================================
