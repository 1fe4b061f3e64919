-------------------------- MODULE Recruitment_proofs --------------------------
(***************************************************************************)
(* Safety of the assignments, combined roles and pending replacements for  *)
(* any posts, people, jobs, applications and interview rounds.             *)
(***************************************************************************)
EXTENDS Recruitment, FiniteSetTheorems, TLAPS

\* A post without an employee is vacant, and only such a post.
PersonOK(rec) == rec.status = "Vacant" <=> rec.person = NoPerson

PostOK == \A p \in Posts : PersonOK(post[p])

\* A post is in one role at most, and a role has two posts.
RolesOK ==
    /\ \A r, s \in roles : (\E p \in r : p \in s) => r = s
    /\ \A r \in roles : \E p, q \in r : p # q

\* The open rows of a post with this record.
HistoryOf(rec, rows) ==
    /\ rec.status \in {"Vacant", "Appointed"} => rows = {}
    /\ rec.status = "Occupied" => rows # {}
    /\ \A row \in rows : rows = {row} /\ row.person = rec.person

HistoryOK == \A p \in Posts : HistoryOf(post[p], serving[p])

\* A round is only held after fewer than all are approved.
ApplicationOK ==
    \A a \in Applications : application[a].round # "none" =>
        application[a].approved < Rounds

\* A replacement is somebody, and waits for somebody else.
LeaverOK ==
    \A p \in Posts : replacement[p] # NoReplacement =>
        /\ post[p].status = "Resigned"
        /\ post[p].person # replacement[p].person

\* A candidate's reservation covers the post of the candidate's job, so that
\* nobody else's Did Not Join can open that job again.
CandidateOK ==
    \A p \in Posts, a \in Applications : replacement[p].app = a =>
        LET home == job[JobOf[a]].post
        IN  /\ job[JobOf[a]].status = "Closed"
            /\ application[a].willing = "yes"
            /\ home \in Posts /\ home \in Members(p)
            /\ replacement[home] = replacement[p]

IInv ==
    /\ TypeOK
    /\ PostOK
    /\ RolesOK
    /\ HistoryOK
    /\ ApplicationOK
    /\ AcceptedIsApproved
    /\ LeaverOK
    /\ CandidateOK

------------------------------------------------------------------------------
(* The posts a command covers. *)

LEMMA MembersType ==
    ASSUME TypeOK, NEW p \in Posts
    PROVE  Members(p) \subseteq Posts /\ p \in Members(p)
BY DEF TypeOK, Members

\* A role is covered as a whole or not at all.
LEMMA RoleInside ==
    ASSUME RolesOK, NEW p \in Posts, NEW r \in roles
    PROVE  r \subseteq Members(p) \/ \A q \in r : q \notin Members(p)
BY DEF RolesOK, Members

\* Every post covered by a command covers the same posts.
LEMMA SameMembers ==
    ASSUME RolesOK, NEW p \in Posts, NEW q \in Members(p)
    PROVE  Members(q) = Members(p)
<1>1. CASE q = p
  BY <1>1
<1>2. ASSUME q # p PROVE Members(q) = Members(p)
  <2>1. PICK r \in roles : p \in r /\ q \in r
    BY <1>2 DEF Members
  <2>2. \A s \in roles : (p \in s => s = r) /\ (q \in s => s = r)
    BY <2>1 DEF RolesOK
  <2>3. \A o \in {p, q} : UNION {s \in roles : o \in s} = r
    BY <2>1, <2>2
  <2> QED BY <2>1, <2>3 DEF Members
<1> QED BY <1>1, <1>2

LEMMA Alone ==
    ASSUME RolesOK, NEW p \in Posts, Standalone(p), NEW r \in roles
    PROVE  p \notin r
BY DEF RolesOK, Members, Standalone

JobType == [status : {"none", "Open", "Closed"}, post : Posts \union {NoPost}]

\* What ClosedFor leaves of the jobs.
LEMMA ClosedForJobs ==
    ASSUME TypeOK, NEW ps, NEW j \in Jobs
    PROVE  /\ ClosedFor(ps)[j].post = job[j].post
           /\ ClosedFor(ps)[j].status \in {"none", "Open", "Closed"}
           /\ job[j].status = "Closed" => ClosedFor(ps)[j] = job[j]
BY DEF TypeOK, ClosedFor

LEMMA ClosedForType ==
    ASSUME TypeOK, NEW ps
    PROVE  ClosedFor(ps) \in [Jobs -> JobType]
<1>1. \A j \in Jobs : job[j] \in JobType
  BY DEF TypeOK, JobType
<1>2. \A j \in Jobs : [job[j] EXCEPT !.status = "Closed"]
        \in JobType
  BY <1>1 DEF JobType
<1> QED BY <1>1, <1>2 DEF ClosedFor

------------------------------------------------------------------------------
(* The update of posts with its triggers. *)

\* What an update may write.
Written(ps, new) == \A q \in ps : new[q] \in Post /\ PersonOK(new[q])

\* An open row that is made from a post's record.
LEMMA RowType ==
    ASSUME NEW rec \in Post, PersonOK(rec), rec.status # "Vacant"
    PROVE  Row(rec) \in Assignment /\ Row(rec).person = rec.person
<1>1. /\ rec.person \in People
      /\ rec.app \in Applications \union {NoApplication}
  BY DEF Post, PersonOK
<1>2. \A x \in People, a \in Applications \union {NoApplication} :
        [person |-> x, app |-> a] \in Assignment
  BY DEF Assignment
<1> QED BY <1>1, <1>2 DEF Row

\* The trigger's rows for one post follow what the update writes.
LEMMA RowsFollow ==
    ASSUME TypeOK, PostOK, HistoryOK, NEW p \in Posts,
           NEW new \in Post, PersonOK(new)
    PROVE  /\ HistoryOf(new, KeptRows(p, new) \union NewRows(p, new))
           /\ KeptRows(p, new) \union NewRows(p, new) \subseteq Assignment
           /\ LateRows(p) \union NewRows(p, new) \subseteq Assignment
<1> DEFINE old == post[p]
<1>0. old \in Post /\ serving[p] \subseteq Assignment /\ HistoryOf(old, serving[p])
      /\ PersonOK(old)
  BY DEF TypeOK, HistoryOK, PostOK
<1>1. /\ old.status # "Vacant" => Row(old) \in Assignment /\ Row(old).person = old.person
      /\ new.status # "Vacant" => Row(new) \in Assignment /\ Row(new).person = new.person
  BY <1>0, RowType
<1>2. CASE ~Serves(p)
  <2>1. old.status \in {"Vacant", "Appointed"}
    BY <1>0, <1>2 DEF Serves, Post
  <2>2. serving[p] = {} /\ LateRows(p) = {} /\ KeptRows(p, new) = {}
    BY <1>0, <1>2, <2>1 DEF HistoryOf, LateRows, KeptRows
  <2>3. NewRows(p, new) = IF new.status = "Occupied" THEN {Row(new)} ELSE {}
    BY <2>1, <2>2 DEF NewRows
  <2> QED BY <1>1, <2>2, <2>3 DEF HistoryOf
<1>3. CASE /\ Serves(p)
           /\ new.status \notin {"Occupied", "Resigned"} \/ new.person # old.person
  <2>1. OwnRows(p) = serving[p]
    BY <1>0 DEF HistoryOf, OwnRows
  <2>2. KeptRows(p, new) = {}
    BY <1>3, <2>1 DEF KeptRows
  <2>3. NewRows(p, new) = IF new.status = "Occupied" THEN {Row(new)} ELSE {}
    BY <1>3, <2>2 DEF NewRows
  <2>4. LateRows(p) \subseteq {Row(old)} /\ old.status # "Vacant"
    BY <1>3 DEF LateRows, Serves
  <2> QED BY <1>1, <2>2, <2>3, <2>4 DEF HistoryOf
<1>4. CASE /\ Serves(p) /\ new.status \in {"Occupied", "Resigned"}
           /\ new.person = old.person
  <2>1. KeptRows(p, new) = serving[p] \union LateRows(p)
    BY <1>4 DEF KeptRows
  <2>2. PICK row \in Assignment : KeptRows(p, new) = {row} /\ row.person = old.person
    <3>1. CASE serving[p] = {}
      <4>1. LateRows(p) = {Row(old)}
        BY <1>4, <3>1 DEF LateRows, OwnRows
      <4> QED BY <1>1, <1>4, <2>1, <3>1, <4>1 DEF Serves
    <3>2. CASE serving[p] # {}
      <4>1. PICK row \in serving[p] : serving[p] = {row} /\ row.person = old.person
        BY <1>0, <3>2 DEF HistoryOf
      <4>2. LateRows(p) = {}
        BY <4>1 DEF LateRows, OwnRows
      <4> QED BY <1>0, <2>1, <4>1, <4>2
    <3> QED BY <3>1, <3>2
  <2>3. NewRows(p, new) = {}
    BY <1>4, <2>2 DEF NewRows
  <2>4. LateRows(p) \subseteq {Row(old)} /\ old.status # "Vacant"
    BY <1>4 DEF LateRows, Serves
  <2> QED BY <1>1, <1>4, <2>2, <2>3, <2>4 DEF HistoryOf
<1> QED BY <1>2, <1>3, <1>4

LEMMA UpdateFollows ==
    ASSUME TypeOK, PostOK, HistoryOK, NEW ps \in SUBSET Posts, NEW new,
           Written(ps, new), Update(ps, new)
    PROVE  /\ post' \in [Posts -> Post]
           /\ serving' \in [Posts -> SUBSET Assignment]
           /\ joined' \subseteq Applications
           /\ PostOK' /\ HistoryOK'
           /\ \A q \in Posts : post'[q] = IF q \in ps THEN new[q] ELSE post[q]
<1>1. \A q \in Posts : post'[q] = IF q \in ps THEN new[q] ELSE post[q]
  BY DEF Update
<1>2. \A q \in Posts : serving'[q] =
         IF q \in ps THEN KeptRows(q, new[q]) \union NewRows(q, new[q])
         ELSE serving[q]
  BY DEF Update
<1>3. \A q \in ps :
         /\ HistoryOf(new[q], KeptRows(q, new[q]) \union NewRows(q, new[q]))
         /\ KeptRows(q, new[q]) \union NewRows(q, new[q]) \subseteq Assignment
         /\ LateRows(q) \union NewRows(q, new[q]) \subseteq Assignment
  BY RowsFollow DEF Written
<1>4. post' \in [Posts -> Post]
  BY DEF Update, Written, TypeOK
<1>5. serving' \in [Posts -> SUBSET Assignment]
  BY <1>3 DEF Update, TypeOK
<1>6. joined' \subseteq Applications
  <2>1. \A row \in UNION {LateRows(q) \union NewRows(q, new[q]) : q \in ps} :
           row.app \in Applications \union {NoApplication}
    <3>1. \A row \in Assignment : row.app \in Applications \union {NoApplication}
      BY DEF Assignment
    <3> QED BY <1>3, <3>1
  <2>2. joined \subseteq Applications
    BY DEF TypeOK
  <2>3. joined' = joined \union
          ({row.app : row \in UNION {LateRows(q) \union NewRows(q, new[q]) : q \in ps}}
             \ {NoApplication})
    BY DEF Update
  <2> QED BY <2>1, <2>2, <2>3
<1>7. PostOK'
  BY <1>1 DEF PostOK, Written
<1>8. HistoryOK'
  BY <1>1, <1>2, <1>3 DEF HistoryOK
<1> QED BY <1>1, <1>4, <1>5, <1>6, <1>7, <1>8

\* A closed job keeps its candidate's reservation, whoever else it is for.
LEMMA CandidatesKept ==
    ASSUME CandidateOK, UNCHANGED <<roles, replacement>>,
           \A j \in Jobs : job[j].status = "Closed" => job'[j] = job[j],
           \A a \in Applications : application[a].willing = "yes" =>
                                   application'[a].willing = "yes"
    PROVE  CandidateOK'
<1>1. \A a \in Applications : JobOf[a] \in Jobs
  BY RecruitmentAssumption
<1>2. \A p : Members(p)' = Members(p)
  BY DEF Members
<1> QED BY <1>1, <1>2 DEF CandidateOK

\* A command on employees that respects pending replacements.
LEMMA CommandKeeps ==
    ASSUME IInv, NEW p \in Posts, NEW new, Written(Members(p), new),
           Update(Members(p), new),
           \A q \in Members(p) : Protected(q, new[q]),
           job' = job \/ job' = ClosedFor(Members(p)),
           Command, UNCHANGED <<roles, replacement, application, opening>>
    PROVE  IInv'
<1> DEFINE ps == Members(p)
<1>1. ps \in SUBSET Posts
  BY MembersType DEF IInv
<1>2. /\ post' \in [Posts -> Post]
      /\ serving' \in [Posts -> SUBSET Assignment]
      /\ joined' \subseteq Applications
      /\ PostOK' /\ HistoryOK'
      /\ \A q \in Posts : post'[q] = IF q \in ps THEN new[q] ELSE post[q]
  BY <1>1, UpdateFollows DEF IInv
<1>3. job' \in [Jobs -> JobType]
  <2>1. CASE job' = job
    BY <2>1 DEF IInv, TypeOK, JobType
  <2>2. CASE job' = ClosedFor(ps)
    BY <2>2, ClosedForType DEF IInv
  <2> QED BY <2>1, <2>2
<1>4. TypeOK'
  <2>1. left' \in Nat
    <3>1. left \in Nat
      BY DEF IInv, TypeOK
    <3> QED BY <3>1 DEF Command
  <2> QED BY <1>2, <1>3, <2>1 DEF IInv, TypeOK, JobType
<1>5. LeaverOK'
  BY <1>2 DEF IInv, LeaverOK, Protected
<1>6. CandidateOK'
  <2>1. \A j \in Jobs : job[j].status = "Closed" => job'[j] = job[j]
    BY ClosedForJobs DEF IInv
  <2> QED BY <2>1, CandidatesKept DEF IInv
<1>7. RolesOK' /\ ApplicationOK' /\ AcceptedIsApproved'
  BY DEF IInv, RolesOK, ApplicationOK, AcceptedIsApproved
<1> QED BY <1>2, <1>4, <1>5, <1>6, <1>7 DEF IInv

\* No pending replacement, nothing to protect.
LEMMA NothingReserved ==
    ASSUME NEW ps, NEW new, ~Reserved(ps)
    PROVE  \A q \in ps : Protected(q, new[q])
BY DEF Reserved, Protected

------------------------------------------------------------------------------
(* Employee assignment. *)

LEMMA JoinKeeps == ASSUME IInv, NEW p \in Posts, NEW x \in People, Join(p, x) PROVE IInv'
<1> DEFINE ps == Members(p)
           new == [q \in ps |-> [status |-> "Occupied", person |-> x,
                                 app |-> post[q].app, coded |-> TRUE]]
<1>0. ps \subseteq Posts
  BY MembersType DEF IInv
<1>1. Written(ps, new)
  BY <1>0, RecruitmentAssumption DEF Written, PersonOK, Post, IInv, TypeOK
<1>2. Update(ps, new) /\ ~Reserved(ps) /\ Command
  BY DEF Join
<1>3. job' = ClosedFor(ps) /\ UNCHANGED <<roles, replacement, application, opening>>
  BY DEF Join
<1> QED BY <1>1, <1>2, <1>3, CommandKeeps, NothingReserved

LEMMA ResignKeeps == ASSUME IInv, NEW p \in Posts, Resign(p) PROVE IInv'
<1> DEFINE ps == Members(p)
<1>0. ps \subseteq Posts
  BY MembersType DEF IInv
<1>1. PICK e \in ps :
        LET new == [status |-> "Resigned", person |-> post[e].person,
                    app |-> NoApplication, coded |-> post[e].coded]
        IN  /\ post[e].person # NoPerson
            /\ \A q \in ps : Protected(q, new)
            /\ Update(ps, [q \in ps |-> new])
  BY DEF Resign
<1> DEFINE new == [q \in ps |-> [status |-> "Resigned", person |-> post[e].person,
                                 app |-> NoApplication, coded |-> post[e].coded]]
<1>2. Written(ps, new)
  BY <1>0, <1>1 DEF Written, PersonOK, Post, IInv, TypeOK
<1>3. Update(ps, new) /\ \A q \in ps : Protected(q, new[q])
  BY <1>1
<1>4. UNCHANGED <<roles, replacement, job, application, opening>> /\ Command
  BY DEF Resign
<1> QED BY <1>2, <1>3, <1>4, CommandKeeps

LEMMA RemoveKeeps == ASSUME IInv, NEW p \in Posts, Remove(p) PROVE IInv'
<1> DEFINE ps == Members(p)
           new == [q \in ps |-> Vacant]
<1>1. Written(ps, new)
  BY DEF Written, PersonOK, Post, Vacant
<1>2. Update(ps, new) /\ ~Reserved(ps) /\ Command
  BY DEF Remove
<1>3. UNCHANGED <<roles, replacement, job, application, opening>>
  BY DEF Remove
<1> QED BY <1>1, <1>2, <1>3, CommandKeeps, NothingReserved

LEMMA ChangeRoleKeeps == ASSUME IInv, NEW p \in Posts, ChangeRole(p) PROVE IInv'
<1> DEFINE ps == Members(p)
           new == [q \in ps |-> Vacant]
<1>1. Written(ps, new)
  BY DEF Written, PersonOK, Post, Vacant
<1>2. Update(ps, new) /\ ~Reserved(ps) /\ Command
  BY DEF ChangeRole, Standalone
<1>3. UNCHANGED <<roles, replacement, job, application, opening>>
  BY DEF ChangeRole
<1> QED BY <1>1, <1>2, <1>3, CommandKeeps, NothingReserved

LEMMA WithdrawResignationKeeps ==
    ASSUME IInv, NEW p \in Posts, WithdrawResignation(p) PROVE IInv'
<1> DEFINE ps == Members(p)
<1>0. ps \subseteq Posts /\ \A q \in ps : post[q] \in Post
                            /\ serving[q] \subseteq Assignment /\ PersonOK(post[q])
  BY MembersType DEF IInv, TypeOK, PostOK
<1>1. PICK row \in [ps -> UNION {serving[q] : q \in ps}] :
        /\ \A q \in ps : row[q] \in serving[q]
        /\ Update(ps, [q \in ps |->
             [post[q] EXCEPT !.status = "Occupied",
                             !.app = IF row[q].app # NoApplication
                                     THEN row[q].app ELSE @]])
  BY DEF WithdrawResignation
<1> DEFINE new == [q \in ps |->
             [post[q] EXCEPT !.status = "Occupied",
                             !.app = IF row[q].app # NoApplication
                                     THEN row[q].app ELSE @]]
<1>2. Written(ps, new)
  <2>1. \A q \in ps : row[q].app \in Applications \union {NoApplication}
    BY <1>0, <1>1 DEF Assignment
  <2>2. \A q \in ps : new[q] \in Post /\ new[q].person = post[q].person
                      /\ new[q].status = "Occupied"
    BY <1>0, <2>1 DEF Post
  <2>3. \A q \in ps : post[q].status = "Resigned"
    BY DEF WithdrawResignation
  <2> QED BY <1>0, <2>2, <2>3 DEF Written, PersonOK
<1>3. Update(ps, new) /\ ~Reserved(ps) /\ Command
  BY <1>1 DEF WithdrawResignation
<1>4. job' = ClosedFor(ps) /\ UNCHANGED <<roles, replacement, application, opening>>
  BY DEF WithdrawResignation
<1> QED BY <1>2, <1>3, <1>4, CommandKeeps, NothingReserved

\* The record that a row of an upload writes.
BulkRecord(q, e, event, x, code) ==
    IF event = "Removed"
    THEN [Vacant EXCEPT !.app = post[q].app]
    ELSE [status |-> CASE event = "Appointed" -> "Appointed"
                       [] event = "Joined" -> "Occupied"
                       [] event = "Resigned" -> "Resigned"
                       [] event = "Removed" -> "Vacant",
          person |-> x, app |-> post[q].app, coded |-> code \/ post[e].coded]

LEMMA BulkRecordOK ==
    ASSUME TypeOK, NEW q \in Posts, NEW e \in Posts, NEW event \in Events,
           NEW x \in People, NEW code \in BOOLEAN
    PROVE  /\ BulkRecord(q, e, event, x, code) \in Post
           /\ PersonOK(BulkRecord(q, e, event, x, code))
<1>1. post[q] \in Post /\ post[e] \in Post
  BY DEF TypeOK
<1>2. post[q].app \in Applications \union {NoApplication}
      /\ (code \/ post[e].coded) \in BOOLEAN
  BY <1>1 DEF Post
<1>3. CASE event = "Removed"
  <2>1. BulkRecord(q, e, event, x, code) =
          [status |-> "Vacant", person |-> NoPerson, app |-> post[q].app,
           coded |-> FALSE]
    BY <1>3 DEF BulkRecord, Vacant
  <2> QED BY <1>2, <2>1 DEF Post, PersonOK
<1>4. CASE event # "Removed"
  <2>1. PICK status \in {"Appointed", "Occupied", "Resigned"} :
          BulkRecord(q, e, event, x, code) =
            [status |-> status, person |-> x, app |-> post[q].app,
             coded |-> code \/ post[e].coded]
    BY <1>4 DEF BulkRecord, Events
  <2>2. x \in People \union {NoPerson} /\ x # NoPerson
    BY RecruitmentAssumption
  <2> QED BY <1>2, <2>1, <2>2 DEF Post, PersonOK
<1> QED BY <1>3, <1>4

LEMMA BulkAssignWrites ==
    ASSUME IInv, NEW p \in Posts, NEW upload, NEW event \in Events,
           NEW x \in People, NEW code \in BOOLEAN,
           BulkAssign(p, upload, event, x, code)
    PROVE  \E e \in Members(p) :
             LET new == [q \in Members(p) |-> BulkRecord(q, e, event, x, code)]
             IN  /\ Written(Members(p), new)
                 /\ Update(Members(p), new)
                 /\ \A q \in Members(p) : Protected(q, new[q])
<1> DEFINE ps == Members(p)
<1>0. ps \subseteq Posts
  BY MembersType DEF IInv
<1>1. PICK e \in ps :
        LET new == [q \in ps |-> BulkRecord(q, e, event, x, code)]
        IN  /\ \A q \in ps : Protected(q, new[q])
            /\ Update(ps, new)
  BY DEF BulkAssign, BulkRecord
<1>2. Written(ps, [q \in ps |-> BulkRecord(q, e, event, x, code)])
  BY <1>0, BulkRecordOK DEF Written, IInv
<1> QED BY <1>1, <1>2

LEMMA BulkAssignKeeps ==
    ASSUME IInv, NEW p \in Posts, NEW upload, NEW event \in Events,
           NEW x \in People, NEW code \in BOOLEAN,
           BulkAssign(p, upload, event, x, code)
    PROVE  IInv'
<1>1. UNCHANGED <<roles, replacement, job, application, opening>> /\ Command
  BY DEF BulkAssign
<1>2. PICK e \in Members(p) :
        LET new == [q \in Members(p) |-> BulkRecord(q, e, event, x, code)]
        IN  /\ Written(Members(p), new)
            /\ Update(Members(p), new)
            /\ \A q \in Members(p) : Protected(q, new[q])
  BY BulkAssignWrites
<1> DEFINE new == [q \in Members(p) |-> BulkRecord(q, e, event, x, code)]
<1>3. Written(Members(p), new) /\ Update(Members(p), new)
      /\ \A q \in Members(p) : Protected(q, new[q])
  BY <1>2
<1> HIDE DEF new
<1> QED BY <1>1, <1>3, CommandKeeps

\* A newcomer is reserved, for the posts of the candidate's job if it is a
\* candidate.
LEMMA ReservedFor ==
    ASSUME IInv, NEW p \in Posts, NEW x,
           NEW a \in Applications \union {NoApplication},
           ~Reserved(Members(p)), UNCHANGED roles,
           replacement' = [q \in Posts |-> IF q \in Members(p)
                                           THEN [person |-> x, app |-> a]
                                           ELSE replacement[q]],
           \A j \in Jobs : job[j].status = "Closed" => job'[j] = job[j],
           \A b \in Applications : application[b].willing = "yes" =>
                                   application'[b].willing = "yes",
           a \in Applications => /\ job'[JobOf[a]].status = "Closed"
                                 /\ job'[JobOf[a]].post = p
                                 /\ application'[a].willing = "yes"
    PROVE  CandidateOK'
<1> DEFINE ps == Members(p)
<1> SUFFICES ASSUME NEW q \in Posts, NEW b \in Applications,
                    replacement'[q].app = b
             PROVE  /\ job'[JobOf[b]].status = "Closed"
                    /\ application'[b].willing = "yes"
                    /\ job'[JobOf[b]].post \in Posts
                    /\ job'[JobOf[b]].post \in Members(q)'
                    /\ replacement'[job'[JobOf[b]].post] = replacement'[q]
  BY DEF CandidateOK
<1>1. JobOf[b] \in Jobs /\ NoApplication \notin Applications
  BY RecruitmentAssumption
<1>2. Members(q)' = Members(q) /\ p \in ps /\ ps \subseteq Posts
  BY MembersType DEF Members, IInv
<1>3. CASE q \in ps
  <2>1. replacement'[q] = [person |-> x, app |-> a]
    BY <1>3
  <2>2. b = a
    BY <2>1
  <2>3. Members(q) = ps
    BY <1>3, SameMembers DEF IInv
  <2> QED BY <1>2, <2>1, <2>2, <2>3
<1>4. CASE q \notin ps
  <2> DEFINE home == job[JobOf[b]].post
  <2>1. replacement[q].app = b /\ replacement'[q] = replacement[q]
    BY <1>4
  <2>2. /\ job[JobOf[b]].status = "Closed" /\ application[b].willing = "yes"
        /\ home \in Posts /\ home \in Members(q)
        /\ replacement[home] = replacement[q]
    BY <2>1 DEF IInv, CandidateOK
  <2>3. replacement[home] # NoReplacement
    BY <1>1, <2>1, <2>2 DEF NoReplacement
  <2>4. home \notin ps
    BY <2>3 DEF Reserved
  <2>5. job'[JobOf[b]] = job[JobOf[b]]
    BY <1>1, <2>2
  <2> QED BY <1>2, <2>1, <2>2, <2>4, <2>5
<1> QED BY <1>3, <1>4

\* What AppointTo leaves of the posts, the history and the replacements.
AppointedTo(p, x, a) ==
    /\ post' \in [Posts -> Post]
    /\ serving' \in [Posts -> SUBSET Assignment]
    /\ joined' \subseteq Applications
    /\ replacement' \in [Posts -> Assignment \union {NoReplacement}]
    /\ PostOK' /\ HistoryOK' /\ LeaverOK'
    /\ ~Reserved(Members(p))
    /\ \/ UNCHANGED replacement
       \/ replacement' = [q \in Posts |-> IF q \in Members(p)
                                          THEN [person |-> x, app |-> a]
                                          ELSE replacement[q]]

LEMMA AppointToKeeps ==
    ASSUME IInv, NEW p \in Posts, NEW x \in People,
           NEW a \in Applications \union {NoApplication}, NEW code \in BOOLEAN,
           AppointTo(p, x, a, code)
    PROVE  AppointedTo(p, x, a)
<1> DEFINE ps == Members(p)
           Reserves ==
             /\ \A q \in ps : post[q].status = "Resigned" /\ post[q].person # x
             /\ replacement' = [q \in Posts |->
                  IF q \in ps THEN [person |-> x, app |-> a] ELSE replacement[q]]
             /\ UNCHANGED <<post, serving, joined>>
<1>0. ps \subseteq Posts /\ ~Reserved(ps)
  BY MembersType DEF IInv, AppointTo
<1>1. CASE Reserves
  <2>1. [person |-> x, app |-> a] \in Assignment
    BY DEF Assignment
  <2>2. replacement' \in [Posts -> Assignment \union {NoReplacement}]
    BY <1>1, <2>1 DEF IInv, TypeOK
  <2>3. PostOK' /\ HistoryOK'
    BY <1>1 DEF IInv, PostOK, HistoryOK
  <2>4. LeaverOK'
    BY <1>1 DEF IInv, LeaverOK
  <2> QED BY <1>0, <1>1, <2>2, <2>3, <2>4 DEF IInv, TypeOK, AppointedTo
<1>2. ASSUME NEW e \in ps,
             Update(ps, [q \in ps |->
                [status |-> "Appointed", person |-> x,
                 app |-> IF a # NoApplication THEN a ELSE post[q].app,
                 coded |-> code \/ post[e].coded]]),
             UNCHANGED replacement
      PROVE  /\ post' \in [Posts -> Post]
             /\ serving' \in [Posts -> SUBSET Assignment]
             /\ joined' \subseteq Applications
             /\ PostOK' /\ HistoryOK' /\ LeaverOK'
  <2> DEFINE new == [q \in ps |->
                [status |-> "Appointed", person |-> x,
                 app |-> IF a # NoApplication THEN a ELSE post[q].app,
                 coded |-> code \/ post[e].coded]]
  <2>1. Written(ps, new)
    <3>1. \A q \in ps : post[q].app \in Applications \union {NoApplication}
      BY <1>0 DEF IInv, TypeOK, Post
    <3>2. x # NoPerson /\ (code \/ post[e].coded) \in BOOLEAN
      BY <1>0, RecruitmentAssumption DEF IInv, TypeOK, Post
    <3>3. \A q \in ps : new[q] \in Post /\ new[q].status = "Appointed"
                        /\ new[q].person = x
      BY <3>1, <3>2 DEF Post
    <3> QED BY <3>2, <3>3 DEF Written, PersonOK
  <2>2. Update(ps, new)
    BY <1>2
  <2> HIDE DEF new
  <2>3. /\ post' \in [Posts -> Post]
        /\ serving' \in [Posts -> SUBSET Assignment]
        /\ joined' \subseteq Applications
        /\ PostOK' /\ HistoryOK'
        /\ \A q \in Posts : post'[q] = IF q \in ps THEN new[q] ELSE post[q]
    BY <1>0, <2>1, <2>2, UpdateFollows DEF IInv
  <2>4. LeaverOK'
    BY <1>0, <1>2, <2>3 DEF IInv, LeaverOK, Reserved
  <2> QED BY <2>3, <2>4
<1>3. \/ Reserves
      \/ /\ UNCHANGED replacement
         /\ \E e \in ps :
              Update(ps, [q \in ps |->
                [status |-> "Appointed", person |-> x,
                 app |-> IF a # NoApplication THEN a ELSE post[q].app,
                 coded |-> code \/ post[e].coded]])
  BY DEF AppointTo
<1>4. ASSUME UNCHANGED replacement
      PROVE  replacement' \in [Posts -> Assignment \union {NoReplacement}]
  BY <1>4 DEF IInv, TypeOK
<1> QED BY <1>0, <1>1, <1>2, <1>3, <1>4 DEF AppointedTo

LEMMA AppointKeeps ==
    ASSUME IInv, NEW p \in Posts, NEW x \in People, NEW code \in BOOLEAN,
           Appoint(p, x, code)
    PROVE  IInv'
<1> DEFINE ps == Members(p)
<1>1. /\ AppointTo(p, x, NoApplication, code) /\ Command
      /\ job' = ClosedFor(ps) /\ UNCHANGED <<roles, application, opening>>
  BY DEF Appoint
<1>1a. AppointedTo(p, x, NoApplication)
  BY <1>1, AppointToKeeps
<1>2. /\ post' \in [Posts -> Post]
      /\ serving' \in [Posts -> SUBSET Assignment]
      /\ joined' \subseteq Applications
      /\ replacement' \in [Posts -> Assignment \union {NoReplacement}]
      /\ PostOK' /\ HistoryOK' /\ LeaverOK'
  BY <1>1a DEF AppointedTo
<1>3. \/ UNCHANGED replacement
      \/ ~Reserved(ps) /\ replacement' = [q \in Posts |->
           IF q \in ps THEN [person |-> x, app |-> NoApplication]
           ELSE replacement[q]]
  BY <1>1a DEF AppointedTo
<1>4. TypeOK'
  <2>1. left \in Nat
    BY DEF IInv, TypeOK
  <2>2. left' \in Nat
    BY <1>1, <2>1 DEF Command
  <2>3. job' \in [Jobs -> JobType]
    BY <1>1, ClosedForType DEF IInv
  <2> QED BY <1>1, <1>2, <2>2, <2>3 DEF IInv, TypeOK, JobType
<1>5. CandidateOK'
  <2>1. \A j \in Jobs : job[j].status = "Closed" => job'[j] = job[j]
    BY <1>1, ClosedForJobs DEF IInv
  <2>2. CASE UNCHANGED replacement
    BY <1>1, <2>1, <2>2, CandidatesKept DEF IInv
  <2>3. CASE /\ ~Reserved(ps)
             /\ replacement' = [q \in Posts |->
                  IF q \in ps THEN [person |-> x, app |-> NoApplication]
                  ELSE replacement[q]]
    <3>1. NoApplication \notin Applications
      BY RecruitmentAssumption
    <3> QED BY <1>1, <2>1, <2>3, <3>1, ReservedFor
  <2> QED BY <1>3, <2>2, <2>3
<1>6. RolesOK' /\ ApplicationOK' /\ AcceptedIsApproved'
  BY <1>1 DEF IInv, RolesOK, ApplicationOK, AcceptedIsApproved
<1> QED BY <1>2, <1>4, <1>5, <1>6 DEF IInv

\* Reservations of all the posts that share them end together.
LEMMA CandidatesLeave ==
    ASSUME IInv, NEW ps \in SUBSET Posts, UNCHANGED roles,
           replacement' = [q \in Posts |->
              IF q \in ps THEN NoReplacement ELSE replacement[q]],
           \A q \in Posts, a \in Applications :
              q \notin ps /\ replacement[q].app = a =>
                /\ job[JobOf[a]].post \notin ps
                /\ job'[JobOf[a]] = job[JobOf[a]]
                /\ application[a].willing = "yes" => application'[a].willing = "yes"
    PROVE  CandidateOK'
<1> SUFFICES ASSUME NEW q \in Posts, NEW a \in Applications,
                    replacement'[q].app = a
             PROVE  /\ job'[JobOf[a]].status = "Closed"
                    /\ application'[a].willing = "yes"
                    /\ job'[JobOf[a]].post \in Posts
                    /\ job'[JobOf[a]].post \in Members(q)'
                    /\ replacement'[job'[JobOf[a]].post] = replacement'[q]
  BY DEF CandidateOK
<1>1. Members(q)' = Members(q)
  BY DEF Members
<1>2. q \notin ps /\ replacement[q].app = a
  BY RecruitmentAssumption DEF NoReplacement
<1>3. LET home == job[JobOf[a]].post
      IN  /\ job[JobOf[a]].status = "Closed" /\ application[a].willing = "yes"
          /\ home \in Posts /\ home \in Members(q)
          /\ replacement[home] = replacement[q]
  BY <1>2 DEF IInv, CandidateOK
<1> QED BY <1>1, <1>2, <1>3

\* The posts of a command share a reservation.
LEMMA SharedApart ==
    ASSUME IInv, NEW p \in Posts, NEW q \in Posts, NEW a \in Applications,
           q \notin Members(p), replacement[q].app = a
    PROVE  job[JobOf[a]].post \notin Members(p)
<1> DEFINE home == job[JobOf[a]].post
<1>1. home \in Posts /\ home \in Members(q)
  BY DEF IInv, CandidateOK
<1>2. Members(home) = Members(q) /\ q \in Members(q)
  BY <1>1, SameMembers, MembersType DEF IInv
<1>3. ASSUME home \in Members(p) PROVE FALSE
  BY <1>2, <1>3, SameMembers DEF IInv
<1> QED BY <1>3

LEMMA CancelReplacementKeeps ==
    ASSUME IInv, NEW p \in Posts, CancelReplacement(p) PROVE IInv'
<1> DEFINE ps == Members(p)
<1>0. ps \in SUBSET Posts
  BY MembersType DEF IInv
<1>1. /\ Command /\ UNCHANGED <<post, serving, joined, roles, job, application, opening>>
      /\ replacement' = [q \in Posts |->
           IF q \in ps THEN NoReplacement ELSE replacement[q]]
  BY DEF CancelReplacement, GiveUp
<1>2. TypeOK'
  <2>1. left \in Nat
    BY DEF IInv, TypeOK
  <2>2. left' \in Nat
    BY <1>1, <2>1 DEF Command
  <2> QED BY <1>1, <2>2 DEF IInv, TypeOK
<1>3. PostOK' /\ HistoryOK' /\ RolesOK' /\ ApplicationOK' /\ AcceptedIsApproved'
  BY <1>1 DEF IInv, PostOK, HistoryOK, RolesOK, ApplicationOK, AcceptedIsApproved
<1>4. LeaverOK'
  BY <1>1 DEF IInv, LeaverOK
<1>5. CandidateOK'
  BY <1>0, <1>1, CandidatesLeave, SharedApart
<1> QED BY <1>2, <1>3, <1>4, <1>5 DEF IInv

LEMMA JoinReplacementKeeps ==
    ASSUME IInv, NEW p \in Posts, JoinReplacement(p) PROVE IInv'
<1> DEFINE ps == Members(p)
           new == [q \in ps |-> [status |-> "Occupied",
                                 person |-> replacement[p].person,
                                 app |-> replacement[p].app, coded |-> TRUE]]
<1>0. ps \in SUBSET Posts /\ p \in ps
  BY MembersType DEF IInv
<1>1. /\ Command /\ Update(ps, new) /\ SameReplacement(ps)
      /\ replacement' = [q \in Posts |->
           IF q \in ps THEN NoReplacement ELSE replacement[q]]
      /\ job' = ClosedFor(ps) /\ UNCHANGED <<roles, application, opening>>
  BY DEF JoinReplacement
<1>2. Written(ps, new)
  <2>1. replacement[p] \in Assignment
    BY <1>0, <1>1 DEF SameReplacement, IInv, TypeOK
  <2>2. /\ replacement[p].person \in People /\ replacement[p].person # NoPerson
        /\ replacement[p].app \in Applications \union {NoApplication}
    BY <2>1, RecruitmentAssumption DEF Assignment
  <2> QED BY <2>2 DEF Written, PersonOK, Post
<1> HIDE DEF new
<1>3. /\ post' \in [Posts -> Post]
      /\ serving' \in [Posts -> SUBSET Assignment]
      /\ joined' \subseteq Applications
      /\ PostOK' /\ HistoryOK'
      /\ \A q \in Posts : post'[q] = IF q \in ps THEN new[q] ELSE post[q]
  BY <1>0, <1>1, <1>2, UpdateFollows DEF IInv
<1>4. TypeOK'
  <2>1. left \in Nat
    BY DEF IInv, TypeOK
  <2>2. left' \in Nat
    BY <1>1, <2>1 DEF Command
  <2>3. job' \in [Jobs -> JobType]
    BY <1>1, ClosedForType DEF IInv
  <2>4. replacement' \in [Posts -> Assignment \union {NoReplacement}]
    BY <1>1 DEF IInv, TypeOK
  <2> QED BY <1>1, <1>3, <2>2, <2>3, <2>4 DEF IInv, TypeOK, JobType
<1>5. LeaverOK'
  BY <1>1, <1>3 DEF IInv, LeaverOK
<1>6. CandidateOK'
  <2>1. \A q \in Posts, a \in Applications :
           q \notin ps /\ replacement[q].app = a =>
             /\ job[JobOf[a]].post \notin ps
             /\ job'[JobOf[a]] = job[JobOf[a]]
    <3>1. \A q \in Posts, a \in Applications : replacement[q].app = a =>
             job[JobOf[a]].status = "Closed" /\ JobOf[a] \in Jobs
      BY RecruitmentAssumption DEF IInv, CandidateOK
    <3> QED BY <1>1, <3>1, SharedApart, ClosedForJobs DEF IInv
  <2> QED BY <1>0, <1>1, <2>1, CandidatesLeave
<1>7. RolesOK' /\ ApplicationOK' /\ AcceptedIsApproved'
  BY <1>1 DEF IInv, RolesOK, ApplicationOK, AcceptedIsApproved
<1> QED BY <1>3, <1>4, <1>5, <1>6, <1>7 DEF IInv

LEMMA CorrectDesignationKeeps ==
    ASSUME IInv, NEW p \in Posts, NEW q \in Posts, CorrectDesignation(p, q)
    PROVE  IInv'
<1>1. /\ Command /\ p # q /\ post[p].status = "Occupied" /\ post[q] = Vacant
      /\ ~Reserved({p, q})
      /\ job' = ClosedFor({q})
      /\ UNCHANGED <<roles, replacement, joined, application, opening>>
  BY DEF CorrectDesignation
<1>2. PICK row \in OwnRows(p) :
        /\ post' = [post EXCEPT
             ![p] = Vacant,
             ![q] = [post[p] EXCEPT !.app = IF @ # NoApplication THEN @
                                            ELSE row.app]]
        /\ serving' = [serving EXCEPT ![p] = @ \ {row},
                                      ![q] = @ \union {row}]
  BY DEF CorrectDesignation
<1>3. /\ post[p] \in Post /\ PersonOK(post[p]) /\ HistoryOf(post[p], serving[p])
      /\ serving[p] \subseteq Assignment
      /\ HistoryOf(post[q], serving[q])
  BY DEF IInv, TypeOK, PostOK, HistoryOK
<1>4. row \in Assignment /\ row \in serving[p] /\ row.person = post[p].person
      /\ row.app \in Applications \union {NoApplication}
  BY <1>3 DEF OwnRows, Assignment
<1> DEFINE moved == [post[p] EXCEPT !.app = IF @ # NoApplication THEN @
                                            ELSE row.app]
<1>5. moved \in Post /\ moved.status = "Occupied" /\ moved.person = post[p].person
  BY <1>1, <1>3, <1>4 DEF Post
<1>6. Vacant \in Post /\ Vacant.status = "Vacant" /\ Vacant.person = NoPerson
  BY DEF Vacant, Post
<1> HIDE DEF moved
<1>7. \A o \in Posts : /\ post'[o] = IF o = q THEN moved
                                     ELSE IF o = p THEN Vacant ELSE post[o]
                       /\ serving'[o] = IF o = q THEN serving[q] \union {row}
                                        ELSE IF o = p THEN serving[p] \ {row}
                                        ELSE serving[o]
  BY <1>1, <1>2 DEF IInv, TypeOK, moved
<1>8. TypeOK'
  <2>1. left \in Nat
    BY DEF IInv, TypeOK
  <2>2. left' \in Nat
    BY <1>1, <2>1 DEF Command
  <2>3. job' \in [Jobs -> JobType]
    BY <1>1, ClosedForType DEF IInv
  <2>4. post' \in [Posts -> Post] /\ serving' \in [Posts -> SUBSET Assignment]
    BY <1>2, <1>4, <1>5, <1>6 DEF IInv, TypeOK, moved
  <2> QED BY <1>1, <2>2, <2>3, <2>4 DEF IInv, TypeOK, JobType
<1>9. PostOK'
  BY <1>1, <1>3, <1>5, <1>6, <1>7 DEF IInv, PostOK, PersonOK
<1>10. HistoryOK'
  <2>1. serving[p] = {row} /\ serving[q] = {}
    BY <1>1, <1>3, <1>4, <1>6 DEF HistoryOf
  <2>2. HistoryOf(moved, {row}) /\ HistoryOf(Vacant, {})
    BY <1>4, <1>5, <1>6 DEF HistoryOf
  <2>3. serving[q] \union {row} = {row} /\ serving[p] \ {row} = {}
    BY <2>1
  <2>4. \A o \in Posts : HistoryOf(post'[o], serving'[o])
    BY <1>1, <1>7, <2>2, <2>3 DEF IInv, HistoryOK
  <2> QED BY <2>4 DEF HistoryOK, HistoryOf
<1>11. LeaverOK'
  BY <1>1, <1>7 DEF IInv, LeaverOK, Reserved
<1>12. CandidateOK'
  BY <1>1, ClosedForJobs, CandidatesKept DEF IInv
<1>13. RolesOK' /\ ApplicationOK' /\ AcceptedIsApproved'
  BY <1>1 DEF IInv, RolesOK, ApplicationOK, AcceptedIsApproved
<1> QED BY <1>8, <1>9, <1>10, <1>11, <1>12, <1>13 DEF IInv

------------------------------------------------------------------------------
(* Combined roles. *)

\* A set of two posts or more has two different ones.
LEMMA TwoMembers ==
    ASSUME NEW ps \in SUBSET Posts, Cardinality(ps) >= 2
    PROVE  \E p, q \in ps : p # q
<1>1. IsFiniteSet(ps)
  BY RecruitmentAssumption, FS_Subset
<1>2. CASE ps = {}
  BY <1>2, FS_EmptySet
<1>3. ASSUME NEW p \in ps, \A q \in ps : q = p PROVE FALSE
  <2>1. ps = {p}
    BY <1>3
  <2>2. Cardinality(ps) = 1
    BY <2>1, FS_Singleton
  <2> QED BY <2>2
<1> QED BY <1>2, <1>3

\* What Combine leaves of the posts and their history.
LEMMA CombineFollows ==
    ASSUME IInv, NEW ps \in SUBSET Posts, Combine(ps)
    PROVE  /\ post' \in [Posts -> Post]
           /\ serving' \in [Posts -> SUBSET Assignment]
           /\ joined' \subseteq Applications
           /\ PostOK' /\ HistoryOK'
           /\ \A q \in Posts \ ps : post'[q] = post[q]
           /\ \A p, q \in ps : /\ post'[p].status = post'[q].status
                               /\ post'[p].person = post'[q].person
<1>1. CASE /\ \A q \in ps : post[q].person = NoPerson
           /\ UNCHANGED <<post, serving, joined>>
  <2>1. PostOK' /\ HistoryOK'
    BY <1>1 DEF IInv, PostOK, HistoryOK
  <2>2. \A q \in ps : post[q].status = "Vacant"
    BY <1>1 DEF IInv, PostOK, PersonOK
  <2> QED BY <1>1, <2>1, <2>2 DEF IInv, TypeOK
<1>2. ASSUME NEW source \in ps, Update(ps, [q \in ps |-> post[source]])
      PROVE  /\ post' \in [Posts -> Post]
             /\ serving' \in [Posts -> SUBSET Assignment]
             /\ joined' \subseteq Applications
             /\ PostOK' /\ HistoryOK'
             /\ \A q \in Posts : post'[q] = IF q \in ps THEN post[source] ELSE post[q]
  <2> DEFINE new == [q \in ps |-> post[source]]
  <2>1. Written(ps, new)
    BY DEF Written, IInv, TypeOK, PostOK
  <2> QED BY <1>2, <2>1, UpdateFollows DEF IInv
<1> QED BY <1>1, <1>2 DEF Combine, TakesOver

\* A role of posts that are in no other role.
LEMMA NewRole ==
    ASSUME IInv, NEW ps \in SUBSET Posts, Cardinality(ps) >= 2,
           NEW rs \in SUBSET roles, roles' = rs \union {ps},
           \A r \in rs, q \in ps : q \notin r
    PROVE  RolesOK' /\ roles' \subseteq SUBSET Posts
<1>1. \E p, q \in ps : p # q
  BY TwoMembers
<1>2. \A r, s \in roles' : (\E p \in r : p \in s) => r = s
  BY DEF IInv, RolesOK
<1>3. \A r \in roles' : \E p, q \in r : p # q
  BY <1>1 DEF IInv, RolesOK
<1>4. roles' \subseteq SUBSET Posts
  BY DEF IInv, TypeOK
<1> QED BY <1>2, <1>3, <1>4 DEF RolesOK

\* Posts that stay together keep a reservation together.
LEMMA CandidatesRegrouped ==
    ASSUME IInv, UNCHANGED <<replacement, job, application>>,
           \A p, q \in Posts :
              replacement[p] # NoReplacement /\ replacement[q] # NoReplacement
              /\ q \in Members(p) => q \in Members(p)'
    PROVE  CandidateOK'
<1> SUFFICES ASSUME NEW p \in Posts, NEW a \in Applications, replacement[p].app = a
             PROVE  LET home == job[JobOf[a]].post
                    IN  /\ job[JobOf[a]].status = "Closed"
                        /\ application[a].willing = "yes"
                        /\ home \in Posts /\ home \in Members(p)'
                        /\ replacement[home] = replacement[p]
  BY DEF CandidateOK
<1> DEFINE home == job[JobOf[a]].post
<1>1. /\ job[JobOf[a]].status = "Closed" /\ application[a].willing = "yes"
      /\ home \in Posts /\ home \in Members(p)
      /\ replacement[home] = replacement[p]
  BY DEF IInv, CandidateOK
<1>2. replacement[p] # NoReplacement
  BY RecruitmentAssumption DEF NoReplacement
<1> QED BY <1>1, <1>2

LEMMA CreateRoleKeeps ==
    ASSUME IInv, NEW ps \in SUBSET Posts, CreateRole(ps) PROVE IInv'
<1>1. /\ Command /\ Combine(ps) /\ ~Reserved(ps) /\ Cardinality(ps) >= 2
      /\ \A q \in ps : Standalone(q)
      /\ roles' = roles \union {ps}
      /\ UNCHANGED <<replacement, job, application, opening>>
  BY DEF CreateRole
<1>2. /\ post' \in [Posts -> Post]
      /\ serving' \in [Posts -> SUBSET Assignment]
      /\ joined' \subseteq Applications
      /\ PostOK' /\ HistoryOK'
      /\ \A q \in Posts \ ps : post'[q] = post[q]
  BY <1>1, CombineFollows
<1>3. RolesOK' /\ roles' \subseteq SUBSET Posts
  <2>1. \A r \in roles, q \in ps : q \notin r
    BY <1>1, Alone DEF IInv
  <2> QED BY <1>1, <2>1, NewRole
<1>4. TypeOK'
  <2>1. left \in Nat
    BY DEF IInv, TypeOK
  <2>2. left' \in Nat
    BY <1>1, <2>1 DEF Command
  <2> QED BY <1>1, <1>2, <1>3, <2>2 DEF IInv, TypeOK
<1>5. LeaverOK'
  BY <1>1, <1>2 DEF IInv, LeaverOK, Reserved
<1>6. CandidateOK'
  <2>1. \A p, q \in Posts : q \in Members(p) => q \in Members(p)'
    BY <1>1 DEF Members
  <2> QED BY <1>1, <2>1, CandidatesRegrouped
<1>7. ApplicationOK' /\ AcceptedIsApproved'
  BY <1>1 DEF IInv, ApplicationOK, AcceptedIsApproved
<1> QED BY <1>2, <1>3, <1>4, <1>5, <1>6, <1>7 DEF IInv

LEMMA UpdateRoleKeeps ==
    ASSUME IInv, NEW r \in roles, NEW ps \in SUBSET Posts, UpdateRole(r, ps)
    PROVE  IInv'
<1>1. /\ Command /\ Combine(ps) /\ Cardinality(ps) >= 2
      /\ ~Reserved((ps \ r) \union (r \ ps))
      /\ \A q \in ps \ r : Standalone(q)
      /\ \A q \in ps : Protected(q, post'[q])
      /\ roles' = (roles \ {r}) \union {ps}
      /\ UNCHANGED <<replacement, job, application, opening>>
  BY DEF UpdateRole
<1>2. /\ post' \in [Posts -> Post]
      /\ serving' \in [Posts -> SUBSET Assignment]
      /\ joined' \subseteq Applications
      /\ PostOK' /\ HistoryOK'
      /\ \A q \in Posts \ ps : post'[q] = post[q]
  BY <1>1, CombineFollows
<1>3. RolesOK' /\ roles' \subseteq SUBSET Posts
  <2>1. ASSUME NEW s \in roles \ {r}, NEW q \in ps PROVE q \notin s
    <3>1. CASE q \in r
      BY <3>1 DEF IInv, RolesOK
    <3>2. CASE q \notin r
      BY <1>1, <3>2, Alone DEF IInv
    <3> QED BY <3>1, <3>2
  <2> DEFINE rs == roles \ {r}
  <2>2. rs \in SUBSET roles /\ roles' = rs \union {ps} /\ \A s \in rs, q \in ps : q \notin s
    BY <1>1, <2>1
  <2> HIDE DEF rs
  <2> QED BY <1>1, <2>2, NewRole
<1>4. TypeOK'
  <2>1. left \in Nat
    BY DEF IInv, TypeOK
  <2>2. left' \in Nat
    BY <1>1, <2>1 DEF Command
  <2> QED BY <1>1, <1>2, <1>3, <2>2 DEF IInv, TypeOK
<1>5. LeaverOK'
  BY <1>1, <1>2 DEF IInv, LeaverOK, Protected
<1>6. CandidateOK'
  <2>1. ASSUME NEW p \in Posts, NEW q \in Posts,
               replacement[p] # NoReplacement, replacement[q] # NoReplacement,
               q \in Members(p)
        PROVE  q \in Members(p)'
    <3>1. CASE q = p
      BY <3>1 DEF Members
    <3>2. ASSUME NEW s \in roles, p \in s, q \in s
          PROVE  \E t \in roles' : p \in t /\ q \in t
      <4>1. CASE s = r
        BY <1>1, <2>1, <3>2, <4>1 DEF Reserved
      <4>2. CASE s # r
        BY <1>1, <3>2, <4>2
      <4> QED BY <4>1, <4>2
    <3> QED BY <2>1, <3>1, <3>2 DEF Members
  <2> QED BY <1>1, <2>1, CandidatesRegrouped
<1>7. ApplicationOK' /\ AcceptedIsApproved'
  BY <1>1 DEF IInv, ApplicationOK, AcceptedIsApproved
<1> QED BY <1>2, <1>3, <1>4, <1>5, <1>6, <1>7 DEF IInv

LEMMA DeleteRoleKeeps ==
    ASSUME IInv, NEW r \in roles, DeleteRole(r) PROVE IInv'
<1>1. /\ Command /\ ~Reserved(r) /\ roles' = roles \ {r}
      /\ UNCHANGED <<post, replacement, serving, joined, job, application, opening>>
  BY DEF DeleteRole
<1>2. TypeOK'
  <2>1. left \in Nat
    BY DEF IInv, TypeOK
  <2>2. left' \in Nat
    BY <1>1, <2>1 DEF Command
  <2> QED BY <1>1, <2>2 DEF IInv, TypeOK
<1>3. PostOK' /\ HistoryOK' /\ RolesOK' /\ ApplicationOK' /\ AcceptedIsApproved'
      /\ LeaverOK'
  BY <1>1 DEF IInv, PostOK, HistoryOK, RolesOK, ApplicationOK, AcceptedIsApproved,
     LeaverOK
<1>4. CandidateOK'
  <2>1. \A p, q \in Posts :
          replacement[p] # NoReplacement /\ q \in Members(p) => q \in Members(p)'
    BY <1>1 DEF Members, Reserved
  <2> QED BY <1>1, <2>1, CandidatesRegrouped
<1> QED BY <1>2, <1>3, <1>4 DEF IInv

------------------------------------------------------------------------------
(* Jobs and applications. *)

\* A step that leaves the posts, roles and replacements alone.
LEMMA PostsAlone ==
    ASSUME IInv, TypeOK', UNCHANGED <<post, roles, replacement, serving>>,
           \A a \in Applications :
              application[a].willing = "yes" /\ job[JobOf[a]].status = "Closed" =>
                /\ application'[a].willing = "yes"
                /\ job'[JobOf[a]] = job[JobOf[a]],
           ApplicationOK', AcceptedIsApproved'
    PROVE  IInv'
<1>1. \A p : Members(p)' = Members(p)
  BY DEF Members
<1>2. CandidateOK'
  BY <1>1 DEF IInv, CandidateOK
<1>3. PostOK' /\ HistoryOK' /\ RolesOK' /\ LeaverOK'
  BY DEF IInv, PostOK, HistoryOK, RolesOK, LeaverOK
<1> QED BY <1>2, <1>3 DEF IInv

LEMMA ReadForJobKeeps == ASSUME IInv, NEW p \in Posts, ReadForJob(p) PROVE IInv'
<1>1. opening' = opening \union {p}
      /\ UNCHANGED <<post, roles, replacement, serving, joined, job, application, left>>
  BY DEF ReadForJob
<1>2. TypeOK' /\ ApplicationOK' /\ AcceptedIsApproved'
  BY <1>1 DEF IInv, TypeOK, ApplicationOK, AcceptedIsApproved
<1> QED BY <1>1, <1>2, PostsAlone

LEMMA CreateJobKeeps ==
    ASSUME IInv, NEW p \in Posts, NEW j \in Jobs, CreateJob(p, j) PROVE IInv'
<1>1. opening' = opening \ {p}
      /\ UNCHANGED <<post, roles, replacement, serving, joined, application, left>>
  BY DEF CreateJob
<1>2. \/ job[j].status = "none" /\ \E primary \in Members(p) :
           job' = [job EXCEPT ![j] = [status |-> "Open", post |-> primary]]
      \/ UNCHANGED job
  BY DEF CreateJob
<1>3. job' \in [Jobs -> JobType]
  <2>1. job \in [Jobs -> JobType]
    BY DEF IInv, TypeOK, JobType
  <2>2. \A primary \in Members(p) : [status |-> "Open", post |-> primary] \in JobType
    BY MembersType DEF IInv, JobType
  <2> QED BY <1>2, <2>1, <2>2
<1>4. TypeOK' /\ ApplicationOK' /\ AcceptedIsApproved'
  BY <1>1, <1>3 DEF IInv, TypeOK, JobType, ApplicationOK, AcceptedIsApproved
<1>5. \A a \in Applications :
        job[JobOf[a]].status = "Closed" => job'[JobOf[a]] = job[JobOf[a]]
  <2> TAKE a \in Applications
  <2>1. JobOf[a] \in Jobs
    BY RecruitmentAssumption
  <2>2. CASE JobOf[a] = j
    BY <1>2, <2>2
  <2>3. CASE JobOf[a] # j
    BY <1>2, <2>1, <2>3 DEF IInv, TypeOK
  <2> QED BY <2>2, <2>3
<1> QED BY <1>1, <1>4, <1>5, PostsAlone

LEMMA CloseJobKeeps == ASSUME IInv, NEW j \in Jobs, CloseJob(j) PROVE IInv'
<1>1. /\ job[j].status = "Open"
      /\ job' = [job EXCEPT ![j].status = "Closed"]
      /\ UNCHANGED <<post, roles, replacement, serving, joined, application,
                     opening, left>>
  BY DEF CloseJob
<1>2. job' \in [Jobs -> JobType]
  <2>1. job \in [Jobs -> JobType]
    BY DEF IInv, TypeOK, JobType
  <2>2. [job[j] EXCEPT !.status = "Closed"] \in JobType
    BY <2>1 DEF JobType
  <2> QED BY <1>1, <2>1, <2>2
<1>3. TypeOK' /\ ApplicationOK' /\ AcceptedIsApproved'
  BY <1>1, <1>2 DEF IInv, TypeOK, JobType, ApplicationOK, AcceptedIsApproved
<1>4. \A a \in Applications :
        job[JobOf[a]].status = "Closed" => job'[JobOf[a]] = job[JobOf[a]]
  BY <1>1, RecruitmentAssumption DEF IInv, TypeOK
<1> QED BY <1>1, <1>3, <1>4, PostsAlone

\* A job with an accepted candidate is not deleted.
LEMMA DeleteJobKeeps == ASSUME IInv, NEW j \in Jobs, DeleteJob(j) PROVE IInv'
<1>1. /\ \A a \in Applications : JobOf[a] = j => application[a].status = "none"
      /\ job' = [job EXCEPT ![j] = [status |-> "none", post |-> NoPost]]
      /\ UNCHANGED <<post, roles, replacement, serving, joined, application,
                     opening, left>>
  BY DEF DeleteJob
<1>2. job' \in [Jobs -> JobType]
  <2>1. job \in [Jobs -> JobType]
    BY DEF IInv, TypeOK, JobType
  <2>2. [status |-> "none", post |-> NoPost] \in JobType
    BY DEF JobType
  <2> QED BY <1>1, <2>1, <2>2
<1>3. TypeOK' /\ ApplicationOK' /\ AcceptedIsApproved'
  BY <1>1, <1>2 DEF IInv, TypeOK, JobType, ApplicationOK, AcceptedIsApproved
<1>4. ASSUME NEW a \in Applications, application[a].willing = "yes"
      PROVE  job'[JobOf[a]] = job[JobOf[a]]
  <2>1. JobOf[a] # j
    BY <1>1, <1>4 DEF IInv, AcceptedIsApproved
  <2> QED BY <1>1, <2>1, RecruitmentAssumption DEF IInv, TypeOK
<1> QED BY <1>1, <1>3, <1>4, PostsAlone

\* What an application may be.
ApplicationType ==
    [status : {"none", "Active", "Approved", "Rejected", "Withdrawn",
               "Did Not Join"},
     willing : {"unknown", "yes", "no"},
     approved : 0 .. Rounds,
     round : {"none", "Scheduled", "Hold", "Rejected"}]

\* A step of one application that has not been accepted, to one that has not.
LEMMA OneApplication ==
    ASSUME IInv, NEW a \in Applications, NEW new \in ApplicationType,
           application' = [application EXCEPT ![a] = new], UNCHANGED Others,
           application[a].willing # "yes", new.willing # "yes",
           new.round # "none" => new.approved < Rounds
    PROVE  IInv'
<1>1. application \in [Applications -> ApplicationType]
  BY DEF IInv, TypeOK, ApplicationType
<1>2. \A b \in Applications : application'[b] = IF b = a THEN new ELSE application[b]
  BY <1>1
<1>3. application' \in [Applications -> ApplicationType]
  BY <1>1
<1>4. UNCHANGED <<post, roles, replacement, serving, joined, job, opening, left>>
  BY DEF Others
<1>5. TypeOK'
  BY <1>3, <1>4 DEF IInv, TypeOK, ApplicationType
<1>6. ApplicationOK'
  BY <1>2 DEF IInv, ApplicationOK
<1>7. AcceptedIsApproved'
  <2>1. \A b \in Applications : application[b].willing = "yes" =>
           /\ application[b].status \in {"Approved", "Did Not Join"}
           /\ application[b].approved = Rounds
    BY DEF IInv, AcceptedIsApproved
  <2> QED BY <1>2, <2>1 DEF AcceptedIsApproved
<1> QED BY <1>2, <1>4, <1>5, <1>6, <1>7, PostsAlone

\* What a round's decision leaves of an application.
LEMMA DecidedOK ==
    ASSUME NEW app \in ApplicationType, NEW approved \in Nat, approved < Rounds,
           NEW decision \in Decisions
    PROVE  LET new == Decided(app, approved, decision)
           IN  /\ new \in ApplicationType
               /\ new.willing = app.willing
               /\ new.round # "none" => new.approved < Rounds
<1> DEFINE new == Decided(app, approved, decision)
<1>1. Rounds \in Nat /\ approved \in 0 .. Rounds /\ approved + 1 \in 0 .. Rounds
  BY RecruitmentAssumption
<1>2. CASE decision = "Approved"
  <2>1. new = [app EXCEPT !.approved = approved + 1, !.round = "none",
                          !.status = IF approved + 1 = Rounds THEN "Approved"
                                     ELSE "Active"]
    BY <1>2 DEF Decided
  <2> QED BY <1>1, <2>1 DEF ApplicationType
<1>3. CASE decision = "Hold"
  <2>1. new = [app EXCEPT !.approved = approved, !.round = "Hold",
                          !.status = "Active"]
    BY <1>3 DEF Decided
  <2> QED BY <1>1, <2>1 DEF ApplicationType
<1>4. CASE decision = "Rejected"
  <2>1. new = [app EXCEPT !.approved = approved, !.round = "Rejected",
                          !.status = "Rejected"]
    BY <1>4 DEF Decided
  <2> QED BY <1>1, <2>1 DEF ApplicationType
<1> QED BY <1>2, <1>3, <1>4 DEF Decisions

\* An application's record, and what its status says of the acceptance.
LEMMA ApplicationFacts ==
    ASSUME IInv, NEW a \in Applications
    PROVE  /\ application[a] \in ApplicationType
           /\ application[a].approved \in Nat /\ application[a].approved <= Rounds
           /\ application[a].round # "none" => application[a].approved < Rounds
           /\ application[a].willing = "yes" =>
                application[a].status \in {"Approved", "Did Not Join"}
<1>1. application[a] \in ApplicationType
  BY DEF IInv, TypeOK, ApplicationType
<1>2. application[a].approved \in 0 .. Rounds /\ Rounds \in Nat
  BY <1>1, RecruitmentAssumption DEF ApplicationType
<1>3. application[a].round # "none" => application[a].approved < Rounds
  BY DEF IInv, ApplicationOK
<1>4. application[a].willing = "yes" =>
        application[a].status \in {"Approved", "Did Not Join"}
  BY DEF IInv, AcceptedIsApproved
<1>5. application[a].approved \in Nat /\ application[a].approved <= Rounds
  BY <1>2
<1> QED BY <1>1, <1>3, <1>4, <1>5

LEMMA AssignCandidateKeeps ==
    ASSUME IInv, NEW a \in Applications, AssignCandidate(a) PROVE IInv'
<1> DEFINE new == [application[a] EXCEPT !.status = "Active"]
<1>1. application' = [application EXCEPT ![a] = new] /\ UNCHANGED Others
      /\ application[a].status = "none"
  BY DEF AssignCandidate
<1>2. new \in ApplicationType /\ new.willing = application[a].willing
      /\ (new.round # "none" => new.approved < Rounds)
  BY ApplicationFacts DEF ApplicationType
<1>3. application[a].willing # "yes"
  BY <1>1, ApplicationFacts
<1> HIDE DEF new
<1> QED BY <1>1, <1>2, <1>3, OneApplication

LEMMA ScheduleInterviewKeeps ==
    ASSUME IInv, NEW a \in Applications, ScheduleInterview(a) PROVE IInv'
<1> DEFINE new == [application[a] EXCEPT !.round = "Scheduled"]
<1>1. application' = [application EXCEPT ![a] = new] /\ UNCHANGED Others
      /\ application[a].status = "Active" /\ application[a].approved < Rounds
  BY DEF ScheduleInterview
<1>2. new \in ApplicationType /\ new.willing = application[a].willing
      /\ (new.round # "none" => new.approved < Rounds)
  BY <1>1, ApplicationFacts DEF ApplicationType
<1>3. application[a].willing # "yes"
  BY <1>1, ApplicationFacts
<1> HIDE DEF new
<1> QED BY <1>1, <1>2, <1>3, OneApplication

LEMMA RecordInterviewKeeps ==
    ASSUME IInv, NEW a \in Applications, NEW decision \in Decisions,
           RecordInterview(a, decision)
    PROVE  IInv'
<1> DEFINE new == Decided(application[a], application[a].approved, decision)
<1>1. application' = [application EXCEPT ![a] = new] /\ UNCHANGED Others
      /\ application[a].status = "Active" /\ application[a].round = "Scheduled"
  BY DEF RecordInterview
<1>2. new \in ApplicationType /\ new.willing = application[a].willing
      /\ (new.round # "none" => new.approved < Rounds)
  BY <1>1, ApplicationFacts, DecidedOK
<1>3. application[a].willing # "yes"
  BY <1>1, ApplicationFacts
<1> HIDE DEF new
<1> QED BY <1>1, <1>2, <1>3, OneApplication

LEMMA UpdateInterviewRoundKeeps ==
    ASSUME IInv, NEW a \in Applications, NEW decision \in Decisions,
           UpdateInterviewRound(a, decision)
    PROVE  IInv'
<1>1. UNCHANGED Others /\ application[a].willing = "unknown"
  BY DEF UpdateInterviewRound
<1>2. PICK approved \in Nat :
        /\ approved < Rounds
        /\ application' = [application EXCEPT ![a] =
             Decided(application[a], approved, decision)]
  <2>1. CASE /\ application[a].round \in {"Hold", "Rejected"} \ {decision}
             /\ application' = [application EXCEPT ![a] =
                  Decided(@, @.approved, decision)]
    BY <2>1, ApplicationFacts
  <2>2. CASE /\ application[a].round = "none" /\ application[a].approved > 0
             /\ application' = [application EXCEPT ![a] =
                  Decided(@, @.approved - 1, decision)]
    <3>1. application[a].approved - 1 \in Nat /\ application[a].approved - 1 < Rounds
      <4> DEFINE n == application[a].approved
      <4>1. n \in Nat /\ n <= Rounds /\ n > 0 /\ Rounds \in Nat
        BY <2>2, ApplicationFacts, RecruitmentAssumption
      <4> HIDE DEF n
      <4>2. n - 1 \in Nat /\ n - 1 < Rounds
        BY <4>1
      <4> QED BY <4>2 DEF n
    <3> QED BY <2>2, <3>1
  <2> QED BY <2>1, <2>2 DEF UpdateInterviewRound
<1> DEFINE new == Decided(application[a], approved, decision)
<1>3. new \in ApplicationType /\ new.willing = application[a].willing
      /\ (new.round # "none" => new.approved < Rounds)
  BY <1>2, ApplicationFacts, DecidedOK
<1>4. application' = [application EXCEPT ![a] = new]
  BY <1>2
<1> HIDE DEF new
<1> QED BY <1>1, <1>3, <1>4, OneApplication

LEMMA WithdrawApplicationKeeps ==
    ASSUME IInv, NEW a \in Applications, WithdrawApplication(a) PROVE IInv'
<1> DEFINE new == [application[a] EXCEPT !.status = "Withdrawn"]
<1>1. application' = [application EXCEPT ![a] = new] /\ UNCHANGED Others
      /\ application[a].status = "Active"
  BY DEF WithdrawApplication
<1>2. new \in ApplicationType /\ new.willing = application[a].willing
      /\ (new.round # "none" => new.approved < Rounds)
  BY ApplicationFacts DEF ApplicationType
<1>3. application[a].willing # "yes"
  BY <1>1, ApplicationFacts
<1> HIDE DEF new
<1> QED BY <1>1, <1>2, <1>3, OneApplication

LEMMA DeclineAppointmentKeeps ==
    ASSUME IInv, NEW a \in Applications, DeclineAppointment(a) PROVE IInv'
<1> DEFINE new == [application[a] EXCEPT !.status = "Withdrawn", !.willing = "no"]
<1>1. application' = [application EXCEPT ![a] = new] /\ UNCHANGED Others
      /\ application[a].willing = "unknown"
  BY DEF DeclineAppointment, Completable
<1>2. new \in ApplicationType /\ new.willing = "no"
      /\ (new.round # "none" => new.approved < Rounds)
  BY ApplicationFacts DEF ApplicationType
<1> HIDE DEF new
<1> QED BY <1>1, <1>2, OneApplication

------------------------------------------------------------------------------
(* Appointments that are accepted, and those that fall through. *)

\* One application and its job change.
LEMMA JobAndApplicationType ==
    ASSUME IInv, NEW a \in Applications, NEW status \in {"Open", "Closed"},
           job' = [job EXCEPT ![JobOf[a]].status = status],
           NEW new \in ApplicationType, application' = [application EXCEPT ![a] = new],
           new.willing = "yes", new.approved = Rounds, new.round = application[a].round,
           new.status \in {"Approved", "Did Not Join"},
           application[a].approved = Rounds
    PROVE  /\ job' \in [Jobs -> JobType]
           /\ application' \in [Applications -> ApplicationType]
           /\ ApplicationOK' /\ AcceptedIsApproved'
           /\ \A b \in Applications : application[b].willing = "yes" =>
                                      application'[b].willing = "yes"
           /\ \A j \in Jobs : /\ job'[j].post = job[j].post
                              /\ j # JobOf[a] => job'[j] = job[j]
           /\ job'[JobOf[a]].status = status
           /\ application'[a] = new
<1>1. application \in [Applications -> ApplicationType]
  BY DEF IInv, TypeOK, ApplicationType
<1>2. \A b \in Applications : application'[b] = IF b = a THEN new ELSE application[b]
  BY <1>1
<1>3. application' \in [Applications -> ApplicationType]
  BY <1>1
<1>4. job \in [Jobs -> JobType] /\ JobOf[a] \in Jobs
  BY RecruitmentAssumption DEF IInv, TypeOK, JobType
<1>5. [job[JobOf[a]] EXCEPT !.status = status] \in JobType
  BY <1>4 DEF JobType
<1>6. job' \in [Jobs -> JobType]
  BY <1>4, <1>5
<1>7. \A j \in Jobs : /\ job'[j].post = job[j].post
                      /\ j # JobOf[a] => job'[j] = job[j]
  BY <1>4 DEF JobType
<1>8. job'[JobOf[a]].status = status
  BY <1>4 DEF JobType
<1>9. ApplicationOK' /\ AcceptedIsApproved'
  <2>1. ApplicationOK'
    BY <1>2 DEF IInv, ApplicationOK
  <2>2. AcceptedIsApproved'
    BY <1>2 DEF IInv, AcceptedIsApproved
  <2> QED BY <2>1, <2>2
<1> QED BY <1>2, <1>3, <1>6, <1>7, <1>8, <1>9

LEMMA JobPost ==
    ASSUME IInv, NEW a \in Applications
    PROVE  job[JobOf[a]].post \in Posts \union {NoPost}
<1>1. JobOf[a] \in Jobs
  BY RecruitmentAssumption
<1> QED BY <1>1 DEF IInv, TypeOK

LEMMA AcceptKeeps ==
    ASSUME IInv, NEW a \in Applications, application[a].approved = Rounds, Accept(a)
    PROVE  IInv'
<1> DEFINE p == job[JobOf[a]].post
           x == CandidateOf[a]
           new == [application[a] EXCEPT !.status = "Approved", !.willing = "yes"]
<1>1. /\ p # NoPost /\ AppointTo(p, x, a, FALSE)
      /\ application' = [application EXCEPT ![a].status = "Approved",
                                            ![a].willing = "yes"]
      /\ job' = [job EXCEPT ![JobOf[a]].status = "Closed"]
      /\ UNCHANGED <<roles, opening, left>>
  BY DEF Accept
<1>2. p \in Posts /\ x \in People /\ JobOf[a] \in Jobs
  BY <1>1, RecruitmentAssumption DEF IInv, TypeOK
<1>3. new \in ApplicationType /\ new.willing = "yes" /\ new.approved = Rounds
      /\ new.round = application[a].round /\ new.status = "Approved"
  BY ApplicationFacts DEF ApplicationType
<1>4. application' = [application EXCEPT ![a] = new]
  BY <1>1 DEF IInv, TypeOK
<1> HIDE DEF new
<1>5. /\ job' \in [Jobs -> JobType]
      /\ application' \in [Applications -> ApplicationType]
      /\ ApplicationOK' /\ AcceptedIsApproved'
      /\ \A b \in Applications : application[b].willing = "yes" =>
                                 application'[b].willing = "yes"
      /\ \A j \in Jobs : /\ job'[j].post = job[j].post
                         /\ j # JobOf[a] => job'[j] = job[j]
      /\ job'[JobOf[a]].status = "Closed"
      /\ application'[a] = new
  BY <1>1, <1>3, <1>4, JobAndApplicationType
<1> HIDE DEF p, x
<1>1a. AppointedTo(p, x, a)
  BY <1>1, <1>2, AppointToKeeps
<1>6. /\ post' \in [Posts -> Post]
      /\ serving' \in [Posts -> SUBSET Assignment]
      /\ joined' \subseteq Applications
      /\ replacement' \in [Posts -> Assignment \union {NoReplacement}]
      /\ PostOK' /\ HistoryOK' /\ LeaverOK'
      /\ ~Reserved(Members(p))
      /\ \/ UNCHANGED replacement
         \/ replacement' = [q \in Posts |-> IF q \in Members(p)
                                            THEN [person |-> x, app |-> a]
                                            ELSE replacement[q]]
  BY <1>1a DEF AppointedTo
<1>7. TypeOK'
  BY <1>1, <1>5, <1>6 DEF IInv, TypeOK, JobType, ApplicationType
<1>8. \A j \in Jobs : job[j].status = "Closed" => job'[j] = job[j]
  <2>1. job \in [Jobs -> JobType]
    BY DEF IInv, TypeOK, JobType
  <2>2. \A j \in Jobs : job[j].status = "Closed" =>
           [job[j] EXCEPT !.status = "Closed"] = job[j]
    BY <2>1 DEF JobType
  <2> QED BY <1>1, <2>1, <2>2
<1>9. CandidateOK'
  <2>1. CASE UNCHANGED replacement
    BY <1>1, <1>5, <1>8, <2>1, CandidatesKept DEF IInv
  <2>2. CASE replacement' = [q \in Posts |-> IF q \in Members(p)
                                             THEN [person |-> x, app |-> a]
                                             ELSE replacement[q]]
    <3>1. job'[JobOf[a]].post = p /\ application'[a].willing = "yes"
      BY <1>2, <1>3, <1>5 DEF p
    <3> QED BY <1>1, <1>2, <1>5, <1>6, <1>8, <2>2, <3>1, ReservedFor
  <2> QED BY <1>6, <2>1, <2>2
<1>10. RolesOK'
  BY <1>1 DEF IInv, RolesOK
<1> QED BY <1>5, <1>6, <1>7, <1>9, <1>10 DEF IInv

LEMMA AcceptAppointmentKeeps ==
    ASSUME IInv, NEW a \in Applications, AcceptAppointment(a) PROVE IInv'
BY AcceptKeeps DEF AcceptAppointment, Completable

LEMMA ReappointKeeps ==
    ASSUME IInv, NEW a \in Applications, Reappoint(a) PROVE IInv'
BY AcceptKeeps DEF Reappoint

\* The posts that Did Not Join decides about.
AppointedFor(a) ==
    {p \in Posts : post[p].app = a}
        \union (IF job[JobOf[a]].post = NoPost THEN {} ELSE Members(job[JobOf[a]].post))

\* Did Not Join ends every reservation for a candidate of the job it opens.
LEMMA JobReopens ==
    ASSUME IInv, NEW a \in Applications, DidNotJoin(a),
           NEW q \in Posts, NEW b \in Applications, replacement[q].app = b,
           q \notin AppointedFor(a)
    PROVE  JobOf[b] # JobOf[a] /\ job[JobOf[b]].post \notin AppointedFor(a)
<1> DEFINE home == job[JobOf[a]].post
           ps == AppointedFor(a)
           pending == {p \in Posts : /\ replacement[p] # NoReplacement
                                     /\ replacement[p].app = a \/ p \in ps}
<1>1. /\ home \in ps
      /\ \/ pending = ps /\ \A p \in ps : replacement[p].app = a
         \/ pending = {}
  BY DEF DidNotJoin, AppointedFor
<1>2. LET at == job[JobOf[b]].post
      IN  at \in Posts /\ replacement[at] = replacement[q]
  BY DEF IInv, CandidateOK
<1>3. replacement[q] # NoReplacement
  BY RecruitmentAssumption DEF NoReplacement
<1>4. b # a
  BY <1>1, <1>3
<1>5. ASSUME job[JobOf[b]].post \in ps PROVE FALSE
  <2>1. job[JobOf[b]].post \in pending
    BY <1>2, <1>3, <1>5
  <2> QED BY <1>1, <1>2, <1>4, <1>5, <2>1
<1> QED BY <1>1, <1>5

LEMMA DidNotJoinKeeps ==
    ASSUME IInv, NEW a \in Applications, DidNotJoin(a) PROVE IInv'
<1> DEFINE home == job[JobOf[a]].post
           ps == AppointedFor(a)
           new == [application[a] EXCEPT !.status = "Did Not Join"]
           empty == [p \in ps |-> Vacant]
<1>1. /\ application[a].willing = "yes"
      /\ application' = [application EXCEPT ![a].status = "Did Not Join"]
      /\ job' = [job EXCEPT ![JobOf[a]].status = "Open"]
      /\ UNCHANGED <<roles, opening, left>>
      /\ \/ GiveUp(ps)
         \/ /\ \A p \in Posts : replacement[p] = NoReplacement \/ p \notin ps
            /\ Update(ps, empty)
            /\ UNCHANGED replacement
  BY DEF DidNotJoin, AppointedFor
<1>2. ps \in SUBSET Posts /\ JobOf[a] \in Jobs
  <2>1. JobOf[a] \in Jobs
    BY RecruitmentAssumption
  <2>2. home = NoPost \/ home \in Posts
    BY <2>1 DEF IInv, TypeOK
  <2> QED BY <2>1, <2>2, MembersType DEF AppointedFor, IInv
<1>3. application[a].approved = Rounds
  BY <1>1 DEF IInv, AcceptedIsApproved
<1>4. new \in ApplicationType /\ new.willing = "yes" /\ new.approved = Rounds
      /\ new.round = application[a].round /\ new.status = "Did Not Join"
  BY <1>1, <1>3, ApplicationFacts DEF ApplicationType
<1>5. application' = [application EXCEPT ![a] = new]
  BY <1>1
<1> HIDE DEF new
<1>6. /\ job' \in [Jobs -> JobType]
      /\ application' \in [Applications -> ApplicationType]
      /\ ApplicationOK' /\ AcceptedIsApproved'
      /\ \A b \in Applications : application[b].willing = "yes" =>
                                 application'[b].willing = "yes"
      /\ \A j \in Jobs : /\ job'[j].post = job[j].post
                         /\ j # JobOf[a] => job'[j] = job[j]
  BY <1>1, <1>3, <1>4, <1>5, JobAndApplicationType
<1>7. replacement' = [q \in Posts |-> IF q \in ps THEN NoReplacement
                                      ELSE replacement[q]]
  BY <1>1 DEF GiveUp, IInv, TypeOK
<1>8. CandidateOK'
  <2>1. ASSUME NEW q \in Posts, NEW b \in Applications, q \notin ps,
               replacement[q].app = b
        PROVE  job[JobOf[b]].post \notin ps /\ job'[JobOf[b]] = job[JobOf[b]]
    <3>1. JobOf[b] # JobOf[a] /\ job[JobOf[b]].post \notin ps
      BY <2>1, JobReopens
    <3>2. JobOf[b] \in Jobs
      BY RecruitmentAssumption
    <3> QED BY <1>6, <3>1, <3>2
  <2>2. UNCHANGED roles
    BY <1>1
  <2>3. \A q \in Posts, b \in Applications :
          q \notin ps /\ replacement[q].app = b =>
            /\ job[JobOf[b]].post \notin ps
            /\ job'[JobOf[b]] = job[JobOf[b]]
            /\ application[b].willing = "yes" => application'[b].willing = "yes"
    BY <1>6, <2>1
  <2> HIDE DEF ps
  <2> QED BY <1>2, <1>7, <2>2, <2>3, CandidatesLeave
<1>9. /\ post' \in [Posts -> Post]
      /\ serving' \in [Posts -> SUBSET Assignment]
      /\ joined' \subseteq Applications
      /\ PostOK' /\ HistoryOK'
      /\ \A q \in Posts : q \notin ps => post'[q] = post[q]
  <2>1. CASE GiveUp(ps)
    <3>1. UNCHANGED <<post, serving, joined>>
      BY <2>1 DEF GiveUp
    <3>2. PostOK' /\ HistoryOK'
      BY <3>1 DEF IInv, PostOK, HistoryOK
    <3> QED BY <3>1, <3>2 DEF IInv, TypeOK
  <2>2. CASE Update(ps, empty)
    <3>1. Written(ps, empty)
      BY DEF Written, PersonOK, Post, Vacant
    <3> HIDE DEF empty, ps
    <3> QED BY <1>2, <2>2, <3>1, UpdateFollows DEF IInv
  <2> QED BY <1>1, <2>1, <2>2
<1>10. LeaverOK'
  BY <1>2, <1>7, <1>9 DEF IInv, LeaverOK
<1>11. TypeOK'
  <2>1. replacement' \in [Posts -> Assignment \union {NoReplacement}]
    BY <1>7 DEF IInv, TypeOK
  <2> QED BY <1>1, <1>6, <1>9, <2>1 DEF IInv, TypeOK, JobType, ApplicationType
<1>12. RolesOK'
  BY <1>1 DEF IInv, RolesOK
<1> QED BY <1>6, <1>8, <1>9, <1>10, <1>11, <1>12 DEF IInv

------------------------------------------------------------------------------
(* The commands together. *)

LEMMA InitIInv == Init => IInv
<1> SUFFICES ASSUME Init PROVE IInv
  OBVIOUS
<1>1. /\ post = [p \in Posts |-> Vacant] /\ roles = {}
      /\ replacement = [p \in Posts |-> NoReplacement]
      /\ serving = [p \in Posts |-> {}] /\ joined = {} /\ opening = {}
  BY DEF Init
<1>2. /\ job \in [Jobs -> JobType] /\ left \in Nat
      /\ application \in [Applications -> ApplicationType]
      /\ \A a \in Applications : application[a].willing = "unknown"
                                 /\ application[a].round = "none"
  <2>1. PICK start \in Starts, at \in [Jobs -> Posts] :
          LET asked == {JobOf[a] : a \in start.ready}
          IN  /\ job = [j \in Jobs |->
                   [status |-> IF j \in asked THEN "Open" ELSE "none",
                    post |-> IF j \in asked THEN at[j] ELSE NoPost]]
              /\ application = [a \in Applications |->
                   IF a \in start.ready
                   THEN [status |-> "Approved", willing |-> "unknown",
                         approved |-> Rounds, round |-> "none"]
                   ELSE NoApplicationYet]
              /\ left = start.left
    BY DEF Init
  <2>2. start.left \in Nat /\ Rounds \in Nat
    BY RecruitmentAssumption
  <2>3. [status |-> "Approved", willing |-> "unknown", approved |-> Rounds,
         round |-> "none"] \in ApplicationType
    BY <2>2 DEF ApplicationType
  <2>4. NoApplicationYet \in ApplicationType
    BY <2>2 DEF ApplicationType, NoApplicationYet
  <2>5. job \in [Jobs -> JobType]
    BY <2>1 DEF JobType
  <2>6. \A a \in Applications : application[a].willing = "unknown"
                                /\ application[a].round = "none"
    BY <2>1 DEF NoApplicationYet
  <2> QED BY <2>1, <2>2, <2>3, <2>4, <2>5, <2>6
<1>3. Vacant \in Post /\ PersonOK(Vacant) /\ HistoryOf(Vacant, {})
  BY DEF Vacant, Post, PersonOK, HistoryOf
<1>4. TypeOK
  BY <1>1, <1>2, <1>3 DEF TypeOK, JobType, ApplicationType
<1>5. PostOK /\ HistoryOK /\ RolesOK
  BY <1>1, <1>3 DEF PostOK, HistoryOK, RolesOK
<1>6. ApplicationOK /\ AcceptedIsApproved
  BY <1>2 DEF ApplicationOK, AcceptedIsApproved
<1>7. LeaverOK /\ CandidateOK
  BY <1>1, RecruitmentAssumption DEF LeaverOK, CandidateOK, NoReplacement
<1> QED BY <1>4, <1>5, <1>6, <1>7 DEF IInv

LEMMA NextKeeps == ASSUME IInv, Next PROVE IInv'
<1>1. ASSUME NEW p \in Posts, NEW x \in People, NEW code \in BOOLEAN,
             Appoint(p, x, code)
      PROVE  IInv'
  BY <1>1, AppointKeeps
<1>2. ASSUME NEW p \in Posts, NEW x \in People, Join(p, x) PROVE IInv'
  BY <1>2, JoinKeeps
<1>3. ASSUME NEW p \in Posts, NEW x \in People, NEW upload \in {"csv", "workbook"},
             NEW event \in Events, NEW code \in BOOLEAN,
             BulkAssign(p, upload, event, x, code)
      PROVE  IInv'
  BY <1>3, BulkAssignKeeps
<1>4. ASSUME NEW p \in Posts,
             \/ Resign(p) \/ Remove(p) \/ ChangeRole(p) \/ WithdrawResignation(p)
             \/ JoinReplacement(p) \/ CancelReplacement(p) \/ ReadForJob(p)
             \/ \E q \in Posts : CorrectDesignation(p, q)
             \/ \E j \in Jobs : CreateJob(p, j)
      PROVE  IInv'
  BY <1>4, ResignKeeps, RemoveKeeps, ChangeRoleKeeps, WithdrawResignationKeeps,
     JoinReplacementKeeps, CancelReplacementKeeps, ReadForJobKeeps,
     CorrectDesignationKeeps, CreateJobKeeps
<1>5. ASSUME NEW ps \in SUBSET Posts,
             CreateRole(ps) \/ \E r \in roles : UpdateRole(r, ps)
      PROVE  IInv'
  BY <1>5, CreateRoleKeeps, UpdateRoleKeeps
<1>6. ASSUME NEW r \in roles, DeleteRole(r) PROVE IInv'
  BY <1>6, DeleteRoleKeeps
<1>7. ASSUME NEW j \in Jobs, CloseJob(j) \/ DeleteJob(j) PROVE IInv'
  BY <1>7, CloseJobKeeps, DeleteJobKeeps
<1>8. ASSUME NEW a \in Applications,
             \/ AssignCandidate(a) \/ ScheduleInterview(a)
             \/ \E decision \in Decisions :
                  RecordInterview(a, decision) \/ UpdateInterviewRound(a, decision)
             \/ WithdrawApplication(a) \/ AcceptAppointment(a)
             \/ DeclineAppointment(a) \/ DidNotJoin(a) \/ Reappoint(a)
      PROVE  IInv'
  BY <1>8, AssignCandidateKeeps, ScheduleInterviewKeeps, RecordInterviewKeeps,
     UpdateInterviewRoundKeeps, WithdrawApplicationKeeps, AcceptAppointmentKeeps,
     DeclineAppointmentKeeps, DidNotJoinKeeps, ReappointKeeps
<1> QED BY <1>1, <1>2, <1>3, <1>4, <1>5, <1>6, <1>7, <1>8 DEF Next

LEMMA StutterKeeps == ASSUME IInv, UNCHANGED vars PROVE IInv'
<1>1. UNCHANGED <<post, roles, replacement, serving, job, application>> /\ TypeOK'
  BY DEF vars, IInv, TypeOK
<1>2. \A p : Members(p)' = Members(p)
  BY <1>1 DEF Members
<1>3. CandidateOK'
  BY <1>1, <1>2 DEF IInv, CandidateOK
<1> QED BY <1>1, <1>3 DEF IInv, PostOK, HistoryOK, RolesOK, ApplicationOK,
       AcceptedIsApproved, LeaverOK

\* Every command keeps the posts, their history and the pending replacements in
\* step (assignEmployeeInTransaction, the triggers of migrations 0038 and 0135).
THEOREM Invariance == Spec => []IInv
<1>1. IInv /\ [Next]_vars => IInv'
  BY NextKeeps, StutterKeeps
<1> QED BY <1>1, InitIInv, PTL DEF Spec

\* The types of the posts, roles, replacements, jobs and applications.
THEOREM TypeCorrect == Spec => []TypeOK
<1>1. IInv => TypeOK
  BY DEF IInv
<1> QED BY <1>1, Invariance, PTL

\* At most one person holds a post at a time according to its history, and the
\* history says the same as the post (track_employee_post_assignment).
THEOREM HistoryMatches == Spec => []HistoryFollows
<1>1. ASSUME IInv PROVE HistoryFollows
  <2> SUFFICES ASSUME NEW p \in Posts
               PROVE  /\ post[p].status = "Occupied" =>
                           {row.person : row \in serving[p]} = {post[p].person}
                      /\ post[p].status \in {"Vacant", "Appointed"} => serving[p] = {}
                      /\ post[p].status = "Resigned" => serving[p] = OwnRows(p)
                      /\ Cardinality(serving[p]) <= 1
    BY DEF HistoryFollows
  <2>1. HistoryOf(post[p], serving[p])
    BY <1>1 DEF IInv, HistoryOK
  <2>2. CASE serving[p] = {}
    <3>1. Cardinality(serving[p]) = 0
      BY <2>2, FS_EmptySet
    <3> QED BY <2>1, <2>2, <3>1 DEF HistoryOf, OwnRows
  <2>3. ASSUME NEW row \in serving[p]
        PROVE  /\ {r.person : r \in serving[p]} = {post[p].person}
               /\ serving[p] = OwnRows(p)
               /\ Cardinality(serving[p]) = 1
    <3>1. serving[p] = {row} /\ row.person = post[p].person
      BY <2>1 DEF HistoryOf
    <3>2. Cardinality(serving[p]) = 1
      BY <3>1, FS_Singleton
    <3> QED BY <3>1, <3>2 DEF OwnRows
  <2>4. CASE serving[p] # {}
    <3>1. PICK row \in serving[p] : TRUE
      BY <2>4
    <3> QED BY <2>1, <2>3, <3>1 DEF HistoryOf
  <2> QED BY <2>2, <2>4
<1> QED BY <1>1, Invariance, PTL

\* No later decision undoes an approval that an accepted appointment rests on
\* (completeCandidateAppointmentInTransaction, updateInterviewRound).
THEOREM AcceptanceHolds == Spec => []AcceptedIsApproved
<1>1. IInv => AcceptedIsApproved
  BY DEF IInv
<1> QED BY <1>1, Invariance, PTL

------------------------------------------------------------------------------
(* How a pending replacement ends. *)

\* Only a newcomer's reservation starts, where there is none.
LEMMA AppointToReserves ==
    ASSUME IInv, NEW p \in Posts, NEW x, NEW a, NEW code, AppointTo(p, x, a, code)
    PROVE  ReservationKept
<1>1. \A q \in Members(p) : replacement[q] = NoReplacement
  BY DEF AppointTo, Reserved
<1>2. \A q \in Posts : q \notin Members(p) => replacement'[q] = replacement[q]
  BY DEF AppointTo
<1> QED BY <1>1, <1>2 DEF ReservationKept

LEMMA GiveUpKeepsLeaver ==
    ASSUME NEW ps, GiveUp(ps) PROVE ReservationKept
BY DEF GiveUp, ReservationKept

LEMMA JoinReplacementTakes ==
    ASSUME IInv, NEW p \in Posts, JoinReplacement(p) PROVE ReservationKept
<1> DEFINE ps == Members(p)
           new == [status |-> "Occupied", person |-> replacement[p].person,
                   app |-> replacement[p].app, coded |-> TRUE]
<1>1. /\ \A q \in ps : replacement[q] = replacement[p]
      /\ Update(ps, [q \in ps |-> new])
      /\ replacement' = [q \in Posts |->
           IF q \in ps THEN NoReplacement ELSE replacement[q]]
  BY MembersType DEF JoinReplacement, SameReplacement, IInv
<1>2. \A q \in Posts : q \in ps => post'[q] = new
  BY <1>1 DEF Update
<1> QED BY <1>1, <1>2 DEF ReservationKept

LEMMA ReservationsEnd == ASSUME IInv, Next PROVE ReservationKept
<1>1. CASE UNCHANGED replacement
  BY <1>1 DEF ReservationKept
<1>2. ASSUME NEW p \in Posts, NEW x \in People, NEW code \in BOOLEAN,
             Appoint(p, x, code)
      PROVE  ReservationKept
  BY <1>2, AppointToReserves DEF Appoint
<1>3. ASSUME NEW p \in Posts, JoinReplacement(p) PROVE ReservationKept
  BY <1>3, JoinReplacementTakes
<1>4. ASSUME NEW p \in Posts, CancelReplacement(p) PROVE ReservationKept
  BY <1>4, GiveUpKeepsLeaver DEF CancelReplacement
<1>5. ASSUME NEW a \in Applications, Accept(a) PROVE ReservationKept
  <2>1. job[JobOf[a]].post \in Posts
    BY <1>5, JobPost DEF Accept
  <2> QED BY <1>5, <2>1, AppointToReserves DEF Accept
<1>6. ASSUME NEW a \in Applications, DidNotJoin(a) PROVE ReservationKept
  <2>1. GiveUp(AppointedFor(a)) \/ UNCHANGED replacement
    BY <1>6 DEF DidNotJoin, AppointedFor
  <2> QED BY <1>1, <2>1, GiveUpKeepsLeaver
<1>7. ASSUME NEW p \in Posts, NEW x \in People, NEW upload, NEW event, NEW code,
             Join(p, x) \/ BulkAssign(p, upload, event, x, code)
      PROVE  UNCHANGED replacement
  BY <1>7 DEF Join, BulkAssign
<1>8. ASSUME NEW p \in Posts,
             \/ Resign(p) \/ Remove(p) \/ ChangeRole(p) \/ WithdrawResignation(p)
             \/ ReadForJob(p) \/ \E q \in Posts : CorrectDesignation(p, q)
             \/ \E j \in Jobs : CreateJob(p, j)
      PROVE  UNCHANGED replacement
  BY <1>8 DEF Resign, Remove, ChangeRole, WithdrawResignation, ReadForJob,
     CorrectDesignation, CreateJob
<1>9. ASSUME NEW r, NEW ps, CreateRole(ps) \/ UpdateRole(r, ps) \/ DeleteRole(r)
      PROVE  UNCHANGED replacement
  BY <1>9 DEF CreateRole, UpdateRole, DeleteRole
<1>10. ASSUME NEW j \in Jobs, CloseJob(j) \/ DeleteJob(j) PROVE UNCHANGED replacement
  BY <1>10 DEF CloseJob, DeleteJob
<1>11. ASSUME NEW a \in Applications,
              \/ AssignCandidate(a) \/ ScheduleInterview(a)
              \/ \E decision \in Decisions :
                   RecordInterview(a, decision) \/ UpdateInterviewRound(a, decision)
              \/ WithdrawApplication(a) \/ DeclineAppointment(a)
       PROVE  UNCHANGED replacement
  BY <1>11 DEF AssignCandidate, ScheduleInterview, RecordInterview,
     UpdateInterviewRound, WithdrawApplication, DeclineAppointment, Others
<1>12. ASSUME NEW a \in Applications, AcceptAppointment(a) \/ Reappoint(a)
       PROVE  Accept(a)
  BY <1>12 DEF AcceptAppointment, Reappoint
<1> QED BY <1>1, <1>2, <1>3, <1>4, <1>5, <1>6, <1>7, <1>8, <1>9, <1>10, <1>11,
       <1>12 DEF Next

\* A reservation ends by taking the post or by being given up, and what it
\* waits for holds meanwhile (migration 0135, recordCandidateDidNotJoin).
THEOREM ReservationsHold == Spec => ReplacementKept
<1>1. IInv => ReplacementWaits
  <2> SUFFICES ASSUME IInv PROVE ReplacementWaits
    OBVIOUS
  <2>1. \A p \in Posts, a \in Applications : replacement[p].app = a =>
          job[JobOf[a]].status = "Closed" /\ application[a].willing = "yes"
    BY DEF IInv, CandidateOK
  <2> QED BY <2>1 DEF IInv, LeaverOK, ReplacementWaits
<1>2. IInv /\ Next => ReservationKept
  BY ReservationsEnd
<1> QED BY <1>1, <1>2, Invariance, PTL DEF Spec, ReplacementKept

------------------------------------------------------------------------------
(* Combined roles stay filled as one. *)

\* What a step may do to the roles there are after it.
Together ==
    \A r \in roles' :
        r \notin roles \/ FilledAsOne(r) => FilledAsOne(r)' \/ ClearedInPart(r)

Alike(ps) == \A p, q \in ps : /\ post'[p].status = post'[q].status
                              /\ post'[p].person = post'[q].person

\* No role is new, and no post of a role changes.
LEMMA PostsStay ==
    ASSUME roles' \subseteq roles, UNCHANGED post PROVE Together
BY DEF Together, FilledAsOne

\* The members of one role change, and all of them alike.
LEMMA MembersAlike ==
    ASSUME IInv, NEW p \in Posts, UNCHANGED roles, Alike(Members(p)),
           \A q \in Posts : q \notin Members(p) => post'[q] = post[q]
    PROVE  Together
<1> SUFFICES ASSUME NEW r \in roles, FilledAsOne(r) PROVE FilledAsOne(r)'
  BY DEF Together
<1>1. r \subseteq Posts
  BY DEF IInv, TypeOK
<1>2. CASE r \subseteq Members(p)
  BY <1>2 DEF FilledAsOne, Alike
<1>3. CASE \A q \in r : q \notin Members(p)
  BY <1>1, <1>3 DEF FilledAsOne
<1> QED BY <1>2, <1>3, RoleInside DEF IInv

\* A command that writes one status and one person to all the posts it covers.
LEMMA CommandTogether ==
    ASSUME IInv, NEW p \in Posts, NEW new, UNCHANGED roles,
           Update(Members(p), new),
           \A q, o \in Members(p) : /\ new[q].status = new[o].status
                                    /\ new[q].person = new[o].person
    PROVE  Together
<1>1. \A q \in Posts : post'[q] = IF q \in Members(p) THEN new[q] ELSE post[q]
  BY DEF Update
<1>2. Members(p) \subseteq Posts
  BY MembersType DEF IInv
<1>3. Alike(Members(p))
  BY <1>1, <1>2 DEF Alike
<1> QED BY <1>1, <1>3, MembersAlike

LEMMA JoinTogether ==
    ASSUME IInv, NEW p \in Posts, NEW x, Join(p, x) PROVE Together
<1> DEFINE new == [q \in Members(p) |->
             [status |-> "Occupied", person |-> x, app |-> post[q].app,
              coded |-> TRUE]]
<1>1. Update(Members(p), new) /\ UNCHANGED roles
  BY DEF Join
<1>2. \A q, o \in Members(p) : /\ new[q].status = new[o].status
                               /\ new[q].person = new[o].person
  OBVIOUS
<1> HIDE DEF new
<1> QED BY <1>1, <1>2, CommandTogether

LEMMA ResignTogether ==
    ASSUME IInv, NEW p \in Posts, Resign(p) PROVE Together
<1>1. PICK e \in Members(p) :
        Update(Members(p), [q \in Members(p) |->
          [status |-> "Resigned", person |-> post[e].person,
           app |-> NoApplication, coded |-> post[e].coded]])
  BY DEF Resign
<1> DEFINE new == [q \in Members(p) |->
          [status |-> "Resigned", person |-> post[e].person,
           app |-> NoApplication, coded |-> post[e].coded]]
<1>2. Update(Members(p), new) /\ UNCHANGED roles
  BY <1>1 DEF Resign
<1>3. \A q, o \in Members(p) : /\ new[q].status = new[o].status
                               /\ new[q].person = new[o].person
  OBVIOUS
<1> HIDE DEF new
<1> QED BY <1>2, <1>3, CommandTogether

LEMMA VacatedTogether ==
    ASSUME IInv, NEW p \in Posts, Remove(p) \/ ChangeRole(p) PROVE Together
<1> DEFINE new == [q \in Members(p) |-> Vacant]
<1>1. Update(Members(p), new) /\ UNCHANGED roles
  BY DEF Remove, ChangeRole, Standalone
<1>2. \A q, o \in Members(p) : /\ new[q].status = new[o].status
                               /\ new[q].person = new[o].person
  OBVIOUS
<1> HIDE DEF new
<1> QED BY <1>1, <1>2, CommandTogether

LEMMA WithdrawResignationTogether ==
    ASSUME IInv, NEW p \in Posts, WithdrawResignation(p) PROVE Together
<1>1. PICK row \in [Members(p) -> UNION {serving[q] : q \in Members(p)}] :
        Update(Members(p), [q \in Members(p) |->
             [post[q] EXCEPT !.status = "Occupied",
                             !.app = IF row[q].app # NoApplication
                                     THEN row[q].app ELSE @]])
  BY DEF WithdrawResignation
<1> DEFINE new == [q \in Members(p) |->
             [post[q] EXCEPT !.status = "Occupied",
                             !.app = IF row[q].app # NoApplication
                                     THEN row[q].app ELSE @]]
<1>2. Update(Members(p), new) /\ UNCHANGED roles
  BY <1>1 DEF WithdrawResignation
<1>3. \A q \in Members(p) : new[q].status = "Occupied" /\ new[q].person = post[p].person
  <2>1. \A q \in Members(p) : post[q] \in Post /\ post[q].person = post[p].person
    BY MembersType DEF WithdrawResignation, IInv, TypeOK
  <2> QED BY <2>1 DEF Post
<1> HIDE DEF new
<1> QED BY <1>2, <1>3, CommandTogether

LEMMA JoinReplacementTogether ==
    ASSUME IInv, NEW p \in Posts, JoinReplacement(p) PROVE Together
<1> DEFINE new == [q \in Members(p) |->
             [status |-> "Occupied", person |-> replacement[p].person,
              app |-> replacement[p].app, coded |-> TRUE]]
<1>1. Update(Members(p), new) /\ UNCHANGED roles
  BY DEF JoinReplacement
<1>2. \A q, o \in Members(p) : /\ new[q].status = new[o].status
                               /\ new[q].person = new[o].person
  OBVIOUS
<1> HIDE DEF new
<1> QED BY <1>1, <1>2, CommandTogether

LEMMA BulkAssignTogether ==
    ASSUME IInv, NEW p \in Posts, NEW upload, NEW event \in Events,
           NEW x \in People, NEW code \in BOOLEAN,
           BulkAssign(p, upload, event, x, code)
    PROVE  Together
<1>1. PICK e \in Members(p) :
        Update(Members(p), [q \in Members(p) |-> BulkRecord(q, e, event, x, code)])
  BY DEF BulkAssign, BulkRecord
<1> DEFINE new == [q \in Members(p) |-> BulkRecord(q, e, event, x, code)]
<1>2. Update(Members(p), new) /\ UNCHANGED roles
  BY <1>1 DEF BulkAssign
<1>3. \A q, o \in Members(p) : /\ new[q].status = new[o].status
                               /\ new[q].person = new[o].person
  BY DEF BulkRecord, Vacant
<1> HIDE DEF new
<1> QED BY <1>2, <1>3, CommandTogether

LEMMA AppointToTogether ==
    ASSUME IInv, NEW p \in Posts, NEW x, NEW a, NEW code, AppointTo(p, x, a, code),
           UNCHANGED roles
    PROVE  Together
<1>1. CASE UNCHANGED post
  BY <1>1, PostsStay
<1>2. ASSUME NEW e \in Members(p),
             Update(Members(p), [q \in Members(p) |->
                [status |-> "Appointed", person |-> x,
                 app |-> IF a # NoApplication THEN a ELSE post[q].app,
                 coded |-> code \/ post[e].coded]])
      PROVE  Together
  <2> DEFINE new == [q \in Members(p) |->
                [status |-> "Appointed", person |-> x,
                 app |-> IF a # NoApplication THEN a ELSE post[q].app,
                 coded |-> code \/ post[e].coded]]
  <2>1. Update(Members(p), new)
    BY <1>2
  <2>2. \A q, o \in Members(p) : /\ new[q].status = new[o].status
                                 /\ new[q].person = new[o].person
    OBVIOUS
  <2> HIDE DEF new
  <2> QED BY <2>1, <2>2, CommandTogether
<1> QED BY <1>1, <1>2 DEF AppointTo

\* The designation moves between two posts that are in no role.
LEMMA CorrectDesignationTogether ==
    ASSUME IInv, NEW p \in Posts, NEW q \in Posts, CorrectDesignation(p, q)
    PROVE  Together
<1>1. /\ UNCHANGED roles /\ Standalone(p) /\ Standalone(q)
      /\ \A o \in Posts \ {p, q} : post'[o] = post[o]
  BY DEF CorrectDesignation, IInv, TypeOK
<1>2. \A r \in roles : p \notin r /\ q \notin r /\ r \subseteq Posts
  BY <1>1, Alone DEF IInv, TypeOK
<1>3. \A r \in roles : \A o \in r : post'[o] = post[o]
  BY <1>1, <1>2
<1> QED BY <1>1, <1>3 DEF Together, FilledAsOne

\* A new or changed role is filled as one; the others have none of its posts.
LEMMA CombineTogether ==
    ASSUME IInv, NEW ps \in SUBSET Posts, Combine(ps),
           NEW rs \in SUBSET roles, roles' = rs \union {ps},
           \A r \in rs, q \in ps : q \notin r
    PROVE  Together
<1>1. /\ \A q \in Posts \ ps : post'[q] = post[q]
      /\ \A p, q \in ps : /\ post'[p].status = post'[q].status
                          /\ post'[p].person = post'[q].person
  BY CombineFollows
<1>2. FilledAsOne(ps)'
  BY <1>1 DEF FilledAsOne
<1>3. ASSUME NEW r \in rs, FilledAsOne(r) PROVE FilledAsOne(r)'
  <2>1. r \subseteq Posts
    BY DEF IInv, TypeOK
  <2>2. \A q \in r : post'[q] = post[q]
    BY <1>1, <2>1
  <2> QED BY <1>3, <2>2 DEF FilledAsOne
<1> QED BY <1>2, <1>3 DEF Together

LEMMA CreateRoleTogether ==
    ASSUME IInv, NEW ps \in SUBSET Posts, CreateRole(ps) PROVE Together
<1>1. Combine(ps) /\ roles' = roles \union {ps}
  BY DEF CreateRole
<1>2. \A r \in roles, q \in ps : q \notin r
  BY Alone DEF CreateRole, IInv
<1> QED BY <1>1, <1>2, CombineTogether

LEMMA UpdateRoleTogether ==
    ASSUME IInv, NEW r \in roles, NEW ps \in SUBSET Posts, UpdateRole(r, ps)
    PROVE  Together
<1> DEFINE rs == roles \ {r}
<1>1. Combine(ps) /\ roles' = rs \union {ps} /\ rs \in SUBSET roles
      /\ \A q \in ps \ r : Standalone(q)
  BY DEF UpdateRole
<1>2. ASSUME NEW s \in rs, NEW q \in ps PROVE q \notin s
  <2>1. CASE q \in r
    BY <2>1 DEF IInv, RolesOK
  <2>2. CASE q \notin r
    BY <1>1, <2>2, Alone DEF IInv
  <2> QED BY <2>1, <2>2
<1> HIDE DEF rs
<1> QED BY <1>1, <1>2, CombineTogether

\* Did Not Join vacates every post of a role that its job is for.
LEMMA DidNotJoinTogether ==
    ASSUME IInv, NEW a \in Applications, DidNotJoin(a) PROVE Together
<1> DEFINE home == job[JobOf[a]].post
           ps == AppointedFor(a)
<1>1. /\ UNCHANGED roles /\ home \in ps /\ application[a].status = "Approved"
      /\ application' = [application EXCEPT ![a].status = "Did Not Join"]
      /\ \/ UNCHANGED post
         \/ /\ \A p \in ps : post[p].app = a
            /\ post' = [p \in Posts |-> IF p \in ps THEN Vacant ELSE post[p]]
  BY DEF DidNotJoin, AppointedFor, GiveUp, Update
<1>2. CASE UNCHANGED post
  BY <1>1, <1>2, PostsStay
<1>3. CASE /\ \A p \in ps : post[p].app = a
           /\ post' = [p \in Posts |-> IF p \in ps THEN Vacant ELSE post[p]]
  <2> SUFFICES ASSUME NEW r \in roles, FilledAsOne(r)
               PROVE  FilledAsOne(r)' \/ ClearedInPart(r)
    BY <1>1 DEF Together
  <2>1. r \subseteq Posts
    BY DEF IInv, TypeOK
  <2>2. CASE r \subseteq ps
    <3>1. \A p \in r : post'[p] = Vacant
      BY <1>3, <2>1, <2>2
    <3> QED BY <3>1 DEF FilledAsOne
  <2>3. CASE \A p \in r : p \notin ps
    <3>1. \A p \in r : post'[p] = post[p]
      BY <1>3, <2>1, <2>3
    <3> QED BY <2>3, <3>1 DEF FilledAsOne
  <2>4. ASSUME NEW p \in r, p \in ps, NEW q \in r, q \notin ps
        PROVE  ClearedInPart(r)
    <3>1. home \in Posts
      <4>1. CASE home = NoPost
        <5>1. ps \subseteq Posts /\ NoPost \notin Posts
          BY <4>1, RecruitmentAssumption DEF AppointedFor
        <5> QED BY <1>1, <5>1
      <4>2. CASE home # NoPost
        BY <4>2, JobPost
      <4> QED BY <4>1, <4>2
    <3>2. Members(home) \subseteq ps
      BY <3>1, RecruitmentAssumption DEF AppointedFor
    <3>3. home \notin r
      <4>1. ASSUME home \in r PROVE FALSE
        BY <2>4, <3>2, <4>1 DEF Members
      <4> QED BY <4>1
    <3>4. post[p].app = a /\ post[q].app # a
      BY <1>3, <2>1, <2>4 DEF AppointedFor
    <3>5. application[a].status # "Did Not Join"
          /\ application'[a].status = "Did Not Join"
      <4>1. application[a] \in ApplicationType
        BY ApplicationFacts
      <4>2. application'[a] = [application[a] EXCEPT !.status = "Did Not Join"]
        BY <1>1 DEF IInv, TypeOK
      <4> QED BY <1>1, <4>1, <4>2 DEF ApplicationType
    <3> QED BY <3>3, <3>4, <3>5 DEF ClearedInPart
  <2> QED BY <2>2, <2>3, <2>4
<1> QED BY <1>1, <1>2, <1>3

LEMMA NextTogether == ASSUME IInv, Next PROVE Together
<1>1. ASSUME NEW p \in Posts, NEW x \in People, NEW code \in BOOLEAN,
             Appoint(p, x, code)
      PROVE  Together
  BY <1>1, AppointToTogether DEF Appoint
<1>2. ASSUME NEW p \in Posts, NEW x \in People, Join(p, x) PROVE Together
  BY <1>2, JoinTogether
<1>3. ASSUME NEW p \in Posts, NEW x \in People, NEW upload \in {"csv", "workbook"},
             NEW event \in Events, NEW code \in BOOLEAN,
             BulkAssign(p, upload, event, x, code)
      PROVE  Together
  BY <1>3, BulkAssignTogether
<1>4. ASSUME NEW p \in Posts,
             \/ Resign(p) \/ Remove(p) \/ ChangeRole(p) \/ WithdrawResignation(p)
             \/ JoinReplacement(p) \/ \E q \in Posts : CorrectDesignation(p, q)
      PROVE  Together
  BY <1>4, ResignTogether, VacatedTogether, WithdrawResignationTogether,
     JoinReplacementTogether, CorrectDesignationTogether
<1>5. ASSUME NEW p \in Posts,
             \/ CancelReplacement(p) \/ ReadForJob(p) \/ \E j \in Jobs : CreateJob(p, j)
      PROVE  Together
  BY <1>5, PostsStay DEF CancelReplacement, GiveUp, ReadForJob, CreateJob
<1>6. ASSUME NEW ps \in SUBSET Posts,
             CreateRole(ps) \/ \E r \in roles : UpdateRole(r, ps)
      PROVE  Together
  BY <1>6, CreateRoleTogether, UpdateRoleTogether
<1>7. ASSUME NEW r \in roles, DeleteRole(r) PROVE Together
  BY <1>7, PostsStay DEF DeleteRole
<1>8. ASSUME NEW j \in Jobs, CloseJob(j) \/ DeleteJob(j) PROVE Together
  BY <1>8, PostsStay DEF CloseJob, DeleteJob
<1>9. ASSUME NEW a \in Applications,
             \/ AssignCandidate(a) \/ ScheduleInterview(a)
             \/ \E decision \in Decisions :
                  RecordInterview(a, decision) \/ UpdateInterviewRound(a, decision)
             \/ WithdrawApplication(a) \/ DeclineAppointment(a)
      PROVE  Together
  BY <1>9, PostsStay DEF AssignCandidate, ScheduleInterview, RecordInterview,
     UpdateInterviewRound, WithdrawApplication, DeclineAppointment, Others
<1>10. ASSUME NEW a \in Applications, AcceptAppointment(a) \/ Reappoint(a)
       PROVE  Together
  <2>1. Accept(a)
    BY <1>10 DEF AcceptAppointment, Reappoint
  <2>2. job[JobOf[a]].post \in Posts
    BY <2>1, JobPost DEF Accept
  <2> QED BY <2>1, <2>2, AppointToTogether DEF Accept
<1>11. ASSUME NEW a \in Applications, DidNotJoin(a) PROVE Together
  BY <1>11, DidNotJoinTogether
<1> QED BY <1>1, <1>2, <1>3, <1>4, <1>5, <1>6, <1>7, <1>8, <1>9, <1>10, <1>11
       DEF Next

\* A combined role is filled as one when it is made and by every command on it,
\* unless Did Not Join clears a member that still names its application
\* (assignEmployeeInTransaction, bulkAssignEmployees, createCombinedRole,
\* updateCombinedRole, recordCandidateDidNotJoin).
THEOREM RolesStayTogether == Spec => MembersStayTogether
<1>1. IInv /\ Next =>
        \A r \in roles' :
          r \notin roles \/ FilledAsOne(r) => FilledAsOne(r)' \/ ClearedInPart(r)
  BY NextTogether DEF Together
<1> QED BY <1>1, Invariance, PTL DEF Spec, MembersStayTogether
===============================================================================
