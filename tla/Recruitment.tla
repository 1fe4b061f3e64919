----------------------------- MODULE Recruitment -----------------------------
(***************************************************************************)
(* Who holds an approved post, who is to follow, and through which job.    *)
(* It models the assignment, combined-role, job and application commands   *)
(* of packages/db/src/recruitment.ts with recruitment-replacements.ts,     *)
(* recruitment-domain.ts, recruitment-interview-workflow.ts, and the       *)
(* indexes and triggers of migrations 0038, 0099, 0135, 0140 and 0236      *)
(* (first in 0173).                                                        *)
(*                                                                         *)
(* A command is one transaction that locks the application and its job, or *)
(* the posts, before it decides: one action.  createJobFromPost is two: it *)
(* looks for a pending replacement in the statement that waits for the     *)
(* post's lock, so what it saw may be over when it has the lock.           *)
(*                                                                         *)
(* A person is one value for name and Employee ID; whether the ID is       *)
(* recorded on the post is kept, since Did Not Join asks for it.  So a     *)
(* correction of identity changes nothing here.  Of dates, terms, letters, *)
(* templates and audit nothing is kept.  Assigned, Interview and Hold are  *)
(* one status, "Active".  Posts are neither added nor deleted.             *)
(* Names Name_Variant are plausible bugs in the code that Name models and  *)
(* no part of the specification.                                           *)
(***************************************************************************)
EXTENDS Naturals, FiniteSets

CONSTANTS Posts,        \* recruitment.posts
          People,       \* employees and candidates
          Jobs,         \* recruitment.job_posts
          Applications, \* recruitment.applications that may be made
          CandidateOf,  \* the candidate of an application
          JobOf,        \* the job of an application
          Rounds,       \* interview rounds (recruitmentInterviewRounds: 3)
          Starts,       \* [ready, left]: applications that have passed all
                        \* rounds at the start, and how many commands on
                        \* employees and roles the behaviour may hold
          NoPerson, NoApplication, NoPost

ASSUME RecruitmentAssumption ==
    /\ IsFiniteSet(Posts)
    /\ CandidateOf \in [Applications -> People]
    /\ JobOf \in [Applications -> Jobs]
    /\ Rounds \in Nat \ {0}
    /\ Starts \subseteq [ready : SUBSET Applications, left : Nat]
    /\ NoPerson \notin People
    /\ NoApplication \notin Applications
    /\ NoPost \notin Posts

VARIABLES post,         \* recruitment.posts: status, person, appointed
                        \* application, and whether the Employee ID is recorded
          roles,        \* member sets of the active combined roles
          replacement,  \* the Pending row of post_replacements, by post
          serving,      \* open employee_post_assignments, by post
          joined,       \* applications named by an assignment or by a Joined
                        \* replacement
          job,          \* recruitment.job_posts
          application,  \* recruitment.applications with their interviews
          opening,      \* posts whose createJobFromPost waits for the lock
          left          \* commands on employees and roles that may follow

vars == <<post, roles, replacement, serving, joined, job, application,
          opening, left>>

Post == [status : {"Vacant", "Appointed", "Occupied", "Resigned"},
         person : People \union {NoPerson},
         app : Applications \union {NoApplication},
         coded : BOOLEAN]

Assignment == [person : People, app : Applications \union {NoApplication}]

Vacant == [status |-> "Vacant", person |-> NoPerson, app |-> NoApplication,
           coded |-> FALSE]

NoReplacement == [person |-> NoPerson, app |-> NoApplication]

\* "approved" rounds are Approved; "round" is the row of the one after them.
NoApplicationYet == [status |-> "none", willing |-> "unknown", approved |-> 0,
                     round |-> "none"]

TypeOK ==
    /\ post \in [Posts -> Post]
    /\ roles \subseteq SUBSET Posts
    /\ replacement \in [Posts -> Assignment \union {NoReplacement}]
    /\ serving \in [Posts -> SUBSET Assignment]
    /\ joined \subseteq Applications
    /\ job \in [Jobs -> [status : {"none", "Open", "Closed"},
                         post : Posts \union {NoPost}]]
    /\ application \in [Applications ->
         [status : {"none", "Active", "Approved", "Rejected", "Withdrawn",
                    "Did Not Join"},
          willing : {"unknown", "yes", "no"},
          approved : 0 .. Rounds,
          round : {"none", "Scheduled", "Hold", "Rejected"}]]
    /\ opening \subseteq Posts
    /\ left \in Nat

\* Vacant posts; a job that has candidates already is open for one of them.
Init ==
    /\ post = [p \in Posts |-> Vacant]
    /\ roles = {}
    /\ replacement = [p \in Posts |-> NoReplacement]
    /\ serving = [p \in Posts |-> {}]
    /\ joined = {}
    /\ opening = {}
    /\ \E start \in Starts, at \in [Jobs -> Posts] :
         LET asked == {JobOf[a] : a \in start.ready}
         IN  /\ job = [j \in Jobs |->
                  [status |-> IF j \in asked THEN "Open" ELSE "none",
                   post |-> IF j \in asked THEN at[j] ELSE NoPost]]
             /\ application = [a \in Applications |->
                  IF a \in start.ready
                  THEN [status |-> "Approved", willing |-> "unknown",
                        approved |-> Rounds, round |-> "none"]
                  ELSE NoApplicationYet]
             /\ left = start.left

-------------------------------------------------------------------------------
(* The posts a command covers, and what an assignment leaves behind. *)

\* The members of the post's combined role, or the post alone
\* (assignEmployeeInTransaction).
Members(p) == {p} \union UNION {r \in roles : p \in r}

Standalone(p) == Members(p) = {p}

\* The row the command takes the present employee from: the first with one.
Existing(ps, e) ==
    /\ e \in ps
    /\ post[e].person # NoPerson \/ \A p \in ps : post[p].person = NoPerson

Reserved(ps) == \E p \in ps : replacement[p] # NoReplacement

\* Open jobs of the posts are closed when no candidate is appointed.
ClosedFor(ps) ==
    [j \in Jobs |-> IF job[j].status = "Open" /\ job[j].post \in ps
                    THEN [job[j] EXCEPT !.status = "Closed"] ELSE job[j]]

\* assertEmployeeAssignmentTransition
MayMove(p, event) ==
    /\ ~(post[p].status = "Occupied" /\ event = "Appointed")
    /\ ~(post[p].status = "Resigned" /\ event = "Joined")
    /\ ~(/\ post[p].status = "Appointed"
         /\ post[p].app # NoApplication
         /\ event = "Removed")

\* protect_pending_replacement: the trigger before every update of a post.
Protected(p, new) ==
    replacement[p] # NoReplacement =>
        new.status = "Resigned" /\ new.person = post[p].person

(* track_employee_post_assignment: the trigger after an update of a post. *)

Serves(p) == post[p].status \in {"Occupied", "Resigned"}

OwnRows(p) == {row \in serving[p] : row.person = post[p].person}

Row(rec) == [person |-> rec.person, app |-> rec.app]

\* An employee on the post without an open row is recorded late.
LateRows(p) == IF Serves(p) /\ OwnRows(p) = {} THEN {Row(post[p])} ELSE {}

KeptRows_NeverEnded(p, new) == serving[p] \union LateRows(p)
KeptRows(p, new) ==
    IF /\ Serves(p)
       /\ \/ new.status \notin {"Occupied", "Resigned"}
          \/ new.person # post[p].person
    THEN serving[p] \ OwnRows(p)
    ELSE serving[p] \union LateRows(p)

NewRows(p, new) ==
    IF /\ new.status = "Occupied"
       /\ ~(post[p].status = "Occupied" /\ new.person = post[p].person)
       /\ \A row \in KeptRows(p, new) : row.person # new.person
    THEN {Row(new)} ELSE {}

\* UPDATE recruitment.posts with the second trigger.
Update(ps, new) ==
    /\ post' = [p \in Posts |-> IF p \in ps THEN new[p] ELSE post[p]]
    /\ serving' = [p \in Posts |->
         IF p \in ps THEN KeptRows(p, new[p]) \union NewRows(p, new[p])
         ELSE serving[p]]
    /\ joined' = joined \union
         ({row.app : row \in UNION {LateRows(p) \union NewRows(p, new[p]) :
                                    p \in ps}} \ {NoApplication})

Command == left > 0 /\ left' = left - 1

-------------------------------------------------------------------------------
(* Employee Assignment: assignEmployee. *)

\* The event "Appointed", by hand (a = NoApplication) or for an accepted
\* candidate: everyone covered has resigned, and the newcomer is reserved; or
\* nobody else is on the posts, and the newcomer is appointed.  A resigned
\* employee beside an unfilled post may be replaced once the last day is over;
\* the date is left open.
AppointTo(p, x, a, code) ==
    LET ps == Members(p)
    IN  /\ ~Reserved(ps)
        /\ \A q \in ps : MayMove(q, "Appointed")
        /\ \/ /\ \A q \in ps : post[q].status = "Resigned" /\ post[q].person # x
              /\ replacement' = [q \in Posts |->
                   IF q \in ps THEN [person |-> x, app |-> a] ELSE replacement[q]]
              /\ UNCHANGED <<post, serving, joined>>
           \/ /\ \E q \in ps : post[q].status # "Resigned"
              /\ \E e \in ps :
                   /\ Existing(ps, e)
                   /\ \/ post[e].person \in {NoPerson, x}
                      \/ post[e].status \in {"Vacant", "Resigned"}
                   /\ Update(ps, [q \in ps |->
                        [status |-> "Appointed", person |-> x,
                         app |-> IF a # NoApplication THEN a ELSE post[q].app,
                         coded |-> code \/ post[e].coded]])
              /\ UNCHANGED replacement

Appoint(p, x, code) ==
    /\ Command
    /\ AppointTo(p, x, NoApplication, code)
    /\ job' = ClosedFor(Members(p))
    /\ UNCHANGED <<roles, application, opening>>

\* The event "Joined" makes an appointment, or a new employee, the post's.
Join(p, x) ==
    LET ps == Members(p)
    IN  /\ Command
        /\ ~Reserved(ps)
        /\ \A q \in ps : MayMove(q, "Joined")
        /\ \E e \in ps : Existing(ps, e) /\ post[e].person \in {NoPerson, x}
        /\ Update(ps, [q \in ps |->
             [status |-> "Occupied", person |-> x, app |-> post[q].app,
              coded |-> TRUE]])
        /\ job' = ClosedFor(ps)
        /\ UNCHANGED <<roles, replacement, application, opening>>

\* The event "Resigned" may also come while a replacement is pending.
Resign(p) ==
    LET ps == Members(p)
    IN  /\ Command
        /\ \E e \in ps :
             /\ post[e].person # NoPerson
             /\ LET new == [status |-> "Resigned", person |-> post[e].person,
                            app |-> NoApplication, coded |-> post[e].coded]
                IN  /\ \A q \in ps : Protected(q, new)
                    /\ Update(ps, [q \in ps |-> new])
        /\ UNCHANGED <<roles, replacement, job, application, opening>>

\* The event "Removed".
Remove(p) ==
    LET ps == Members(p)
    IN  /\ Command
        /\ ~Reserved(ps)
        /\ \A q \in ps : MayMove(q, "Removed")
        /\ Update(ps, [q \in ps |-> Vacant])
        /\ UNCHANGED <<roles, replacement, job, application, opening>>

\* The event "Role Changed": the employee keeps another occupied post.
ChangeRole(p) ==
    /\ Command
    /\ Standalone(p)
    /\ ~Reserved({p})
    /\ post[p].status = "Occupied"
    /\ \E q \in Posts \ {p} :
         post[q].status = "Occupied" /\ post[q].person = post[p].person
    /\ Update({p}, [q \in {p} |-> Vacant])
    /\ UNCHANGED <<roles, replacement, job, application, opening>>

\* The event "Resignation Withdrawn": same employee, open row, no replacement.
WithdrawResignation(p) ==
    LET ps == Members(p)
    IN  /\ Command
        /\ \A q \in ps : post[q].status = "Resigned"
                         /\ post[q].person = post[p].person
        /\ ~Reserved(ps)
        /\ \A q \in ps : Cardinality(serving[q]) = 1 /\ OwnRows(q) # {}
        /\ \E row \in [ps -> UNION {serving[q] : q \in ps}] :
             /\ \A q \in ps : row[q] \in serving[q]
             /\ Update(ps, [q \in ps |->
                  [post[q] EXCEPT !.status = "Occupied",
                                  !.app = IF row[q].app # NoApplication
                                          THEN row[q].app ELSE @]])
        /\ job' = ClosedFor(ps)
        /\ UNCHANGED <<roles, replacement, application, opening>>

SameReplacement(ps) ==
    \A q, r \in ps : replacement[q] # NoReplacement
                     /\ replacement[q] = replacement[r]

\* The event "Replacement Joined".
JoinReplacement(p) ==
    LET ps == Members(p)
        new == [status |-> "Occupied", person |-> replacement[p].person,
                app |-> replacement[p].app, coded |-> TRUE]
    IN  /\ Command
        /\ \A q \in ps : MayMove(q, "Replacement Joined")
        /\ SameReplacement(ps)
        /\ \A q \in ps : post[q].status = "Resigned"
                         /\ post[q].person # replacement[p].person
        /\ Update(ps, [q \in ps |-> new])
        /\ replacement' = [q \in Posts |->
             IF q \in ps THEN NoReplacement ELSE replacement[q]]
        /\ job' = ClosedFor(ps)
        /\ UNCHANGED <<roles, application, opening>>

\* A pending reservation is cancelled, the leaver stays.
GiveUp_VacatesLeaver(ps) ==
    /\ replacement' = [p \in Posts |->
         IF p \in ps THEN NoReplacement ELSE replacement[p]]
    /\ Update(ps, [p \in ps |-> Vacant])
GiveUp(ps) ==
    /\ replacement' = [p \in Posts |->
         IF p \in ps THEN NoReplacement ELSE replacement[p]]
    /\ UNCHANGED <<post, serving, joined>>

\* The event "Cancel Replacement"; a candidate's needs Did Not Join.
CancelReplacement(p) ==
    LET ps == Members(p)
    IN  /\ Command
        /\ SameReplacement(ps)
        /\ replacement[p].app = NoApplication
        /\ GiveUp(ps)
        /\ UNCHANGED <<roles, job, application, opening>>

\* correctEmployeeDesignation moves the one open row without the trigger.
CorrectDesignation(p, q) ==
    /\ Command
    /\ p # q
    /\ post[p].status = "Occupied" /\ Standalone(p)
    /\ post[q] = Vacant /\ Standalone(q)
    /\ ~Reserved({p, q})
    /\ Cardinality(OwnRows(p)) = 1
    /\ \E row \in OwnRows(p) :
         /\ post' = [post EXCEPT
              ![p] = Vacant,
              ![q] = [post[p] EXCEPT !.app = IF @ # NoApplication THEN @
                                             ELSE row.app]]
         /\ serving' = [serving EXCEPT ![p] = @ \ {row},
                                       ![q] = @ \union {row}]
    /\ job' = ClosedFor({q})
    /\ UNCHANGED <<roles, replacement, joined, application, opening>>

\* bulkAssignEmployees: one row of an upload.  The CSV import takes Vacant
\* targets alone; the workbook takes any and compares no names.  Neither
\* touches the appointed application, open jobs or pending replacements.
BulkAssign(p, upload, event, x, code) ==
    LET ps == Members(p)
        status == CASE event = "Appointed" -> "Appointed"
                    [] event = "Joined" -> "Occupied"
                    [] event = "Resigned" -> "Resigned"
                    [] event = "Removed" -> "Vacant"
    IN  /\ Command
        /\ upload = "csv" => \A q \in ps : post[q].status = "Vacant"
        /\ \A q \in ps : MayMove(q, event)
        /\ \E e \in ps :
             /\ Existing(ps, e)
             /\ event = "Joined" => code \/ post[e].coded
             /\ LET new == [q \in ps |->
                      IF event = "Removed"
                      THEN [Vacant EXCEPT !.app = post[q].app]
                      ELSE [status |-> status, person |-> x, app |-> post[q].app,
                            coded |-> code \/ post[e].coded]]
                IN  /\ \A q \in ps : Protected(q, new[q])
                    /\ Update(ps, new)
        /\ UNCHANGED <<roles, replacement, job, application, opening>>

-------------------------------------------------------------------------------
(* Combined roles. *)

\* deriveCombinedPostAssignment: the members take the assignment that ranks
\* first, which must be of the one person any of them has.
Rank(rec) == CASE rec.status = "Occupied" -> 3
               [] rec.status = "Appointed" -> 2
               [] rec.status = "Resigned" -> 1
               [] OTHER -> 0

TakesOver(ps, source) ==
    /\ source \in ps /\ post[source].person # NoPerson
    /\ \A q \in ps : post[q].person \in {NoPerson, post[source].person}
    /\ \A q \in ps : post[q].person # NoPerson =>
                     Rank(post[q]) <= Rank(post[source])

Combine_KeepsEach(ps) == UNCHANGED <<post, serving, joined>>
Combine(ps) ==
    \/ /\ \A q \in ps : post[q].person = NoPerson
       /\ UNCHANGED <<post, serving, joined>>
    \/ \E source \in ps :
         /\ TakesOver(ps, source)
         /\ Update(ps, [q \in ps |-> post[source]])

\* createCombinedRole; the trigger refuses a member with a replacement.
CreateRole(ps) ==
    /\ Command
    /\ Cardinality(ps) >= 2
    /\ \A q \in ps : Standalone(q)
    /\ ~Reserved(ps)
    /\ Combine(ps)
    /\ roles' = roles \union {ps}
    /\ UNCHANGED <<replacement, job, application, opening>>

\* updateCombinedRole: posts that enter or leave have no job, and no
\* replacement; a member that stays may have one if nobody's post changes.
UpdateRole(r, ps) ==
    LET changed == (ps \ r) \union (r \ ps)
    IN  /\ Command
        /\ r \in roles
        /\ Cardinality(ps) >= 2
        /\ \A q \in ps \ r : Standalone(q)
        /\ \A j \in Jobs : job[j].post \notin changed
        /\ ~Reserved(changed)
        /\ Combine(ps)
        /\ \A q \in ps : Protected(q, post'[q])
        /\ roles' = (roles \ {r}) \union {ps}
        /\ UNCHANGED <<replacement, job, application, opening>>

\* deleteCombinedRole
DeleteRole(r) ==
    /\ Command
    /\ r \in roles
    /\ \A j \in Jobs : job[j].post \notin r
    /\ ~Reserved(r)
    /\ roles' = roles \ {r}
    /\ UNCHANGED <<post, replacement, serving, joined, job, application, opening>>

-------------------------------------------------------------------------------
(* Jobs. *)

\* createJobFromPost reads, and waits for the post.
ReadForJob(p) ==
    /\ p \notin opening
    /\ ~Reserved(Members(p))
    /\ opening' = opening \union {p}
    /\ UNCHANGED <<post, roles, replacement, serving, joined, job, application,
                   left>>

\* It has the post: the job is on one member of the role, the primary.
CreateJob(p, j) ==
    LET ps == Members(p)
    IN  /\ p \in opening
        /\ opening' = opening \ {p}
        /\ \/ /\ job[j].status = "none"
              /\ \A i \in Jobs : job[i].status = "Open" => job[i].post \notin ps
              /\ \E primary \in ps :
                   /\ \/ post[primary].status = "Resigned"
                      \/ post[primary].person = NoPerson
                   /\ job' = [job EXCEPT ![j] = [status |-> "Open",
                                                 post |-> primary]]
           \/ UNCHANGED job
        /\ UNCHANGED <<post, roles, replacement, serving, joined, application,
                       left>>

CloseJob(j) ==
    /\ job[j].status = "Open"
    /\ job' = [job EXCEPT ![j].status = "Closed"]
    /\ UNCHANGED <<post, roles, replacement, serving, joined, application,
                   opening, left>>

\* delete_job_post
DeleteJob(j) ==
    /\ job[j].status # "none"
    /\ \A a \in Applications : JobOf[a] = j => application[a].status = "none"
    /\ job' = [job EXCEPT ![j] = [status |-> "none", post |-> NoPost]]
    /\ UNCHANGED <<post, roles, replacement, serving, joined, application,
                   opening, left>>

-------------------------------------------------------------------------------
(* Applications and their interviews. *)

\* recruitment_applications_one_active_candidate_job_idx
OnlyActive(a) ==
    \A b \in Applications \ {a} :
        CandidateOf[b] = CandidateOf[a] /\ JobOf[b] = JobOf[a] =>
            application[b].status # "Active"

Others == <<post, roles, replacement, serving, joined, job, opening, left>>

\* assignCandidates
AssignCandidate(a) ==
    /\ application[a].status = "none"
    /\ job[JobOf[a]].status = "Open"
    /\ OnlyActive(a)
    /\ application' = [application EXCEPT ![a].status = "Active"]
    /\ UNCHANGED Others

ScheduleInterview(a) ==
    /\ application[a].status = "Active"
    /\ application[a].approved < Rounds
    /\ application[a].round = "none"
    /\ application' = [application EXCEPT ![a].round = "Scheduled"]
    /\ UNCHANGED Others

\* The application after a decision on the round that follows "approved".
Decided(app, approved, decision) ==
    CASE decision = "Approved" ->
           [app EXCEPT !.approved = approved + 1, !.round = "none",
                       !.status = IF approved + 1 = Rounds THEN "Approved"
                                  ELSE "Active"]
      [] decision = "Hold" ->
           [app EXCEPT !.approved = approved, !.round = "Hold",
                       !.status = "Active"]
      [] decision = "Rejected" ->
           [app EXCEPT !.approved = approved, !.round = "Rejected",
                       !.status = "Rejected"]

Decisions == {"Approved", "Hold", "Rejected"}

RecordInterview(a, decision) ==
    /\ application[a].status = "Active"
    /\ application[a].round = "Scheduled"
    /\ application' = [application EXCEPT ![a] =
         Decided(@, @.approved, decision)]
    /\ UNCHANGED Others

\* updateInterviewRound: another decision for the latest round, whatever has
\* become of an application whose appointment is not settled.
UpdateInterviewRound_Settled(a, decision) ==
    /\ application[a].round = "none" /\ application[a].approved > 0
    /\ decision # "Approved"
    /\ application' = [application EXCEPT ![a] =
         Decided(@, @.approved - 1, decision)]
    /\ UNCHANGED Others
UpdateInterviewRound(a, decision) ==
    /\ application[a].willing = "unknown"
    /\ \/ /\ application[a].round \in {"Hold", "Rejected"} \ {decision}
          /\ application' = [application EXCEPT ![a] =
               Decided(@, @.approved, decision)]
       \/ /\ application[a].round = "none" /\ application[a].approved > 0
          /\ decision # "Approved"
          /\ application' = [application EXCEPT ![a] =
               Decided(@, @.approved - 1, decision)]
    /\ application'[a].status = "Active" => OnlyActive(a)
    /\ UNCHANGED Others

\* withdrawCandidateApplication
WithdrawApplication(a) ==
    /\ application[a].status = "Active"
    /\ application' = [application EXCEPT ![a].status = "Withdrawn"]
    /\ UNCHANGED Others

\* completeCandidateAppointment, willing to join: whatever the job's status.
Accept(a) ==
    /\ job[JobOf[a]].post # NoPost
    /\ AppointTo(job[JobOf[a]].post, CandidateOf[a], a, FALSE)
    /\ application' = [application EXCEPT ![a].status = "Approved",
                                          ![a].willing = "yes"]
    /\ job' = [job EXCEPT ![JobOf[a]].status = "Closed"]
    /\ UNCHANGED <<roles, opening, left>>

Completable(a) ==
    /\ application[a].status \in {"Approved", "Active"}
    /\ application[a].willing = "unknown"
    /\ application[a].approved = Rounds

AcceptAppointment(a) == Completable(a) /\ Accept(a)

\* completeCandidateAppointment, not willing.
DeclineAppointment(a) ==
    /\ Completable(a)
    /\ application' = [application EXCEPT ![a].status = "Withdrawn",
                                          ![a].willing = "no"]
    /\ UNCHANGED Others

\* recordCandidateDidNotJoin: the posts reserved for the application and
\* those of its job are the same ones, or nothing changes.
DidNotJoin(a) ==
    LET home == job[JobOf[a]].post
        ps == {p \in Posts : post[p].app = a}
                \union (IF home = NoPost THEN {} ELSE Members(home))
        pending == {p \in Posts : /\ replacement[p] # NoReplacement
                                  /\ replacement[p].app = a \/ p \in ps}
    IN  /\ application[a].status = "Approved" /\ application[a].willing = "yes"
        /\ home \in ps
        /\ \/ /\ pending # {}
              /\ pending = ps
              /\ \A p \in ps : replacement[p].app = a
                               /\ post[p].status = "Resigned"
              /\ GiveUp(ps)
           \/ /\ pending = {}
              /\ \A p \in ps : /\ post[p].status = "Appointed"
                               /\ post[p].app = a
                               /\ ~post[p].coded
              /\ Update(ps, [p \in ps |-> Vacant])
              /\ UNCHANGED replacement
        /\ application' = [application EXCEPT ![a].status = "Did Not Join"]
        /\ job' = [job EXCEPT ![JobOf[a]].status = "Open"]
        /\ UNCHANGED <<roles, opening, left>>

\* reappointCandidateAppointment
Reappoint(a) ==
    LET home == job[JobOf[a]].post
        ps == Members(home)
    IN  /\ application[a].status = "Did Not Join"
        /\ job[JobOf[a]].status = "Open" /\ home # NoPost
        /\ \/ \A p \in ps : post[p] = Vacant
           \/ \A p \in ps : post[p].status = "Resigned"
                            /\ post[p].person = post[home].person
        /\ ~Reserved(ps)
        /\ \A p \in Posts : replacement[p].app # a
        /\ a \notin joined
        /\ \A b \in Applications \ {a} : JobOf[b] = JobOf[a] =>
             /\ ~(/\ CandidateOf[b] = CandidateOf[a]
                  /\ application[b].status = "Active")
             /\ ~(/\ application[b].status = "Approved"
                  /\ application[b].willing = "yes")
        /\ application[a].approved = Rounds
        /\ Accept(a)

-------------------------------------------------------------------------------
Events == {"Appointed", "Joined", "Resigned", "Removed"}

Next ==
    \/ \E p \in Posts :
         \/ \E x \in People :
              \/ \E code \in BOOLEAN : Appoint(p, x, code)
              \/ Join(p, x)
              \/ \E upload \in {"csv", "workbook"}, event \in Events,
                    code \in BOOLEAN : BulkAssign(p, upload, event, x, code)
         \/ Resign(p)
         \/ Remove(p)
         \/ ChangeRole(p)
         \/ WithdrawResignation(p)
         \/ JoinReplacement(p)
         \/ CancelReplacement(p)
         \/ \E q \in Posts : CorrectDesignation(p, q)
         \/ ReadForJob(p)
         \/ \E j \in Jobs : CreateJob(p, j)
    \/ \E ps \in SUBSET Posts :
         \/ CreateRole(ps)
         \/ \E r \in roles : UpdateRole(r, ps)
    \/ \E r \in roles : DeleteRole(r)
    \/ \E j \in Jobs : CloseJob(j) \/ DeleteJob(j)
    \/ \E a \in Applications :
         \/ AssignCandidate(a)
         \/ ScheduleInterview(a)
         \/ \E decision \in Decisions :
              RecordInterview(a, decision) \/ UpdateInterviewRound(a, decision)
         \/ WithdrawApplication(a)
         \/ AcceptAppointment(a)
         \/ DeclineAppointment(a)
         \/ DidNotJoin(a)
         \/ Reappoint(a)

Spec == Init /\ [][Next]_vars

-------------------------------------------------------------------------------
(* Properties. *)

\* The posts of a combined role have one status and one employee.
FilledAsOne(r) ==
    \A p, q \in r : /\ post[p].status = post[q].status
                    /\ post[p].person = post[q].person

\* Did Not Join clears the posts that name its application, here some of a role
\* that the application's job is not for.
ClearedInPart(r) ==
    \E a \in Applications :
        /\ application[a].status # "Did Not Join"
        /\ application'[a].status = "Did Not Join"
        /\ job[JobOf[a]].post \notin r
        /\ \E p, q \in r : post[p].app = a /\ post[q].app # a

\* A combined role is filled as one from the start, and no command on any of
\* its members parts them (assignEmployeeInTransaction, bulkAssignEmployees,
\* createCombinedRole, updateCombinedRole), except that Did Not Join may clear
\* a member that still names an application from before it joined the role
\* (recordCandidateDidNotJoin).
MembersStayTogether ==
    [][\A r \in roles' :
         r \notin roles \/ FilledAsOne(r) => FilledAsOne(r)' \/ ClearedInPart(r)]_vars

\* The history the trigger keeps matches the post: one open row, of the
\* employee who occupies it; none for a post nobody has joined; at most the
\* leaver's own during notice (track_employee_post_assignment).
HistoryFollows ==
    \A p \in Posts :
        /\ post[p].status = "Occupied" =>
             {row.person : row \in serving[p]} = {post[p].person}
        /\ post[p].status \in {"Vacant", "Appointed"} => serving[p] = {}
        /\ post[p].status = "Resigned" => serving[p] = OwnRows(p)
        /\ Cardinality(serving[p]) <= 1

\* A pending replacement waits behind one leaver, and is of somebody else
\* (applyReplacementAssignment, protect_pending_replacement).  When it is of a
\* candidate, the candidate's own job stays closed meanwhile: it opens again
\* only by Did Not Join, which ends the reservation (recordCandidateDidNotJoin,
\* completeCandidateAppointmentInTransaction).
ReplacementWaits ==
    \A p \in Posts : replacement[p] # NoReplacement =>
        /\ post[p].status = "Resigned"
        /\ post[p].person # replacement[p].person
        /\ \A a \in Applications : replacement[p].app = a =>
             job[JobOf[a]].status = "Closed" /\ application[a].willing = "yes"

\* A pending replacement ends by taking the post, or leaves the leaver where
\* they are: no other command gets at the post (migration 0135).
ReservationKept ==
    \A p \in Posts :
        replacement[p] # NoReplacement /\ replacement'[p] # replacement[p] =>
            \/ post'[p].status = "Occupied"
               /\ post'[p].person = replacement[p].person
            \/ post'[p] = post[p]

\* A reservation lasts until it takes the post or is given up, and the leaver,
\* the candidate and the candidate's job stay as it needs them meanwhile.
ReplacementKept == [][ReplacementWaits' /\ ReservationKept]_vars

\* An accepted appointment, and one that fell through, rests on all interview
\* rounds approved: no later decision undoes one of them
\* (completeCandidateAppointmentInTransaction, updateInterviewRound).
AcceptedIsApproved ==
    \A a \in Applications : application[a].willing = "yes" =>
        /\ application[a].status \in {"Approved", "Did Not Join"}
        /\ application[a].approved = Rounds

\* Did Not Join clears only the post that is kept for this candidate
\* (docs/glossary/recruitment.md, "Did Not Join").
ClearsOnlyItsOwn ==
    [][\A p \in Posts, a \in Applications :
         /\ application[a].status # "Did Not Join"
         /\ application'[a].status = "Did Not Join"
         /\ post[p].status = "Appointed" /\ post'[p].status = "Vacant"
         => post[p].person = CandidateOf[a]]_vars
===============================================================================
