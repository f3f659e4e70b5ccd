------------------------------ MODULE Governance ------------------------------
(***************************************************************************)
(* governance-service as the other services see it: who may post, who must *)
(* approve an amount at a stage (the approval matrix), and the hash-       *)
(* chained audit log in which every answer is recorded before it is given. *)
(*                                                                         *)
(* A row of the log stands for its own record_hash: its place in chain_seq *)
(* order.  prev is the place of the row whose hash it commits to, 0 for    *)
(* none.  The INSERT of a row and its COMMIT are one step.                 *)
(***************************************************************************)
EXTENDS Integers, Sequences

CONSTANTS User,     \* identities a request may carry
          Role,
          RoleOf,   \* "none": no such user, a user without a role, no identity
          MayPost,  \* roles with can_post
          Bands     \* active approval_matrix rows

Level == 1 .. 3
NoRole == "null"     \* an approval_level_n_role_id that is not set
AnyPlant == "any"    \* a row whose plant_id is not set
NoMax == -1          \* a row without threshold_max

ASSUME GovernanceAssumption ==
    /\ User # {} /\ "none" \notin Role /\ NoRole \notin Role
    /\ RoleOf \in [User -> Role \cup {"none"}]
    /\ MayPost \subseteq Role
    /\ \A b \in Bands : /\ DOMAIN b = {"type", "plant", "min", "max", "levels"}
                        /\ b.min \in Nat /\ b.max \in Nat \cup {NoMax}
                        /\ b.levels \in [Level -> Role \cup {NoRole}]

VARIABLE chain      \* audit_log

NoRow == 0
LastRow == Len(chain)

\* Rows of the matrix that cover an amount; a row of the plant itself is
\* preferred.  findFirst takes any of them.
BandsFor(type, plant, amount) ==
    LET covering(p) == {b \in Bands : /\ b.type = type /\ b.plant = p
                                      /\ b.min <= amount
                                      /\ b.max = NoMax \/ amount < b.max}
    IN  IF plant # AnyPlant /\ covering(plant) # {} THEN covering(plant)
                                                    ELSE covering(AnyPlant)

\* Rows that cover a common amount ask for the same roles.  No constraint of
\* approval_matrix says so; the rows of its seed share no amount.
Overlap(a, b) ==
    /\ a.type = b.type /\ a.plant = b.plant
    /\ b.max = NoMax \/ a.min < b.max
    /\ a.max = NoMax \/ b.min < a.max
BandsAgree == \A a, b \in Bands : Overlap(a, b) => a.levels = b.levels

RoleIdForStage(band, stage) == IF stage \in Level THEN band.levels[stage] ELSE NoRole

\* Mutant: the stage after the next is looked at.
HasStageAfterNext(band, stage) == stage < 3 /\ RoleIdForStage(band, stage + 2) # NoRole

HasNextStage(band, stage) == stage < 3 /\ RoleIdForStage(band, stage + 1) # NoRole

Authorized(band, stage, u) ==
    RoleIdForStage(band, stage) # NoRole /\ RoleOf[u] = RoleIdForStage(band, stage)

\* What checkApprovalAuthority can decide: ok, and whether a stage follows.
ApprovalAnswers(type, plant, amount, stage, u) ==
    LET bands == BandsFor(type, plant, amount)
    IN  IF bands = {} THEN {[ok |-> FALSE, more |-> FALSE]}
        ELSE {[ok |-> Authorized(b, stage, u),
               more |-> Authorized(b, stage, u) /\ HasNextStage(b, stage)] : b \in bands}

\* What checkAuthority decides for can_post.
PostingAnswers(u) == {[ok |-> RoleOf[u] \in MayPost, more |-> FALSE]}

\* recordEntry's INSERT, after it read the row `last` as the end of the chain.
RecordEntry(doc, stage, amount, u, ok, last) ==
    chain' = Append(chain, [prev |-> last, doc |-> doc, stage |-> stage,
                            amount |-> amount, by |-> u, ok |-> ok])

\* Mutant: only the last row is looked at.
VerifyLastRow == chain = <<>> \/ chain[LastRow].prev = LastRow - 1

\* verifyChain: every row, in order, names its predecessor.
VerifyChain == \A i \in DOMAIN chain : chain[i].prev = i - 1
================================================================================
