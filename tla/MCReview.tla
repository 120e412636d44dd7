------------------------------ MODULE MCReview ------------------------------
(* Bounded instance of the input bundle and the host suite: two builders   *)
(* of one output path; three tests in two classes.                         *)
EXTENDS HostSuite, TLC

CONSTANTS t1, t2, t3, A, B

MCClassOf == [t \in Tests |-> IF t = t3 THEN B ELSE A]
MCOrder == <<t1, t2, t3>>

(* A DAG and a commit that belong together, before and after both moved.   *)
MCAuthorized == {<<0, 0>>, <<1, 1>>} \cap ((0..MaxEdits) \X (0..MaxEdits))
MCSameBaseline == (0..MaxEdits) \X (0..MaxEdits)

MCNeeds == {[l \in Libraries |->
                CASE l = "python" -> p [] l = "inside" -> i
                  [] l = "brew1" -> b [] l = "brew2" -> c [] OTHER -> {}] :
            p \in {{"inside"}, {"inside", "brew1", "left alone"}, {"stripped", "brew1"}},
            i \in {{}, {"brew2"}, {"foreign", "unlisted"}},
            b \in SUBSET {"brew2", "foreign"}, c \in SUBSET {"brew1"}}

Symmetry == Permutations(Builders)

(* A builder patches a runtime while the other is at one end of its work;  *)
(* of the inputs that are only copied, the dependencies are edited.        *)
Bounded ==
    /\ \A b, c \in Builders :
          pc[b] = "patch" /\ b # c => pc[c] \in {"new", "publish", "done", "failed"}
    /\ \A r \in CopiedRoles \ {"execution_dag", "cross_dependencies",
                                "public_ci_environment"} : source[r] = 0
    /\ source["python_runtime"] = 0
    /\ output # None /\ (output = Spoiled \/ ~BytesRecorded(output)) =>
          \A b \in Builders : pc[b] \in {"new", "publish", "verify", "done", "failed"}

(* The suite reads nothing of the bundle: it is run after the bundle was   *)
(* opened, with no builder at work and nothing edited or damaged.          *)
SuiteLast ==
    stage' # "idle" \/ tree' = "edited" =>
        /\ UNCHANGED bundleVars
        /\ \A b \in Builders : pc[b] \in {"new", "done"}
        /\ EditsSoFar = 0 /\ output = opened /\ opened # None
=============================================================================
