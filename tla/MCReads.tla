------------------------------ MODULE MCReads ------------------------------
(***************************************************************************)
(* Reads for model checking.                                               *)
(***************************************************************************)
EXTENDS Reads, TLC

(***************************************************************************)
(* What an acknowledgement of round s by v can still do for leader n of    *)
(* term t: the rounds it counts for, the lease, the match.  Rounds,        *)
(* checkpoints and commits to come ask for higher numbers, so what it      *)
(* cannot do now it can never do.  It also is contact, which without       *)
(* clocks only keeps the leader from stepping down, as it need not anyway. *)
(***************************************************************************)
Leads(n, t) == role[n] = "Leader" /\ currentTerm[n] = t

AckDoes(n, t, s, match, v) ==
    LET l == leader[n]
    IN  <<{i \in DOMAIN l.pending : l.pending[i].sequence <= s /\ v \notin l.pending[i].acks},
          LeaseReads /\ ~l.authorized /\ s >= l.leaseSequence /\ v \notin l.leaseAcks,
          match = t /\ v \notin l.matched>>

Idle == <<{}, FALSE, FALSE>>

Acks == {a \in {<<m.to, m.from, AckDoes(m.to, m.term, m.sequence, m.match, m.from)>> :
                   m \in {x \in msgs : /\ x.type = "AppendEntriesResponse"
                                       /\ Leads(x.to, x.term)}} :
            Foundation \/ a[3] # Idle}

(***************************************************************************)
(* What the delivery of a frame to v can still do: make v a follower or    *)
(* restart its clock, extend its log, raise its commit index, be           *)
(* acknowledged.                                                           *)
(***************************************************************************)
FrameDoes(f, v) ==
    <<f.term > currentTerm[v] \/ role[v] # "Follower" \/ Foundation,
      ~ (termLog[f.term] \subseteq log[v]),
      IF f.commit > commit[v] THEN f.commit ELSE 0,
      IF Leads(f.from, f.term) THEN AckDoes(f.from, f.term, f.sequence, f.term, v) ELSE Idle>>

Frames ==
    UNION {{<<f.term, v, FrameDoes(f, v)>> :
              v \in {x \in Node : x # f.from /\ f.term >= currentTerm[x]}} :
             f \in {m \in msgs : m.type = "AppendEntries"}} 

(***************************************************************************)
(* A leader that has authorised its deposition has no use for its lease.   *)
(* One whose checkpoint asks for a round beyond the bound cannot renew it. *)
(* A node that believes in no leader and cannot campaign has no use for    *)
(* its clock.  All are set afresh when they next matter.                   *)
(***************************************************************************)
Leaders ==
    [n \in Node |->
        IF leader[n].authorized \/ leader[n].leaseSequence > MaxRound
        THEN [leader[n] EXCEPT !.basisAge = 0, !.leaseSequence = MaxRound + 1, !.leaseAcks = {},
                               !.leaseAge = IF leader[n].authorized THEN Window ELSE @]
        ELSE leader[n]]

Clocks ==
    [n \in Node |-> IF /\ hint[n] = Nil
                       /\ n \notin Campaigning \/ ~HasNextTerm(currentTerm[n])
                    THEN 0 ELSE elapsed[n]]

LiveMsgs ==
    {m \in msgs :
        CASE m.type = "PreVote" -> \E n \in Node : m.term > currentTerm[n]
          [] m.type = "PreVoteResponse" -> m.term = currentTerm[m.to] + 1
          [] m.type = "RequestVote" ->
                \E n \in Node \ {m.from} : \/ m.term > currentTerm[n]
                                           \/ m.term = currentTerm[n] /\ votedFor[n] = Nil
                                           \/ Foundation /\ votedFor[n] = m.from
          [] m.type = "RequestVoteResponse" ->
                m.term = currentTerm[m.to] /\ role[m.to] = "Candidate"
          [] m.type = "TimeoutNow" -> m.term >= currentTerm[m.to]
          [] OTHER -> FALSE}

(***************************************************************************)
(* Of the reads, who still waits, and whether the answer is or would be    *)
(* current.                                                                *)
(***************************************************************************)
Answers ==
    [r \in Read |-> IF outcome[r] \in {"Unasked", "Pending"}
                     THEN <<outcome[r], readIndex[r] < due[r]>>
                     ELSE <<"Answered", outcome[r] = "Granted" /\ readIndex[r] < due[r]>>]

View == <<currentTerm, votedFor, log, commit, role, hint, Clocks, since, termLog, Leaders,
          Answers,
          Frames, Acks, LiveMsgs>>

(***************************************************************************)
(* Nodes that the configuration treats alike, and reads.                   *)
(***************************************************************************)
Alike(n, m) == \A S \in {{Incumbent}, Campaigning, TransferTargets, Restarting} : n \in S <=> m \in S

Symmetry == {p \in Permutations(Node) : \A n \in Node : Alike(n, p[n])} \cup Permutations(Read)

=============================================================================
