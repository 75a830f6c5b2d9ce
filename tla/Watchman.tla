------------------------------ MODULE Watchman ------------------------------
(***************************************************************************)
(* script/watchman.py: every ten seconds it looks for the processes named  *)
(* in its configuration with pgrep -f and starts those it does not find.   *)
(*                                                                         *)
(* What pgrep lists for a pattern is a list of lines, of which only one    *)
(* thing matters: whether the line mentions a shell.  Beside the process   *)
(* itself there are shells whose command line holds the pattern: the one   *)
(* that runs pgrep, always; the one that Popen(shell=True) starts the      *)
(* process with, before it runs the process and (dash) as long as the      *)
(* process lives; and those of other people.                               *)
(***************************************************************************)
EXTENDS Naturals, Sequences, FiniteSets

CONSTANTS
  Searches,   \* the searches a configuration holds
  Bare,       \* those whose pattern is a command without arguments
  Wrapped     \* does the shell stay (dash) or make way for the process?

ASSUME WatchmanAssumption ==
  IsFiniteSet(Searches) /\ Bare \subseteq Searches /\ Wrapped \in BOOLEAN

VARIABLES
  pc,         \* where the script is
  conf,       \* watchman.conf: "there", "missing", or "unwritable" as well
  order,      \* the searches, in the order of the dictionary
  rest,       \* those still to run in this round
  x,          \* attempts made by restartProcess, plus one
  young,      \* [Searches -> shells started that have not run their process]
  up,         \* [Searches -> live processes]
  noise       \* [Searches -> a foreign line: "none", "sh" or "other"]

script == <<pc, conf, order, rest, x>>
procs  == <<young, up, noise>>
vars   == <<script, procs>>

Orders == {f \in [1 .. Cardinality(Searches) -> Searches] :
             \A s \in Searches : \E i \in DOMAIN f : f[i] = s}

Init ==
  /\ pc = "load" /\ conf \in {"there", "missing", "unwritable"}
  /\ order = <<>> /\ rest = <<>> /\ x = 1
  /\ young = [s \in Searches |-> 0]
  /\ up \in [Searches -> {0, 1}]
  /\ noise = [s \in Searches |-> "none"]

-----------------------------------------------------------------------------
(* What a look finds. *)

(* Lines with a shell: starting ones, waiting ones, a foreign one, pgrep's. *)
Shells(s) ==
  young[s] + (IF Wrapped THEN up[s] ELSE 0) + (IF noise[s] = "sh" THEN 1 ELSE 0) + 1

(* Lines without.  The arguments of a pattern are lost: given a list,      *)
(* Popen(shell=True) runs its first word, so that such a process does not  *)
(* match its own pattern.                                                  *)
Others(s) ==
  (IF s \in Bare THEN up[s] ELSE 0) + (IF noise[s] = "other" THEN 1 ELSE 0)

(* commOutputList.  The order, by process number, does not matter: either  *)
(* there is a line that is never removed or all lines are shells.          *)
Listing(s) == [i \in 1 .. Others(s) + Shells(s) |-> IF i <= Others(s) THEN "other" ELSE "sh"]

(* Mutants of Kept: the list is filtered as meant; it is not filtered.     *)
AllFiltered(list) == {i \in DOMAIN list : list[i] # "sh"}
NothingFiltered(list) == DOMAIN list

(* for item in list: if shell: list.remove(item) - after a removal the     *)
(* iteration skips one line.  In a run of shells the 1st, 3rd, ... goes.   *)
Removed(list, i) ==
  \E k \in 0 .. i - 1 : /\ \A j \in k + 1 .. i : list[j] = "sh"
                        /\ k = 0 \/ list[k] # "sh"
                        /\ (i - k) % 2 = 1
Kept(list) == {i \in DOMAIN list : ~Removed(list, i)}

(* if commOutputList: *)
Running(s) == Kept(Listing(s)) # {}

-----------------------------------------------------------------------------
(* The script. *)

(* loadConfig.  A missing file is replaced by a template, which holds no   *)
(* search; if that fails the loop over the lines uses an unbound name.     *)
LoadConfig ==
  /\ pc = "load"
  /\ \/ conf = "there" /\ order' \in Orders /\ pc' = "round" /\ UNCHANGED conf
     \/ conf = "missing" /\ conf' = "there" /\ pc' = "round" /\ UNCHANGED order
     \/ conf = "unwritable" /\ pc' = "crashed" /\ UNCHANGED <<conf, order>>
  /\ UNCHANGED <<rest, x, procs>>

(* runSearches; without a search it exits. *)
RunSearches ==
  /\ pc = "round"
  /\ rest' = order
  /\ pc' = IF order = <<>> THEN "exited" ELSE "look"
  /\ UNCHANGED <<conf, order, x, procs>>

(* runSearch. *)
RunSearch ==
  /\ pc = "look" /\ rest # <<>>
  /\ IF Running(Head(rest))
     THEN rest' = Tail(rest) /\ UNCHANGED <<pc, x>>
     ELSE pc' = "try" /\ x' = 1 /\ UNCHANGED rest
  /\ UNCHANGED <<conf, order, procs>>

(* All searches run: ten seconds of sleep. *)
Sleep ==
  /\ pc = "look" /\ rest = <<>>
  /\ pc' = "round"
  /\ UNCHANGED <<conf, order, rest, x, procs>>

(* restartProcess: an attempt, then five seconds of sleep. *)
Attempt ==
  /\ pc = "try"
  /\ young' = [young EXCEPT ![Head(rest)] = @ + 1]
  /\ pc' = "recheck"
  /\ UNCHANGED <<conf, order, rest, x, up, noise>>

(* Mutant of Exhausted: one attempt more. *)
ExhaustedLate(n) == n > 4

(* if x == 4: three attempts have failed. *)
Exhausted(n) == n = 4

(* Mutant of Recheck: the break is missing. *)
RecheckGoesOn ==
  /\ pc = "recheck"
  /\ x' = x + 1
  /\ pc' = IF Exhausted(x') THEN "alert" ELSE "try"
  /\ UNCHANGED <<conf, order, rest, procs>>

(* restartProcess: done, or another attempt, or the third has failed. *)
Recheck ==
  /\ pc = "recheck"
  /\ IF Running(Head(rest))
     THEN pc' = "look" /\ rest' = Tail(rest) /\ UNCHANGED x
     ELSE /\ x' = x + 1
          /\ pc' = IF Exhausted(x') THEN "alert" ELSE "try"
          /\ UNCHANGED rest
  /\ UNCHANGED <<conf, order, procs>>

(* The message is put together with a variable whose assignment is         *)
(* commented out: the exception ends the script before the mail.           *)
Alert ==
  /\ pc = "alert"
  /\ pc' = "crashed"
  /\ UNCHANGED <<conf, order, rest, x, procs>>

-----------------------------------------------------------------------------
(* The processes and other people. *)

Appear(s) ==
  /\ young[s] > 0
  /\ young' = [young EXCEPT ![s] = @ - 1] /\ up' = [up EXCEPT ![s] = @ + 1]
  /\ UNCHANGED <<script, noise>>

FailToStart(s) ==
  /\ young[s] > 0
  /\ young' = [young EXCEPT ![s] = @ - 1]
  /\ UNCHANGED <<script, up, noise>>

Exit(s) ==
  /\ up[s] > 0
  /\ up' = [up EXCEPT ![s] = @ - 1]
  /\ UNCHANGED <<script, young, noise>>

(* Somebody else's command line mentions the pattern, or no longer. *)
Mention(s) ==
  /\ noise' \in {[noise EXCEPT ![s] = kind] : kind \in {"none", "sh", "other"} \ {noise[s]}}
  /\ UNCHANGED <<script, young, up>>

-----------------------------------------------------------------------------

Script ==
  LoadConfig \/ RunSearches \/ RunSearch \/ Sleep \/ Attempt \/ Recheck \/ Alert

World == \E s \in Searches : Appear(s) \/ FailToStart(s) \/ Exit(s) \/ Mention(s)

Next == Script \/ World

Spec == Init /\ [][Next]_vars

(* The script is scheduled; nothing is assumed of the processes. *)
FairSpec == Spec /\ WF_vars(Script)

-----------------------------------------------------------------------------
(* Properties. *)

TypeOK ==
  /\ pc \in {"load", "round", "look", "try", "recheck", "alert", "crashed", "exited"}
  /\ conf \in {"there", "missing", "unwritable"}
  /\ order \in Seq(Searches) /\ rest \in Seq(Searches)
  /\ x \in 1 .. 4
  /\ young \in [Searches -> Nat] /\ up \in [Searches -> Nat]
  /\ noise \in [Searches -> {"none", "sh", "other"}]

Gone(s) == young[s] = 0 /\ up[s] = 0

(* Searches whose live process, or its shell, is listed for its pattern. *)
Tracked == IF Wrapped THEN Searches ELSE Bare

(* No process is ever started beside a live one, nor beside one that is    *)
(* still coming up however long that takes.  It rests on the skipped line: *)
(* the waiting shell and pgrep's are neighbours and one of them is kept.   *)
OneInstance == \A s \in Tracked : young[s] + up[s] <= 1

(* No false alarm: whenever another attempt is about to be made, or the    *)
(* alert to be sent, the process is really gone.                           *)
AlarmIsTrue == pc \in {"try", "alert"} /\ Head(rest) \in Tracked => Gone(Head(rest))

(* A process that is gone is started, whatever becomes of the other ones,  *)
(* unless a foreign line hides that or the script has ended.               *)
GoneIsRestarted ==
  \A s \in Searches :
    Gone(s) ~> ~Gone(s) \/ noise[s] # "none" \/ pc \in {"crashed", "exited"}

(* watchman.py:105: after three attempts without success "send an email to *)
(* alert whoever needs to know about this" - and go on watching.           *)
AlertIsSent == ~(pc = "crashed" /\ x = 4)

=============================================================================
