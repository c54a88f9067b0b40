----------------------------- MODULE NotionTasks -----------------------------
(***************************************************************************)
(* The task list (app/src/notion.rs and the action queue of update.rs):    *)
(* tasks, loading and error are behind a mutex and are written by threads  *)
(* that are never joined.  A refresh thread fetches the list; a thread     *)
(* that creates a page fetches it afterwards.  The list is on a server,    *)
(* where others change it too.                                             *)
(***************************************************************************)
EXTENDS Naturals, Sequences, FiniteSets, Bags, BagsExt

CONSTANTS Lists,      \* the task lists that the server may hold
          MaxThreads  \* bound on the threads that run at once

ASSUME NotionAssumption ==
  /\ MaxThreads \in Nat \ {0}
  /\ Lists # {} /\ \A list \in Lists : list \in Seq({list[i] : i \in DOMAIN list})

VARIABLES
  server,  \* the list on the server (external)
  notion,  \* NotionState: tasks, loading and error
  threads  \* the bag of the threads

notionVars == <<server, notion, threads>>

TaskLists == Lists \cup {<<>>}

\* What a queued action asks for; a thread is a job with its stage.
Refresh    == [does |-> "refresh", id |-> "any"]
Child(id)  == [does |-> "child", id |-> id]
Thread(job, stage, got) == [job |-> job, stage |-> stage, got |-> got]
First(job) == Thread(job, IF job.does = "child" THEN "creating" ELSE "fetching", <<>>)

NotionTypeOK ==
  /\ server \in Lists
  /\ notion \in [tasks : TaskLists, loading : BOOLEAN, error : BOOLEAN]
  /\ IsABag(threads) /\ BagCardinality(threads) <= MaxThreads
  /\ \A t \in BagToSet(threads) :
       /\ t.stage \in {"creating", "fetching", "fetched", "failed"} /\ t.got \in TaskLists
       /\ t.stage = "creating" => t.job.does = "child"

NotionInit ==
  /\ server \in Lists
  /\ notion = [tasks |-> <<>>, loading |-> FALSE, error |-> FALSE]
  /\ threads = EmptyBag

----------------------------------------------------------------------------

\* The actions of a frame that need a thread: NotionRefresh sets loading and
\* clears the error before its thread starts, NotionCreateChild sets nothing.
\* The thread of NotionComplete changes nothing here and is left out.
StartJobs(jobs) ==
  /\ threads' = threads (+) SetToBag({First(j) : j \in jobs})
  /\ BagCardinality(threads') <= MaxThreads
  /\ notion' = IF Refresh \in jobs THEN [notion EXCEPT !.loading = TRUE, !.error = FALSE]
               ELSE notion
  /\ UNCHANGED server

\* A thread goes on, or ends.
Becomes(t, stage, got) == threads' = BagAdd(BagRemove(threads, t), Thread(t.job, stage, got))
Ends(t) == threads' = BagRemove(threads, t)

\* create_child_page: a thread whose page was not created ends there.
CreatePage(t) ==
  /\ t.stage = "creating"
  /\ Becomes(t, "fetching", <<>>) \/ Ends(t)
  /\ UNCHANGED <<server, notion>>

\* fetch_today_tasks.
Fetch(t) ==
  /\ t.stage = "fetching"
  /\ Becomes(t, "fetched", server) \/ Becomes(t, "failed", <<>>)
  /\ UNCHANGED <<server, notion>>

\* Mutant of Publish: a failed refresh sets the error and goes on loading.
PublishForgetsFailure(t) ==
  /\ t.stage \in {"fetched", "failed"}
  /\ Ends(t)
  /\ notion' = [tasks   |-> IF t.stage = "fetched" THEN t.got ELSE notion.tasks,
                loading |-> notion.loading /\ ~(t.job = Refresh /\ t.stage = "fetched"),
                error   |-> notion.error \/ (t.job = Refresh /\ t.stage = "failed")]
  /\ UNCHANGED server

\* The answer is written under the lock: a refresh ends the loading either
\* way, the thread of a new page writes the list only, and no failure.
Publish(t) ==
  /\ t.stage \in {"fetched", "failed"}
  /\ Ends(t)
  /\ notion' = [tasks   |-> IF t.stage = "fetched" THEN t.got ELSE notion.tasks,
                loading |-> notion.loading /\ t.job # Refresh,
                error   |-> notion.error \/ (t.job = Refresh /\ t.stage = "failed")]
  /\ UNCHANGED server

ThreadStep == \E t \in BagToSet(threads) : CreatePage(t) \/ Fetch(t) \/ Publish(t)

\* Others edit the list on the server (external).
ServerEdit ==
  /\ \E list \in Lists \ {server} : server' = list
  /\ UNCHANGED <<notion, threads>>

----------------------------------------------------------------------------

\* loading, which hides the Refresh widget, says that a refresh thread runs,
\* and there is only one: it is neither ended by another thread's list nor
\* left behind by a failure.
LoadingMeansFetching ==
  LET refreshes == {t \in BagToSet(threads) : t.job = Refresh}
  IN IF notion.loading THEN \E t \in BagToSet(threads) : refreshes = {t} /\ threads[t] = 1
                       ELSE refreshes = {}

=============================================================================
