------------------------- MODULE MCAdministration -------------------------
(***************************************************************************)
(* Instances for TLC of what the background loops and administrators keep: *)
(*   "worker"     scheduled events, their pings and Discord's copies       *)
(*                (EventWorker; a day, an hour and the start, scaled)      *)
(*   "dashboard"  an event's dashboard message        (EventDashboard)     *)
(*   "owner"      the owner's torrent cards           (OwnerCards)         *)
(*   "review"     the private torrent review          (TorrentReview)      *)
(*   "forms"      report forms and their tickets      (MediaReports)       *)
(*   "queue"      the report queue                    (MediaReports)       *)
(* They share no variable.  `focus` says which one a behaviour is about;   *)
(* the others rest in one initial state.                                   *)
(***************************************************************************)
EXTENDS EventWorker, EventDashboard, OwnerCards, TorrentReview, MediaReports

ScaledLeads == <<2, 1, 0>>

VARIABLE focus

adminVars == <<vars, dashVars, cardVars, reviewVars, reportVars, focus>>

LiveForms == {f \in Forms : form[f].live}

\* For "forms" one form is open and the other is a ticket, on which one administrator
\* works by command; for "queue" both are tickets.
AdminInit ==
    /\ focus \in {"worker", "dashboard", "owner", "review", "forms", "queue"}
    /\ Init
    /\ DashInit /\ (focus # "dashboard" => At(CHOOSE e \in Editors : TRUE, "post"))
    /\ CardsInit
    /\ ReviewInit
    /\ ReportsInit
    /\ Cardinality(LiveForms) = IF focus = "forms" THEN 1 ELSE 0
    /\ focus \notin {"forms", "queue"} =>
          Len(report) = 2 /\ report[1].form = (CHOOSE f \in Forms : TRUE)
          /\ report[1].key = (CHOOSE k \in Keys : TRUE)

AdminNext ==
    /\ UNCHANGED focus
    /\ \/ focus = "worker" /\ Next
       \/ focus # "worker" /\ UNCHANGED vars
    /\ \/ focus = "dashboard" /\ DashNext
       \/ focus # "dashboard" /\ UNCHANGED dashVars
    /\ \/ focus = "owner" /\ CardsNext
       \/ focus # "owner" /\ UNCHANGED cardVars
    /\ \/ focus = "review" /\ ReviewNext
       \/ focus # "review" /\ UNCHANGED reviewVars
    /\ \/ /\ focus = "forms" /\ ReportsNext /\ queue' = queue
          /\ \A i \in DOMAIN report' : report'[i].handler \in Queues \union {Nobody}
       \/ focus = "queue" /\ ReportsNext
       \/ focus \notin {"forms", "queue"} /\ UNCHANGED reportVars

AdminSpec == AdminInit /\ [][AdminNext]_adminVars

=============================================================================
