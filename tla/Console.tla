------------------------------ MODULE Console ------------------------------
(***************************************************************************)
(* What a customer works with at the console, in one process: documents     *)
(* (Library), the sign-in (SignIn), when contacts were online (Presence),   *)
(* what they are called (Names), the log of a group (MessageLog) and the    *)
(* report (Report).  They share the process, which takes all of them down   *)
(* with it, and the rows of messages, which the report counts while the log *)
(* writes them.                                                            *)
(*                                                                         *)
(* A behaviour starts with a plan: what users, Zalo and fate may do in it.  *)
(* Plans bound the model; a plan that leaves a part alone does not cost its *)
(* interleavings.                                                          *)
(***************************************************************************)
EXTENDS Library, SignIn, Presence, Names, Report

CONSTANT Plans

ASSUME ConsoleAssumption ==
    Plans \subseteq [asks : Asks, wants : SignInWants, demands : PresenceDemands,
                    chores : ChoreLists, agenda : Agendas, ranges : SUBSET Ranges, crashes : Nat]

VARIABLE crashes  \* how often the process may still be killed

consoleVars ==
    <<libraryVars, signInVars, presenceVars, namesVars, logVars, reportVars, crashes>>

ConsoleInit ==
    /\ LibraryInit /\ SignInInit /\ PresenceInit /\ NamesInit /\ MessageLogInit /\ ReportInit
    /\ \E plan \in Plans :
          /\ asks = plan.asks /\ wants = plan.wants /\ demands = plan.demands
          /\ chores = plan.chores /\ agenda = plan.agenda
          /\ ranges = plan.ranges /\ crashes = plan.crashes

Documenting ==
    LibraryNext /\ UNCHANGED <<signInVars, presenceVars, namesVars, logVars, reportVars, crashes>>

SigningIn ==
    SignInNext /\ UNCHANGED <<libraryVars, presenceVars, namesVars, logVars, reportVars, crashes>>

Looking ==
    PresenceNext /\ UNCHANGED <<libraryVars, signInVars, namesVars, logVars, reportVars, crashes>>

Naming ==
    NamesNext /\ UNCHANGED <<libraryVars, signInVars, presenceVars, logVars, reportVars, crashes>>

Messaging ==
    /\ MessageLogNext /\ ReportWatches
    /\ UNCHANGED <<libraryVars, signInVars, presenceVars, namesVars, crashes>>

Reporting ==
    ReportNext /\ UNCHANGED <<libraryVars, signInVars, presenceVars, namesVars, logVars, crashes>>

\* The process is killed and started again.
Restart ==
    /\ crashes > 0 /\ crashes' = crashes - 1
    /\ LibraryRestart /\ SignInRestart /\ PresenceRestart /\ NamesRestart /\ MessageLogRestart
    /\ report' = Nil /\ UNCHANGED ranges

ConsoleNext ==
    Documenting \/ SigningIn \/ Looking \/ Naming \/ Messaging \/ Reporting \/ Restart

ConsoleSpec == ConsoleInit /\ [][ConsoleNext]_consoleVars /\ LibraryFairness

-----------------------------------------------------------------------------
(* Properties                                                              *)

\* Each part has the type of its state, and a message has at most one row.
ConsoleTypeOK ==
    /\ LibraryTypeOK /\ SignInTypeOK /\ PresenceTypeOK /\ NamesTypeOK
    /\ MessageLogTypeOK /\ ReportTypeOK

=============================================================================
