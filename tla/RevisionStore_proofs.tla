------------------------ MODULE RevisionStore_proofs ------------------------
(***************************************************************************)
(* Proofs about RevisionStore, for every value of its constants.           *)
(***************************************************************************)
EXTENDS RevisionStore, FiniteSetTheorems, TLAPS

----------------------------------------------------------------------------
(* The inductive invariant *)

\* Which operation may be at which step, and that its locals are set there.
ControlInv ==
  /\ \A g \in Gen : g > last => files[g] = {}
  /\ pc \in {"down", "idle", "start"} => job = "none"
  /\ pc = "init" => job \in {"none", "init"}
  /\ pc \in {"prepare", "check"} => job # "none"
  /\ pc \in {"activate", "sync"} => job \in {"init", "start", "apply"}
  /\ pc = "check_active" => job = "start"
  /\ pc \in {"signal", "rescue", "rb_activate", "rb_sync", "rb_signal", "rb_wait"}
       => job = "apply"
  /\ pc \in {"wait", "mark", "cleanup", "purge"} => job \in {"start", "apply"}
  /\ pc = "remove" => job \in {"start", "test", "apply"}
  /\ pc \in {"prepare", "check", "activate", "sync", "signal", "rescue", "rb_activate",
             "rb_sync", "rb_signal", "rb_wait", "remove", "purge"}
       => cand \in Gen /\ cand <= last
  /\ pc = "wait" /\ job = "apply" => cand \in Gen /\ cand <= last
  /\ job = "apply" => old \in Gen
  /\ pc \notin {"down", "init"} /\ job # "init" => draft \in Config /\ active \in Gen

\* The revision being prepared.
CandInv ==
  /\ pc = "prepare" => files[cand] \in {{"dir"}, {"dir", "config"}, {"dir", "config", "conf"}}
  /\ pc = "check" => Complete(cand)
  /\ pc = "activate" => Complete(cand) /\ cand \in checked
  /\ pc \in {"prepare", "check", "activate", "remove", "purge"} => cand \notin {active, disk}

\* Where the symlink points while apply_config() is under way.
LinkInv ==
  /\ pc \notin {"sync", "rescue", "rb_activate", "rb_sync"} => disk = active
  /\ pc = "sync" => active = cand /\ disk = old
  /\ job \in {"apply", "test"} /\ pc \notin {"mark", "cleanup", "purge"} =>
       old \in Gen /\ old # cand /\ Complete(old) /\ old \in checked
  /\ pc \in {"prepare", "check", "activate", "remove"} => active = old
  /\ pc \in {"signal", "rb_activate"} \/ (pc \in {"wait", "mark"} /\ job = "apply") => active = cand
  /\ pc = "rescue" => active \in {old, cand} /\ disk \in {old, active}
  /\ pc = "rb_activate" => disk \in {old, cand}
  /\ pc = "rb_sync" => active = old /\ disk \in {old, cand}
  /\ pc \in {"rb_signal", "rb_wait"} => active = old

\* What a restart would serve, and what nginx serves, has been applied.
ApprovedInv ==
  /\ Default \in approved
  /\ \A g \in {active, disk} \ {NoGen} : config[g] \in approved /\ g <= last
  /\ pc \in {"prepare", "check", "activate"} /\ job # "test" => config[cand] \in approved
  /\ job = "apply" /\ old # NoGen => config[old] \in approved
  /\ OnlyAppliedServes
  /\ \A g \in {loading, serving, retiring} : g <= last

\* From the moment the symlink names a candidate, nginx takes up nothing else; probes
\* can match only while the handover runs or after it.
TakesUp(g) ==
  /\ g \in {loading, serving, retiring} => loading \in {NoGen, g} /\ g \in {loading, serving}
  /\ retiring \notin {NoGen, g} /\ g = serving => stable + overlap <= OverlapProbes
  /\ retiring = g => serving = g
  /\ g \notin {serving, retiring} => stable = 0

NginxInv ==
  /\ ~alive => hups = 0 /\ {loading, serving, retiring} = {NoGen}
  /\ retiring # NoGen <=> overlap > 0
  /\ retiring # NoGen => serving # NoGen
  /\ pc \in {"prepare", "check", "activate"} => cand \notin {loading, serving, retiring}
  /\ pc \in {"down", "init", "start", "check_active"} \/ job = "init" => ~alive
  /\ pc \in {"prepare", "check", "activate", "sync"} /\ job = "start" => ~alive
  /\ pc \in {"sync", "signal", "wait"} /\ alive => TakesUp(active)
  /\ pc = "wait" /\ job = "start" /\ alive
       => serving = active \/ (serving = NoGen /\ loading = active)
  /\ pc \notin {"wait", "rb_wait"} => stable = 0
  /\ ConfirmedIsSettled

\* The default, and the revision a start renders anew, change no settings.
SettingsInv ==
  /\ job = "init" /\ pc \in {"prepare", "check", "activate"}
       => active = NoGen /\ config[cand] = Default
  /\ job = "init" /\ pc = "sync" => disk = NoGen /\ config[active] = Default
  /\ job = "start" /\ pc \in {"prepare", "check", "activate"} => config[cand] = config[active]
  /\ job = "start" /\ pc = "sync" => disk \in Gen /\ config[disk] = config[active]

IndInv ==
  /\ TypeOK /\ ControlInv /\ CandInv /\ LinkInv /\ ActiveIsComplete
  /\ ApprovedInv /\ NginxInv /\ SettingsInv

----------------------------------------------------------------------------
(* Each lemma takes the part of IndInv it names through one step; it has one case per action. *)

\* Types, and which operation may be where.
LEMMA TypeStep == TypeOK /\ ControlInv /\ [Next]_vars => TypeOK' /\ ControlInv'
<1> SUFFICES ASSUME TypeOK, ControlInv, [Next]_vars PROVE TypeOK' /\ ControlInv'
  OBVIOUS
<1> USE ConfigAssumption, BoundAssumption, TimingAssumption
    DEF TypeOK, DataTypeOK, NginxTypeOK, OpTypeOK, ProgTypeOK, ControlInv, alive, Gen, NoGen,
      File, Job, PC, Outcome, vars, dataVars, treeVars,
        nginxVars, opVars, histVars, progVars
<1>1. CASE Boot
  BY <1>1 DEF Boot, Goto
<1>2. CASE InitActive
  BY <1>2 DEF InitActive, Prepare
<1>3. CASE InitDraft
  BY <1>3 DEF InitDraft, Finish
<1>4. CASE StartCurrent
  BY <1>4 DEF StartCurrent
<1>5. CASE StartStale
  BY <1>5 DEF StartStale, Prepare, ActiveSettings
<1>6. CASE Spawn
  BY <1>6 DEF Spawn, alive
<1>7. CASE WriteFile
  BY <1>7 DEF WriteFile, NextFile, Goto
<1>8. CASE CheckPasses
  <2>1. DataTypeOK'
    BY <1>8 DEF CheckPasses, Discard, Goto
  <2>2. NginxTypeOK'
    BY <1>8 DEF CheckPasses, Discard, Goto
  <2>3. OpTypeOK'
    BY SMTT(30), <1>8 DEF CheckPasses, Discard, Goto
  <2>4. ProgTypeOK'
    BY <1>8 DEF CheckPasses, Discard, Goto
  <2>5. ControlInv'
    BY <1>8 DEF CheckPasses, Discard, Goto
  <2> QED
    BY <2>1, <2>2, <2>3, <2>4, <2>5
<1>9. CASE CheckFails
  <2>1. DataTypeOK'
    BY <1>9 DEF CheckFails, Fault, Finish, Discard
  <2>2. NginxTypeOK'
    BY <1>9 DEF CheckFails, Fault, Finish, Discard
  <2>3. OpTypeOK'
    BY <1>9 DEF CheckFails, Fault, Finish, Discard
  <2>4. ProgTypeOK'
    BY <1>9 DEF CheckFails, Fault, Finish, Discard
  <2>5. ControlInv'
    BY <1>9 DEF CheckFails, Fault, Finish, Discard
  <2> QED
    BY <2>1, <2>2, <2>3, <2>4, <2>5
<1>10. CASE Activate
  <2>1. DataTypeOK'
    BY <1>10 DEF Activate, Goto
  <2>2. NginxTypeOK'
    BY <1>10 DEF Activate, Goto
  <2>3. OpTypeOK'
    BY <1>10 DEF Activate, Goto
  <2>4. ProgTypeOK'
    BY <1>10 DEF Activate, Goto
  <2>5. ControlInv'
    BY <1>10 DEF Activate, Goto
  <2> QED
    BY <2>1, <2>2, <2>3, <2>4, <2>5
<1>11. CASE SyncActive
  <2>1. DataTypeOK'
    BY <1>11 DEF SyncActive, Goto, Discard
  <2>2. NginxTypeOK'
    BY <1>11 DEF SyncActive, Goto, Discard
  <2>3. OpTypeOK'
    BY SMTT(30), <1>11 DEF SyncActive, Goto, Discard
  <2>4. ProgTypeOK'
    BY <1>11 DEF SyncActive, Goto, Discard
  <2>5. ControlInv'
    BY <1>11 DEF SyncActive, Goto, Discard
  <2> QED
    BY <2>1, <2>2, <2>3, <2>4, <2>5
<1>12. CASE Signal
  BY <1>12 DEF Signal
<1>13. CASE ProbeMatches
  <2>1. DataTypeOK'
    BY <1>13 DEF ProbeMatches, Waiting, Settled, Countdown, Discard, HandoverStep, Leave
  <2>2. NginxTypeOK'
    BY <1>13 DEF ProbeMatches, Waiting, Settled, Countdown, Discard, HandoverStep, Leave
  <2>3. OpTypeOK'
    BY SMTT(30), <1>13 DEF ProbeMatches, Waiting, Settled, Countdown, Discard, HandoverStep, Leave
  <2>4. ProgTypeOK'
    BY <1>13 DEF ProbeMatches, Waiting, Settled, Countdown, Discard, HandoverStep, Leave
  <2>5. ControlInv'
    BY <1>13 DEF ProbeMatches, Waiting, Settled, Countdown, Discard, HandoverStep, Leave
  <2> QED
    BY <2>1, <2>2, <2>3, <2>4, <2>5
<1>14. CASE ProbeMisses
  BY SMTT(30), <1>14 DEF ProbeMisses, Waiting, Fault, Countdown, HandoverStep
<1>15. CASE WaitFails
  <2>1. UNCHANGED <<dataVars, progVars>>
    BY <1>15 DEF WaitFails
  <2>2. CASE Exit
    BY <2>1, <2>2 DEF Exit, Finish, NginxGone
  <2>3. CASE pc = "wait" /\ job = "apply" /\ Leave("rescue") /\ UNCHANGED nginxVars
    BY <2>1, <2>3 DEF Leave
  <2>4. CASE pc = "rb_wait" /\ Discard("unverified") /\ UNCHANGED nginxVars
    BY <2>1, <2>4 DEF Discard
  <2> QED
    BY <1>15, <2>2, <2>3, <2>4 DEF WaitFails
<1>16. CASE Rescue
  <2>1. DataTypeOK'
    BY <1>16 DEF Rescue, CandidateIsActive, Goto, Discard
  <2>2. NginxTypeOK'
    BY <1>16 DEF Rescue, CandidateIsActive, Goto, Discard
  <2>3. OpTypeOK'
    BY SMTT(30), <1>16 DEF Rescue, CandidateIsActive, Goto, Discard
  <2>4. ProgTypeOK'
    BY <1>16 DEF Rescue, CandidateIsActive, Goto, Discard
  <2>5. ControlInv'
    BY <1>16 DEF Rescue, CandidateIsActive, Goto, Discard
  <2> QED
    BY <2>1, <2>2, <2>3, <2>4, <2>5
<1>17. CASE Remove
  <2>1. CASE Goto("remove") /\ UNCHANGED nginxVars
    BY <1>17, <2>1 DEF Remove, RemoveFile, Goto
  <2>2. CASE Exit
    BY <1>17, <2>2 DEF Remove, RemoveFile, Exit, Finish, NginxGone
  <2>3. CASE Finish("idle") /\ UNCHANGED nginxVars
    BY <1>17, <2>3 DEF Remove, RemoveFile, Finish
  <2> QED
    BY <1>17, <2>1, <2>2, <2>3 DEF Remove, RemoveFile, Raise
<1>18. CASE MarkApplied
  BY <1>18 DEF MarkApplied, Goto
<1>19. CASE Cleanup
  <2>1. UNCHANGED <<dataVars, progVars>>
    BY <1>19 DEF Cleanup
  <2>2. CASE Exit
    BY <2>1, <2>2 DEF Exit, Finish, NginxGone
  <2>3. CASE Finish("idle") /\ UNCHANGED nginxVars
    BY <1>19, <2>1, <2>3 DEF Cleanup, Finish
  <2>4. CASE pc' = "purge" /\ cand' \in Newest(Excess, 1)
            /\ UNCHANGED <<job, old, left, stable, outcome, nginxVars>>
    <3>1. cand' \in Gen /\ cand' <= last
      BY <2>4 DEF Newest, Excess, History
    <3> QED
      BY <1>19, <2>1, <2>4, <3>1 DEF Cleanup
  <2> QED
    BY <1>19, <2>2, <2>3, <2>4 DEF Cleanup, Raise
<1>20. CASE Purge
  BY <1>20 DEF Purge, RemoveFile, Goto
<1>21. CASE NginxMissed
  BY <1>21 DEF NginxMissed, Exit, Finish, NginxGone
<1>22. CASE Edit
  <2>1. DataTypeOK'
    BY ZenonT(40), <1>22 DEF Edit, Restorable
  <2>2. NginxTypeOK'
    BY <1>22 DEF Edit, Restorable
  <2>3. OpTypeOK'
    BY <1>22 DEF Edit, Restorable
  <2>4. ProgTypeOK'
    BY <1>22 DEF Edit, Restorable
  <2>5. ControlInv'
    BY SMTT(30), <1>22 DEF Edit, Restorable
  <2> QED
    BY <2>1, <2>2, <2>3, <2>4, <2>5
<1>23. CASE Test
  BY <1>23 DEF Test, Prepare
<1>24. CASE Apply
  BY <1>24 DEF Apply, Prepare
<1>25. CASE Shutdown
  BY <1>25 DEF Shutdown, Exit, Finish, NginxGone
<1>26. CASE ReadConf
  BY <1>26 DEF ReadConf
<1>27. CASE StartWorkers
  BY <1>27 DEF StartWorkers
<1>28. CASE HandoverEnds
  BY <1>28 DEF HandoverEnds
<1>29. CASE PrepareFails
  BY <1>29 DEF PrepareFails, Fault, Finish
<1>30. CASE ActivateFails
  <2>1. DataTypeOK'
    BY <1>30 DEF ActivateFails, Fault, Goto, Finish
  <2>2. NginxTypeOK'
    BY <1>30 DEF ActivateFails, Fault, Goto, Finish
  <2>3. OpTypeOK'
    BY SMTT(30), <1>30 DEF ActivateFails, Fault, Goto, Finish
  <2>4. ProgTypeOK'
    BY <1>30 DEF ActivateFails, Fault, Goto, Finish
  <2>5. ControlInv'
    BY <1>30 DEF ActivateFails, Fault, Goto, Finish
  <2> QED
    BY <2>1, <2>2, <2>3, <2>4, <2>5
<1>31. CASE SpawnFails
  BY <1>31 DEF SpawnFails, Fault, Exit, Finish, NginxGone
<1>32. CASE RollbackFails
  BY <1>32 DEF RollbackFails, Fault, Finish
<1>33. CASE MarkFails
  <2>1. CASE Exit
    BY <1>33, <2>1 DEF MarkFails, Fault, Exit, Finish, NginxGone
  <2>2. CASE Finish("idle") /\ UNCHANGED nginxVars
    BY <1>33, <2>2 DEF MarkFails, Fault, Finish
  <2> QED
    BY <1>33, <2>1, <2>2 DEF MarkFails, Raise
<1>34. CASE ReloadFails
  BY <1>34 DEF ReloadFails, Fault
<1>35. CASE NginxDies
  BY <1>35 DEF NginxDies, Fault, NginxGone
<1>36. CASE Crash
  BY <1>36 DEF Crash, Fault, Exit, Finish, NginxGone
<1>37. CASE UNCHANGED vars
  BY <1>37
<1> QED
  BY <1>1, <1>2, <1>3, <1>4, <1>5, <1>6, <1>7, <1>8, <1>9, <1>10, <1>11, <1>12, <1>13, <1>14,
    <1>15, <1>16, <1>17, <1>18, <1>19, <1>20, <1>21, <1>22, <1>23, <1>24, <1>25, <1>26,
    <1>27, <1>28, <1>29, <1>30, <1>31, <1>32, <1>33, <1>34, <1>35, <1>36, <1>37 DEF Next,
    Progress, Requests, Nginx, Faulty

\* prepare() allocates a directory that nothing names yet ...
LEMMA PrepareDisk ==
  ASSUME TypeOK, ControlInv, CandInv, LinkInv, ActiveIsComplete,
         pc \in {"idle", "start", "init"}, active \in Gen,
         NEW j \in Job \ {"none"}, NEW c, Prepare(j, c)
  PROVE  CandInv' /\ LinkInv' /\ ActiveIsComplete'
<1> USE BoundAssumption DEF Gen, NoGen
<1>1. disk = active /\ active \in checked /\ Complete(active)
  BY DEF LinkInv, ActiveIsComplete
<1>2. active <= last
  <2>1. files[active] # {}
    BY <1>1 DEF Complete, File
  <2>2. \A g \in 1..MaxGen : g > last => files[g] = {}
    BY DEF ControlInv
  <2> QED
    BY <2>1, <2>2 DEF TypeOK, DataTypeOK
<1>3. /\ active' = active /\ disk' = active /\ checked' = checked /\ pc' = "prepare"
      /\ job' = j /\ cand' = last + 1 /\ old' = active /\ last + 1 \in Gen
  BY <1>1 DEF Prepare, dataVars, treeVars, TypeOK, DataTypeOK
<1>4. files'[active] = files[active] /\ files'[last + 1] = {"dir"}
  BY <1>2, <1>3 DEF Prepare, TypeOK, DataTypeOK
<1>5. active # last + 1
  BY <1>2 DEF TypeOK, DataTypeOK
<1> QED
  BY <1>1, <1>3, <1>4, <1>5 DEF CandInv, LinkInv, ActiveIsComplete, Complete

\* The candidate, the symlink and the completeness of what it names.
LEMMA DiskStep ==
  ASSUME TypeOK, ControlInv, CandInv, LinkInv, ActiveIsComplete, [Next]_vars
  PROVE  CandInv' /\ LinkInv' /\ ActiveIsComplete'
<1> USE BoundAssumption
    DEF TypeOK, DataTypeOK, OpTypeOK, ControlInv, CandInv, LinkInv, ActiveIsComplete, Complete,
        alive, Gen, NoGen, File, vars, dataVars, treeVars, opVars, histVars, progVars
<1>1. CASE Boot
  <2>1. CandInv'
    BY <1>1 DEF Boot, Goto
  <2>2. LinkInv'
    BY <1>1 DEF Boot, Goto
  <2>3. ActiveIsComplete'
    BY <1>1 DEF Boot, Goto
  <2> QED
    BY <2>1, <2>2, <2>3
<1>2. CASE InitActive
  <2>1. CandInv'
    BY <1>2 DEF InitActive, Prepare
  <2>2. LinkInv'
    BY <1>2 DEF InitActive, Prepare
  <2>3. ActiveIsComplete'
    BY <1>2 DEF InitActive, Prepare
  <2> QED
    BY <2>1, <2>2, <2>3
<1>3. CASE InitDraft
  <2>1. CandInv'
    BY <1>3 DEF InitDraft, Finish
  <2>2. LinkInv'
    BY <1>3 DEF InitDraft, Finish
  <2>3. ActiveIsComplete'
    BY <1>3 DEF InitDraft, Finish
  <2> QED
    BY <2>1, <2>2, <2>3
<1>4. CASE StartCurrent
  <2>1. CandInv'
    BY <1>4 DEF StartCurrent
  <2>2. LinkInv'
    BY <1>4 DEF StartCurrent
  <2>3. ActiveIsComplete'
    BY <1>4 DEF StartCurrent
  <2> QED
    BY <2>1, <2>2, <2>3
<1>5. CASE StartStale
  BY <1>5, PrepareDisk DEF StartStale, ActiveSettings, Job
<1>6. CASE Spawn
  <2>1. CandInv'
    BY <1>6 DEF Spawn, alive
  <2>2. LinkInv'
    BY <1>6 DEF Spawn, alive
  <2>3. ActiveIsComplete'
    BY <1>6 DEF Spawn, alive
  <2> QED
    BY <2>1, <2>2, <2>3
<1>7. CASE WriteFile
  <2>1. CandInv'
    BY <1>7 DEF WriteFile, NextFile, Goto
  <2>2. LinkInv'
    BY <1>7 DEF WriteFile, NextFile, Goto
  <2>3. ActiveIsComplete'
    BY <1>7 DEF WriteFile, NextFile, Goto
  <2> QED
    BY <2>1, <2>2, <2>3
<1>8. CASE CheckPasses
  <2>1. CandInv'
    BY <1>8 DEF CheckPasses, Discard, Goto
  <2>2. LinkInv'
    BY <1>8 DEF CheckPasses, Discard, Goto
  <2>3. ActiveIsComplete'
    BY <1>8 DEF CheckPasses, Discard, Goto
  <2> QED
    BY <2>1, <2>2, <2>3
<1>9. CASE CheckFails
  <2>1. CandInv'
    BY <1>9 DEF CheckFails, Fault, Finish, Discard
  <2>2. LinkInv'
    BY <1>9 DEF CheckFails, Fault, Finish, Discard
  <2>3. ActiveIsComplete'
    BY <1>9 DEF CheckFails, Fault, Finish, Discard
  <2> QED
    BY <2>1, <2>2, <2>3
<1>10. CASE Activate
  <2>1. CandInv'
    BY <1>10 DEF Activate, Goto
  <2>2. LinkInv'
    BY <1>10 DEF Activate, Goto
  <2>3. ActiveIsComplete'
    BY SMTT(30), <1>10 DEF Activate, Goto
  <2> QED
    BY <2>1, <2>2, <2>3
<1>11. CASE SyncActive
  <2>1. CandInv'
    BY <1>11 DEF SyncActive, Goto, Discard
  <2>2. LinkInv'
    BY SMTT(30), <1>11 DEF SyncActive, Goto, Discard
  <2>3. ActiveIsComplete'
    BY <1>11 DEF SyncActive, Goto, Discard
  <2> QED
    BY <2>1, <2>2, <2>3
<1>12. CASE Signal
  <2>1. CandInv'
    BY <1>12 DEF Signal
  <2>2. LinkInv'
    BY <1>12 DEF Signal
  <2>3. ActiveIsComplete'
    BY <1>12 DEF Signal
  <2> QED
    BY <2>1, <2>2, <2>3
<1>13. CASE ProbeMatches
  <2>1. CandInv'
    BY <1>13 DEF ProbeMatches, Waiting, Settled, Countdown, Discard, HandoverStep, Leave
  <2>2. LinkInv'
    BY SMTT(30), <1>13 DEF ProbeMatches, Waiting, Settled, Countdown, Discard, HandoverStep, Leave
  <2>3. ActiveIsComplete'
    BY <1>13 DEF ProbeMatches, Waiting, Settled, Countdown, Discard, HandoverStep, Leave
  <2> QED
    BY <2>1, <2>2, <2>3
<1>14. CASE ProbeMisses
  <2>1. CandInv'
    BY <1>14 DEF ProbeMisses, Waiting, Fault, Countdown, HandoverStep
  <2>2. LinkInv'
    BY <1>14 DEF ProbeMisses, Waiting, Fault, Countdown, HandoverStep
  <2>3. ActiveIsComplete'
    BY <1>14 DEF ProbeMisses, Waiting, Fault, Countdown, HandoverStep
  <2> QED
    BY <2>1, <2>2, <2>3
<1>15. CASE WaitFails
  <2>1. CandInv'
    BY <1>15 DEF WaitFails, Waiting, Exit, Finish, NginxGone, Discard, Leave
  <2>2. LinkInv'
    BY <1>15 DEF WaitFails, Waiting, Exit, Finish, NginxGone, Discard, Leave
  <2>3. ActiveIsComplete'
    BY <1>15 DEF WaitFails, Waiting, Exit, Finish, NginxGone, Discard, Leave
  <2> QED
    BY <2>1, <2>2, <2>3
<1>16. CASE Rescue
  <2>1. CandInv'
    BY <1>16 DEF Rescue, CandidateIsActive, Goto, Discard
  <2>2. LinkInv'
    BY <1>16 DEF Rescue, CandidateIsActive, Goto, Discard
  <2>3. ActiveIsComplete'
    BY <1>16 DEF Rescue, CandidateIsActive, Goto, Discard
  <2> QED
    BY <2>1, <2>2, <2>3
<1>17. CASE Remove
  <2>1. CandInv'
    BY <1>17 DEF Remove, RemoveFile, Raise, Exit, Finish, NginxGone, Goto
  <2>2. LinkInv'
    BY <1>17 DEF Remove, RemoveFile, Raise, Exit, Finish, NginxGone, Goto
  <2>3. ActiveIsComplete'
    BY <1>17 DEF Remove, RemoveFile, Raise, Exit, Finish, NginxGone, Goto
  <2> QED
    BY <2>1, <2>2, <2>3
<1>18. CASE MarkApplied
  <2>1. CandInv'
    BY <1>18 DEF MarkApplied, Goto
  <2>2. LinkInv'
    BY <1>18 DEF MarkApplied, Goto
  <2>3. ActiveIsComplete'
    BY <1>18 DEF MarkApplied, Goto
  <2> QED
    BY <2>1, <2>2, <2>3
<1>19. CASE Cleanup
  <2>1. CandInv'
    BY <1>19 DEF Cleanup, Raise, Exit, Finish, NginxGone, Excess, Newest, History
  <2>2. LinkInv'
    BY <1>19 DEF Cleanup, Raise, Exit, Finish, NginxGone, Excess, Newest, History
  <2>3. ActiveIsComplete'
    BY <1>19 DEF Cleanup, Raise, Exit, Finish, NginxGone, Excess, Newest, History
  <2> QED
    BY <2>1, <2>2, <2>3
<1>20. CASE Purge
  <2>1. CandInv'
    BY <1>20 DEF Purge, RemoveFile, Goto
  <2>2. LinkInv'
    BY <1>20 DEF Purge, RemoveFile, Goto
  <2>3. ActiveIsComplete'
    BY <1>20 DEF Purge, RemoveFile, Goto
  <2> QED
    BY <2>1, <2>2, <2>3
<1>21. CASE NginxMissed
  <2>1. CandInv'
    BY <1>21 DEF NginxMissed, Exit, Finish, NginxGone
  <2>2. LinkInv'
    BY <1>21 DEF NginxMissed, Exit, Finish, NginxGone
  <2>3. ActiveIsComplete'
    BY <1>21 DEF NginxMissed, Exit, Finish, NginxGone
  <2> QED
    BY <2>1, <2>2, <2>3
<1>22. CASE Edit
  <2>1. CandInv'
    BY <1>22 DEF Edit, Restorable
  <2>2. LinkInv'
    BY <1>22 DEF Edit, Restorable
  <2>3. ActiveIsComplete'
    BY <1>22 DEF Edit, Restorable
  <2> QED
    BY <2>1, <2>2, <2>3
<1>23. CASE Test
  BY <1>23, PrepareDisk DEF Test, ActiveSettings, Job
<1>24. CASE Apply
  BY <1>24, PrepareDisk DEF Apply, ActiveSettings, Job
<1>25. CASE Shutdown
  <2>1. CandInv'
    BY <1>25 DEF Shutdown, Exit, Finish, NginxGone
  <2>2. LinkInv'
    BY <1>25 DEF Shutdown, Exit, Finish, NginxGone
  <2>3. ActiveIsComplete'
    BY <1>25 DEF Shutdown, Exit, Finish, NginxGone
  <2> QED
    BY <2>1, <2>2, <2>3
<1>26. CASE ReadConf
  <2>1. CandInv'
    BY <1>26 DEF ReadConf
  <2>2. LinkInv'
    BY <1>26 DEF ReadConf
  <2>3. ActiveIsComplete'
    BY <1>26 DEF ReadConf
  <2> QED
    BY <2>1, <2>2, <2>3
<1>27. CASE StartWorkers
  <2>1. CandInv'
    BY <1>27 DEF StartWorkers
  <2>2. LinkInv'
    BY <1>27 DEF StartWorkers
  <2>3. ActiveIsComplete'
    BY <1>27 DEF StartWorkers
  <2> QED
    BY <2>1, <2>2, <2>3
<1>28. CASE HandoverEnds
  <2>1. CandInv'
    BY <1>28 DEF HandoverEnds
  <2>2. LinkInv'
    BY <1>28 DEF HandoverEnds
  <2>3. ActiveIsComplete'
    BY <1>28 DEF HandoverEnds
  <2> QED
    BY <2>1, <2>2, <2>3
<1>29. CASE PrepareFails
  <2>1. CandInv'
    BY <1>29 DEF PrepareFails, Fault, Finish
  <2>2. LinkInv'
    BY <1>29 DEF PrepareFails, Fault, Finish
  <2>3. ActiveIsComplete'
    BY <1>29 DEF PrepareFails, Fault, Finish
  <2> QED
    BY <2>1, <2>2, <2>3
<1>30. CASE ActivateFails
  <2>1. CandInv'
    BY <1>30 DEF ActivateFails, Fault, Goto, Finish
  <2>2. LinkInv'
    BY <1>30 DEF ActivateFails, Fault, Goto, Finish
  <2>3. ActiveIsComplete'
    BY <1>30 DEF ActivateFails, Fault, Goto, Finish
  <2> QED
    BY <2>1, <2>2, <2>3
<1>31. CASE SpawnFails
  <2>1. CandInv'
    BY <1>31 DEF SpawnFails, Fault, Exit, Finish, NginxGone
  <2>2. LinkInv'
    BY <1>31 DEF SpawnFails, Fault, Exit, Finish, NginxGone
  <2>3. ActiveIsComplete'
    BY <1>31 DEF SpawnFails, Fault, Exit, Finish, NginxGone
  <2> QED
    BY <2>1, <2>2, <2>3
<1>32. CASE RollbackFails
  <2>1. CandInv'
    BY <1>32 DEF RollbackFails, Fault, Finish
  <2>2. LinkInv'
    BY <1>32 DEF RollbackFails, Fault, Finish
  <2>3. ActiveIsComplete'
    BY <1>32 DEF RollbackFails, Fault, Finish
  <2> QED
    BY <2>1, <2>2, <2>3
<1>33. CASE MarkFails
  <2>1. CandInv'
    BY <1>33 DEF MarkFails, Fault, Raise, Exit, Finish, NginxGone
  <2>2. LinkInv'
    BY <1>33 DEF MarkFails, Fault, Raise, Exit, Finish, NginxGone
  <2>3. ActiveIsComplete'
    BY <1>33 DEF MarkFails, Fault, Raise, Exit, Finish, NginxGone
  <2> QED
    BY <2>1, <2>2, <2>3
<1>34. CASE ReloadFails
  <2>1. CandInv'
    BY <1>34 DEF ReloadFails, Fault
  <2>2. LinkInv'
    BY <1>34 DEF ReloadFails, Fault
  <2>3. ActiveIsComplete'
    BY <1>34 DEF ReloadFails, Fault
  <2> QED
    BY <2>1, <2>2, <2>3
<1>35. CASE NginxDies
  <2>1. CandInv'
    BY <1>35 DEF NginxDies, Fault, NginxGone
  <2>2. LinkInv'
    BY <1>35 DEF NginxDies, Fault, NginxGone
  <2>3. ActiveIsComplete'
    BY <1>35 DEF NginxDies, Fault, NginxGone
  <2> QED
    BY <2>1, <2>2, <2>3
<1>36. CASE Crash
  <2>1. CandInv'
    BY <1>36 DEF Crash, Fault, Exit, Finish, NginxGone
  <2>2. LinkInv'
    BY <1>36 DEF Crash, Fault, Exit, Finish, NginxGone
  <2>3. ActiveIsComplete'
    BY <1>36 DEF Crash, Fault, Exit, Finish, NginxGone
  <2> QED
    BY <2>1, <2>2, <2>3
<1>37. CASE UNCHANGED vars
  BY <1>37
<1> QED
  BY <1>1, <1>2, <1>3, <1>4, <1>5, <1>6, <1>7, <1>8, <1>9, <1>10, <1>11, <1>12, <1>13, <1>14,
    <1>15, <1>16, <1>17, <1>18, <1>19, <1>20, <1>21, <1>22, <1>23, <1>24, <1>25, <1>26,
    <1>27, <1>28, <1>29, <1>30, <1>31, <1>32, <1>33, <1>34, <1>35, <1>36, <1>37 DEF Next,
    Progress, Requests, Nginx, Faulty

\* Where the settings of active, candidate and workers come from.
LEMMA ApprovedStep ==
  ASSUME TypeOK, ControlInv, CandInv, LinkInv, ActiveIsComplete, ApprovedInv, [Next]_vars
  PROVE  ApprovedInv'
<1> USE BoundAssumption
    DEF TypeOK, DataTypeOK, OpTypeOK, NginxTypeOK, ProgTypeOK, ControlInv, LinkInv,
      ActiveIsComplete, ApprovedInv, OnlyAppliedServes, CandInv,
        alive, Gen, NoGen, vars, dataVars, treeVars, nginxVars, opVars, histVars, progVars
<1>1. CASE Boot
  BY <1>1 DEF Boot, Goto
<1>2. CASE InitActive
  BY <1>2 DEF InitActive, Prepare
<1>3. CASE InitDraft
  BY <1>3 DEF InitDraft, Finish
<1>4. CASE StartCurrent
  BY <1>4 DEF StartCurrent
<1>5. CASE StartStale
  BY <1>5 DEF StartStale, Prepare, ActiveSettings
<1>6. CASE Spawn
  BY <1>6 DEF Spawn, alive
<1>7. CASE WriteFile
  BY <1>7 DEF WriteFile, NextFile, Goto
<1>8. CASE CheckPasses
  BY <1>8 DEF CheckPasses, Discard, Goto
<1>9. CASE CheckFails
  BY <1>9 DEF CheckFails, Fault, Finish, Discard
<1>10. CASE Activate
  <2>1. CASE pc = "activate"
    BY <1>10, <2>1 DEF Activate, Goto
  <2>2. CASE pc = "rb_activate"
    <3>1. files[old] # {}
      BY <2>2 DEF Complete, File
    <3>2. old <= last
      BY <2>2, <3>1
    <3> QED
      BY <1>10, <2>2, <3>2 DEF Activate, Goto
  <2> QED
    BY <1>10, <2>1, <2>2 DEF Activate
<1>11. CASE SyncActive
  BY <1>11 DEF SyncActive, Goto, Discard
<1>12. CASE Signal
  BY <1>12 DEF Signal
<1>13. CASE ProbeMatches
  BY <1>13 DEF ProbeMatches, Waiting, Settled, Countdown, Discard, HandoverStep, Leave
<1>14. CASE ProbeMisses
  BY <1>14 DEF ProbeMisses, Waiting, Fault, Countdown, HandoverStep
<1>15. CASE WaitFails
  <2>1. UNCHANGED <<dataVars, progVars>>
    BY <1>15 DEF WaitFails
  <2>2. CASE Exit
    BY <2>1, <2>2 DEF Exit, Finish, NginxGone
  <2>3. CASE pc = "wait" /\ job = "apply" /\ Leave("rescue") /\ UNCHANGED nginxVars
    BY <2>1, <2>3 DEF Leave
  <2>4. CASE pc = "rb_wait" /\ Discard("unverified") /\ UNCHANGED nginxVars
    BY <2>1, <2>4 DEF Discard
  <2> QED
    BY <1>15, <2>2, <2>3, <2>4 DEF WaitFails
<1>16. CASE Rescue
  BY <1>16 DEF Rescue, CandidateIsActive, Goto, Discard
<1>17. CASE Remove
  <2>1. CASE Goto("remove") /\ UNCHANGED nginxVars
    BY <1>17, <2>1 DEF Remove, RemoveFile, Goto
  <2>2. CASE Exit
    BY <1>17, <2>2 DEF Remove, RemoveFile, Exit, Finish, NginxGone
  <2>3. CASE Finish("idle") /\ UNCHANGED nginxVars
    BY <1>17, <2>3 DEF Remove, RemoveFile, Finish
  <2> QED
    BY <1>17, <2>1, <2>2, <2>3 DEF Remove, RemoveFile, Raise
<1>18. CASE MarkApplied
  BY <1>18 DEF MarkApplied, Goto
<1>19. CASE Cleanup
  <2>1. UNCHANGED <<dataVars, progVars>>
    BY <1>19 DEF Cleanup
  <2>2. CASE Exit
    BY <2>1, <2>2 DEF Exit, Finish, NginxGone
  <2>3. CASE Finish("idle") /\ UNCHANGED nginxVars
    BY <1>19, <2>1, <2>3 DEF Cleanup, Finish
  <2>4. CASE pc' = "purge" /\ UNCHANGED <<job, old, left, stable, outcome, nginxVars>>
    BY <1>19, <2>1, <2>4 DEF Cleanup
  <2> QED
    BY <1>19, <2>2, <2>3, <2>4 DEF Cleanup, Raise
<1>20. CASE Purge
  BY <1>20 DEF Purge, RemoveFile, Goto
<1>21. CASE NginxMissed
  BY <1>21 DEF NginxMissed, Exit, Finish, NginxGone
<1>22. CASE Edit
  BY <1>22 DEF Edit, Restorable
<1>23. CASE Test
  BY <1>23 DEF Test, Prepare
<1>24. CASE Apply
  BY <1>24 DEF Apply, Prepare
<1>25. CASE Shutdown
  BY <1>25 DEF Shutdown, Exit, Finish, NginxGone
<1>26. CASE ReadConf
  BY <1>26 DEF ReadConf
<1>27. CASE StartWorkers
  BY <1>27 DEF StartWorkers
<1>28. CASE HandoverEnds
  BY <1>28 DEF HandoverEnds
<1>29. CASE PrepareFails
  BY <1>29 DEF PrepareFails, Fault, Finish
<1>30. CASE ActivateFails
  BY <1>30 DEF ActivateFails, Fault, Goto, Finish
<1>31. CASE SpawnFails
  BY <1>31 DEF SpawnFails, Fault, Exit, Finish, NginxGone
<1>32. CASE RollbackFails
  BY <1>32 DEF RollbackFails, Fault, Finish
<1>33. CASE MarkFails
  <2>1. CASE Exit
    BY <1>33, <2>1 DEF MarkFails, Fault, Exit, Finish, NginxGone
  <2>2. CASE Finish("idle") /\ UNCHANGED nginxVars
    BY <1>33, <2>2 DEF MarkFails, Fault, Finish
  <2> QED
    BY <1>33, <2>1, <2>2 DEF MarkFails, Raise
<1>34. CASE ReloadFails
  BY <1>34 DEF ReloadFails, Fault
<1>35. CASE NginxDies
  BY <1>35 DEF NginxDies, Fault, NginxGone
<1>36. CASE Crash
  <2>1. UNCHANGED <<draft, treeVars, version, histVars>> /\ active' \in {active,
    disk} /\ disk' = active'
    BY <1>36 DEF Crash
  <2>2. Finish("down") /\ NginxGone
    BY <1>36 DEF Crash, Exit
  <2>3. active' \in {active, disk} /\ disk' \in {active,
    disk} /\ config' = config /\ approved' = approved
        /\ last' = last
    BY <2>1
  <2>4. \A g \in {active', disk'} \ {NoGen} : config'[g] \in approved' /\ g <= last'
    BY <2>3
  <2>5. /\ pc' = "down" /\ job' = "none"
        /\ loading' = NoGen /\ serving' = NoGen /\ retiring' = NoGen
    BY <2>2 DEF Finish, NginxGone
  <2> QED
    BY <2>3, <2>4, <2>5
<1>37. CASE UNCHANGED vars
  BY <1>37
<1> QED
  BY <1>1, <1>2, <1>3, <1>4, <1>5, <1>6, <1>7, <1>8, <1>9, <1>10, <1>11, <1>12, <1>13, <1>14,
    <1>15, <1>16, <1>17, <1>18, <1>19, <1>20, <1>21, <1>22, <1>23, <1>24, <1>25, <1>26,
    <1>27, <1>28, <1>29, <1>30, <1>31, <1>32, <1>33, <1>34, <1>35, <1>36, <1>37 DEF Next,
    Progress, Requests, Nginx, Faulty

\* ... and that no worker runs.
LEMMA PrepareNginx ==
  ASSUME TypeOK, ControlInv, ApprovedInv, NginxInv,
         pc \in {"idle", "start", "init"},
         NEW j \in Job \ {"none"}, NEW c, Prepare(j, c),
         j \in {"init", "start"} => pc \in {"start", "init"}
  PROVE  NginxInv'
<1>1. last + 1 \notin {loading, serving, retiring}
  BY DEF ApprovedInv, TypeOK, DataTypeOK
<1>2. /\ pc' = "prepare" /\ job' = j /\ cand' = last + 1 /\ stable' = stable
      /\ UNCHANGED nginxVars
  BY DEF Prepare
<1>3. stable = 0 /\ (j \in {"init", "start"} => ~alive)
  BY DEF NginxInv
<1> QED
  BY <1>1, <1>2, <1>3 DEF NginxInv, ConfirmedIsSettled, alive, nginxVars

\* What nginx has yet to take up, and how far a handover is when probes match.
LEMMA NginxStep ==
  ASSUME TypeOK, ControlInv, CandInv, LinkInv, ActiveIsComplete, ApprovedInv, NginxInv, [Next]_vars
  PROVE  NginxInv'
<1> USE BoundAssumption, TimingAssumption
    DEF TypeOK, DataTypeOK, OpTypeOK, NginxTypeOK, ProgTypeOK, ControlInv, LinkInv, NginxInv,
      ConfirmedIsSettled, TakesUp, CandInv, ApprovedInv,
        alive, Gen, NoGen, vars, dataVars, treeVars, nginxVars, opVars, histVars, progVars
<1>1. CASE Boot
  BY <1>1 DEF Boot, Goto
<1>2. CASE InitActive
  BY <1>2, PrepareNginx DEF InitActive, Job
<1>3. CASE InitDraft
  BY <1>3 DEF InitDraft, Finish
<1>4. CASE StartCurrent
  BY <1>4 DEF StartCurrent
<1>5. CASE StartStale
  BY <1>5, PrepareNginx DEF StartStale, Job
<1>6. CASE Spawn
  BY <1>6 DEF Spawn, alive
<1>7. CASE WriteFile
  BY <1>7 DEF WriteFile, NextFile, Goto
<1>8. CASE CheckPasses
  BY <1>8 DEF CheckPasses, Discard, Goto
<1>9. CASE CheckFails
  BY <1>9 DEF CheckFails, Fault, Finish, Discard
<1>10. CASE Activate
  BY <1>10 DEF Activate, Goto
<1>11. CASE SyncActive
  BY <1>11 DEF SyncActive, Goto, Discard
<1>12. CASE Signal
  BY <1>12 DEF Signal
<1>13. CASE ProbeMatches
  BY SMTT(30), <1>13 DEF ProbeMatches, Waiting, Settled, Countdown, Discard, HandoverStep, Leave
<1>14. CASE ProbeMisses
  BY <1>14 DEF ProbeMisses, Waiting, Fault, Countdown, HandoverStep
<1>15. CASE WaitFails
  <2>1. UNCHANGED <<dataVars, progVars>>
    BY <1>15 DEF WaitFails
  <2>2. CASE Exit
    BY <2>1, <2>2 DEF Exit, Finish, NginxGone
  <2>3. CASE pc = "wait" /\ job = "apply" /\ Leave("rescue") /\ UNCHANGED nginxVars
    BY <2>1, <2>3 DEF Leave
  <2>4. CASE pc = "rb_wait" /\ Discard("unverified") /\ UNCHANGED nginxVars
    BY <2>1, <2>4 DEF Discard
  <2> QED
    BY <1>15, <2>2, <2>3, <2>4 DEF WaitFails
<1>16. CASE Rescue
  BY <1>16 DEF Rescue, CandidateIsActive, Goto, Discard
<1>17. CASE Remove
  <2>1. CASE Goto("remove") /\ UNCHANGED nginxVars
    BY <1>17, <2>1 DEF Remove, RemoveFile, Goto
  <2>2. CASE Exit
    BY <1>17, <2>2 DEF Remove, RemoveFile, Exit, Finish, NginxGone
  <2>3. CASE Finish("idle") /\ UNCHANGED nginxVars
    BY <1>17, <2>3 DEF Remove, RemoveFile, Finish
  <2> QED
    BY <1>17, <2>1, <2>2, <2>3 DEF Remove, RemoveFile, Raise
<1>18. CASE MarkApplied
  BY <1>18 DEF MarkApplied, Goto
<1>19. CASE Cleanup
  <2>1. UNCHANGED <<dataVars, progVars>>
    BY <1>19 DEF Cleanup
  <2>2. CASE Exit
    BY <2>1, <2>2 DEF Exit, Finish, NginxGone
  <2>3. CASE Finish("idle") /\ UNCHANGED nginxVars
    BY <1>19, <2>1, <2>3 DEF Cleanup, Finish
  <2>4. CASE pc' = "purge" /\ UNCHANGED <<job, old, left, stable, outcome, nginxVars>>
    BY <1>19, <2>1, <2>4 DEF Cleanup
  <2> QED
    BY <1>19, <2>2, <2>3, <2>4 DEF Cleanup, Raise
<1>20. CASE Purge
  BY <1>20 DEF Purge, RemoveFile, Goto
<1>21. CASE NginxMissed
  BY <1>21 DEF NginxMissed, Exit, Finish, NginxGone
<1>22. CASE Edit
  BY <1>22 DEF Edit, Restorable
<1>23. CASE Test
  BY <1>23, PrepareNginx DEF Test, Job
<1>24. CASE Apply
  BY <1>24, PrepareNginx DEF Apply, Job
<1>25. CASE Shutdown
  BY <1>25 DEF Shutdown, Exit, Finish, NginxGone
<1>26. CASE ReadConf
  BY <1>26 DEF ReadConf
<1>27. CASE StartWorkers
  BY <1>27 DEF StartWorkers
<1>28. CASE HandoverEnds
  BY <1>28 DEF HandoverEnds
<1>29. CASE PrepareFails
  <2>1. /\ pc' \in {"idle", "down"} /\ job' = "none" /\ stable' = 0 /\ UNCHANGED nginxVars
        /\ pc' = "down" => job \in {"init", "start"}
    BY <1>29 DEF PrepareFails, Finish, Job
  <2>2. pc' = "down" => ~alive
    BY <1>29, <2>1 DEF PrepareFails
  <2> QED
    BY <2>1, <2>2
<1>30. CASE ActivateFails
  BY <1>30 DEF ActivateFails, Fault, Goto, Finish
<1>31. CASE SpawnFails
  BY <1>31 DEF SpawnFails, Fault, Exit, Finish, NginxGone
<1>32. CASE RollbackFails
  BY <1>32 DEF RollbackFails, Fault, Finish
<1>33. CASE MarkFails
  <2>1. CASE Exit
    BY <1>33, <2>1 DEF MarkFails, Fault, Exit, Finish, NginxGone
  <2>2. CASE Finish("idle") /\ UNCHANGED nginxVars
    BY <1>33, <2>2 DEF MarkFails, Fault, Finish
  <2> QED
    BY <1>33, <2>1, <2>2 DEF MarkFails, Raise
<1>34. CASE ReloadFails
  <2>1. /\ alive /\ loading # NoGen /\ serving # NoGen /\ loading' = NoGen
        /\ UNCHANGED <<master, hups, serving, retiring, overlap, dataVars, opVars>>
    BY <1>34 DEF ReloadFails
  <2>2. ConfirmedIsSettled'
    BY <2>1
  <2>3. pc \in {"sync", "signal", "wait"} => TakesUp(active)'
    BY <2>1
  <2>4. /\ pc' = pc /\ job' = job /\ cand' = cand /\ stable' = stable /\ active' = active
        /\ master' = master /\ hups' = hups /\ serving' = serving /\ retiring' = retiring
        /\ overlap' = overlap
    BY <2>1
  <2>5. pc = "wait" /\ job = "start" => active = serving
    BY <2>1
  <2> QED
    BY <2>1, <2>2, <2>3, <2>4, <2>5
<1>35. CASE NginxDies
  BY <1>35 DEF NginxDies, Fault, NginxGone
<1>36. CASE Crash
  BY <1>36 DEF Crash, Fault, Exit, Finish, NginxGone
<1>37. CASE UNCHANGED vars
  BY ZenonT(40), <1>37
<1> QED
  BY <1>1, <1>2, <1>3, <1>4, <1>5, <1>6, <1>7, <1>8, <1>9, <1>10, <1>11, <1>12, <1>13, <1>14,
    <1>15, <1>16, <1>17, <1>18, <1>19, <1>20, <1>21, <1>22, <1>23, <1>24, <1>25, <1>26,
    <1>27, <1>28, <1>29, <1>30, <1>31, <1>32, <1>33, <1>34, <1>35, <1>36, <1>37 DEF Next,
    Progress, Requests, Nginx, Faulty

\* The revisions that the program makes by itself.
LEMMA SettingsStep ==
  ASSUME TypeOK, ControlInv, LinkInv, ActiveIsComplete, ApprovedInv, SettingsInv, [Next]_vars
  PROVE  SettingsInv'
<1> USE BoundAssumption
    DEF TypeOK, DataTypeOK, OpTypeOK, NginxTypeOK, ProgTypeOK, ControlInv, LinkInv,
      SettingsInv, ApprovedInv,
        alive, Gen, NoGen, vars, dataVars, treeVars, nginxVars, opVars, histVars, progVars
<1>1. CASE Boot
  BY <1>1 DEF Boot, Goto
<1>2. CASE InitActive
  BY <1>2 DEF InitActive, Prepare
<1>3. CASE InitDraft
  BY <1>3 DEF InitDraft, Finish
<1>4. CASE StartCurrent
  BY <1>4 DEF StartCurrent
<1>5. CASE StartStale
  BY <1>5 DEF StartStale, Prepare, ActiveSettings
<1>6. CASE Spawn
  BY <1>6 DEF Spawn, alive
<1>7. CASE WriteFile
  BY <1>7 DEF WriteFile, NextFile, Goto
<1>8. CASE CheckPasses
  BY <1>8 DEF CheckPasses, Discard, Goto
<1>9. CASE CheckFails
  BY <1>9 DEF CheckFails, Fault, Finish, Discard
<1>10. CASE Activate
  BY <1>10 DEF Activate, Goto
<1>11. CASE SyncActive
  BY <1>11 DEF SyncActive, Goto, Discard
<1>12. CASE Signal
  BY <1>12 DEF Signal
<1>13. CASE ProbeMatches
  BY <1>13 DEF ProbeMatches, Waiting, Settled, Countdown, Discard, HandoverStep, Leave
<1>14. CASE ProbeMisses
  BY <1>14 DEF ProbeMisses, Waiting, Fault, Countdown, HandoverStep
<1>15. CASE WaitFails
  <2>1. UNCHANGED <<dataVars, progVars>>
    BY <1>15 DEF WaitFails
  <2>2. CASE Exit
    BY <2>1, <2>2 DEF Exit, Finish, NginxGone
  <2>3. CASE pc = "wait" /\ job = "apply" /\ Leave("rescue") /\ UNCHANGED nginxVars
    BY <2>1, <2>3 DEF Leave
  <2>4. CASE pc = "rb_wait" /\ Discard("unverified") /\ UNCHANGED nginxVars
    BY <2>1, <2>4 DEF Discard
  <2> QED
    BY <1>15, <2>2, <2>3, <2>4 DEF WaitFails
<1>16. CASE Rescue
  BY <1>16 DEF Rescue, CandidateIsActive, Goto, Discard
<1>17. CASE Remove
  <2>1. CASE Goto("remove") /\ UNCHANGED nginxVars
    BY <1>17, <2>1 DEF Remove, RemoveFile, Goto
  <2>2. CASE Exit
    BY <1>17, <2>2 DEF Remove, RemoveFile, Exit, Finish, NginxGone
  <2>3. CASE Finish("idle") /\ UNCHANGED nginxVars
    BY <1>17, <2>3 DEF Remove, RemoveFile, Finish
  <2> QED
    BY <1>17, <2>1, <2>2, <2>3 DEF Remove, RemoveFile, Raise
<1>18. CASE MarkApplied
  BY <1>18 DEF MarkApplied, Goto
<1>19. CASE Cleanup
  <2>1. UNCHANGED <<dataVars, progVars>>
    BY <1>19 DEF Cleanup
  <2>2. CASE Exit
    BY <2>1, <2>2 DEF Exit, Finish, NginxGone
  <2>3. CASE Finish("idle") /\ UNCHANGED nginxVars
    BY <1>19, <2>1, <2>3 DEF Cleanup, Finish
  <2>4. CASE pc' = "purge" /\ UNCHANGED <<job, old, left, stable, outcome, nginxVars>>
    BY <1>19, <2>1, <2>4 DEF Cleanup
  <2> QED
    BY <1>19, <2>2, <2>3, <2>4 DEF Cleanup, Raise
<1>20. CASE Purge
  BY <1>20 DEF Purge, RemoveFile, Goto
<1>21. CASE NginxMissed
  BY <1>21 DEF NginxMissed, Exit, Finish, NginxGone
<1>22. CASE Edit
  BY <1>22 DEF Edit, Restorable
<1>23. CASE Test
  BY <1>23 DEF Test, Prepare
<1>24. CASE Apply
  BY <1>24 DEF Apply, Prepare
<1>25. CASE Shutdown
  BY <1>25 DEF Shutdown, Exit, Finish, NginxGone
<1>26. CASE ReadConf
  BY <1>26 DEF ReadConf
<1>27. CASE StartWorkers
  BY <1>27 DEF StartWorkers
<1>28. CASE HandoverEnds
  BY <1>28 DEF HandoverEnds
<1>29. CASE PrepareFails
  BY <1>29 DEF PrepareFails, Fault, Finish
<1>30. CASE ActivateFails
  BY <1>30 DEF ActivateFails, Fault, Goto, Finish
<1>31. CASE SpawnFails
  BY <1>31 DEF SpawnFails, Fault, Exit, Finish, NginxGone
<1>32. CASE RollbackFails
  BY <1>32 DEF RollbackFails, Fault, Finish
<1>33. CASE MarkFails
  <2>1. CASE Exit
    BY <1>33, <2>1 DEF MarkFails, Fault, Exit, Finish, NginxGone
  <2>2. CASE Finish("idle") /\ UNCHANGED nginxVars
    BY <1>33, <2>2 DEF MarkFails, Fault, Finish
  <2> QED
    BY <1>33, <2>1, <2>2 DEF MarkFails, Raise
<1>34. CASE ReloadFails
  BY <1>34 DEF ReloadFails, Fault
<1>35. CASE NginxDies
  BY <1>35 DEF NginxDies, Fault, NginxGone
<1>36. CASE Crash
  BY <1>36 DEF Crash, Fault, Exit, Finish, NginxGone
<1>37. CASE UNCHANGED vars
  BY <1>37
<1> QED
  BY <1>1, <1>2, <1>3, <1>4, <1>5, <1>6, <1>7, <1>8, <1>9, <1>10, <1>11, <1>12, <1>13, <1>14,
    <1>15, <1>16, <1>17, <1>18, <1>19, <1>20, <1>21, <1>22, <1>23, <1>24, <1>25, <1>26,
    <1>27, <1>28, <1>29, <1>30, <1>31, <1>32, <1>33, <1>34, <1>35, <1>36, <1>37 DEF Next,
    Progress, Requests, Nginx, Faulty

----------------------------------------------------------------------------
(* The theorems *)

LEMMA InitInv == Init => IndInv
<1> USE ConfigAssumption, BoundAssumption
<1> SUFFICES ASSUME Init PROVE IndInv
  OBVIOUS
<1>1. TypeOK
  BY DEF Init, TypeOK, DataTypeOK, NginxTypeOK, OpTypeOK, ProgTypeOK, NoGen, PC, Job, Outcome
<1>2. ControlInv /\ CandInv /\ LinkInv
  BY DEF Init, ControlInv, CandInv, LinkInv, Gen, NoGen
<1>3. ActiveIsComplete /\ ApprovedInv
  BY DEF Init, ActiveIsComplete, ApprovedInv, OnlyAppliedServes, Gen, NoGen
<1>4. NginxInv /\ SettingsInv
  BY DEF Init, NginxInv, SettingsInv, ConfirmedIsSettled, alive, NoGen
<1> QED
  BY <1>1, <1>2, <1>3, <1>4 DEF IndInv

LEMMA StepInv == IndInv /\ [Next]_vars => IndInv'
  BY TypeStep, DiskStep, ApprovedStep, NginxStep, SettingsStep DEF IndInv

\* IndInv holds in every reachable state.
THEOREM Inductive == Spec => []IndInv
  BY InitInv, StepInv, PTL DEF Spec

\* Every variable of the store, of nginx and of the operation keeps its type.
THEOREM TypeCorrect == Spec => []TypeOK
<1>1. IndInv => TypeOK
  BY DEF IndInv
<1> QED
  BY <1>1, Inductive, PTL

\* The symlink, and what a crash makes of it, always names a complete revision that
\* `nginx -t` has accepted.
THEOREM ActiveAlwaysComplete == Spec => []ActiveIsComplete
<1>1. IndInv => ActiveIsComplete
  BY DEF IndInv
<1> QED
  BY <1>1, Inductive, PTL

\* nginx never runs settings that nobody applied.
THEOREM NothingUnappliedServes == Spec => []OnlyAppliedServes
<1>1. IndInv => OnlyAppliedServes
  BY DEF IndInv, ApprovedInv
<1> QED
  BY <1>1, Inductive, PTL

\* The confirmation window outlasts the handover, for every pair of lengths that
\* TimingAssumption allows: a confirmed revision is the only one accepting.
THEOREM ConfirmationIsSound == Spec => []ConfirmedIsSettled
<1>1. IndInv => ConfirmedIsSettled
  BY DEF IndInv, NginxInv
<1> QED
  BY <1>1, Inductive, PTL

\* Every step of the store is a step of ConfigPromotion, or none.
LEMMA PromiseStep ==
  ASSUME TypeOK, ControlInv, LinkInv, ApprovedInv, SettingsInv, [Next]_vars
  PROVE  [Promise!Next]_(Promise!vars)
<1> USE BoundAssumption, ConfigAssumption
    DEF TypeOK, DataTypeOK, OpTypeOK, ControlInv, LinkInv, SettingsInv,
        alive, Gen, NoGen, vars, dataVars, treeVars, opVars, histVars, progVars,
          promisedDraft, promisedPending, promisedCommitted,
        Open, Promise!Next, Promise!vars, Promise!Edit, Promise!Begin, Promise!Commit, Promise!Abort
<1>1. CASE Boot
  BY <1>1 DEF Boot, Goto
<1>2. CASE InitActive
  BY <1>2 DEF InitActive, Prepare
<1>3. CASE InitDraft
  BY <1>3 DEF InitDraft, Finish
<1>4. CASE StartCurrent
  BY <1>4 DEF StartCurrent
<1>5. CASE StartStale
  BY <1>5 DEF StartStale, Prepare, ActiveSettings
<1>6. CASE Spawn
  BY <1>6 DEF Spawn, alive
<1>7. CASE WriteFile
  BY <1>7 DEF WriteFile, NextFile, Goto
<1>8. CASE CheckPasses
  BY <1>8 DEF CheckPasses, Discard, Goto
<1>9. CASE CheckFails
  BY <1>9 DEF CheckFails, Fault, Finish, Discard
<1>10. CASE Activate
  BY SMTT(30), <1>10 DEF Activate, Goto
<1>11. CASE SyncActive
  BY SMTT(30), <1>11 DEF SyncActive, Goto, Discard
<1>12. CASE Signal
  BY <1>12 DEF Signal
<1>13. CASE ProbeMatches
  BY SMTT(30), <1>13 DEF ProbeMatches, Waiting, Settled, Countdown, Discard, HandoverStep, Leave
<1>14. CASE ProbeMisses
  BY <1>14 DEF ProbeMisses, Waiting, Fault, Countdown, HandoverStep
<1>15. CASE WaitFails
  <2>1. UNCHANGED <<dataVars, progVars>>
    BY <1>15 DEF WaitFails
  <2>2. CASE Exit
    BY <2>1, <2>2 DEF Exit, Finish, NginxGone
  <2>3. CASE pc = "wait" /\ job = "apply" /\ Leave("rescue") /\ UNCHANGED nginxVars
    BY <2>1, <2>3 DEF Leave
  <2>4. CASE pc = "rb_wait" /\ Discard("unverified") /\ UNCHANGED nginxVars
    BY <2>1, <2>4 DEF Discard
  <2> QED
    BY <1>15, <2>2, <2>3, <2>4 DEF WaitFails
<1>16. CASE Rescue
  BY <1>16 DEF Rescue, CandidateIsActive, Goto, Discard
<1>17. CASE Remove
  <2>1. CASE Goto("remove") /\ UNCHANGED nginxVars
    BY <1>17, <2>1 DEF Remove, RemoveFile, Goto
  <2>2. CASE Exit
    BY <1>17, <2>2 DEF Remove, RemoveFile, Exit, Finish, NginxGone
  <2>3. CASE Finish("idle") /\ UNCHANGED nginxVars
    BY <1>17, <2>3 DEF Remove, RemoveFile, Finish
  <2> QED
    BY <1>17, <2>1, <2>2, <2>3 DEF Remove, RemoveFile, Raise
<1>18. CASE MarkApplied
  BY <1>18 DEF MarkApplied, Goto
<1>19. CASE Cleanup
  <2>1. UNCHANGED <<dataVars, progVars>>
    BY <1>19 DEF Cleanup
  <2>2. CASE Exit
    BY <2>1, <2>2 DEF Exit, Finish, NginxGone
  <2>3. CASE Finish("idle") /\ UNCHANGED nginxVars
    BY <1>19, <2>1, <2>3 DEF Cleanup, Finish
  <2>4. CASE pc' = "purge" /\ UNCHANGED <<job, old, left, stable, outcome, nginxVars>>
    BY <1>19, <2>1, <2>4 DEF Cleanup
  <2> QED
    BY <1>19, <2>2, <2>3, <2>4 DEF Cleanup, Raise
<1>20. CASE Purge
  BY <1>20 DEF Purge, RemoveFile, Goto
<1>21. CASE NginxMissed
  BY <1>21 DEF NginxMissed, Exit, Finish, NginxGone
<1>22. CASE Edit
  BY <1>22 DEF Edit, Restorable
<1>23. CASE Test
  <2>1. pc = "idle" /\ job = "none" /\ active \in Gen /\ active <= last /\ draft \in Config
    BY <1>23 DEF Test, ApprovedInv
  <2>2. /\ last + 1 \in Gen /\ pc' = "prepare" /\ job' = "test" /\ cand' = last + 1
        /\ old' = active /\ active' = active /\ draft' = draft
    BY <1>23, <2>1 DEF Test, Prepare
  <2>3. config'[last + 1] = draft /\ config'[active] = config[active]
    BY <1>23, <2>1, <2>2 DEF Test, Prepare
  <2> QED
    BY <2>1, <2>2, <2>3
<1>24. CASE Apply
  <2>1. pc = "idle" /\ job = "none" /\ active \in Gen /\ active <= last /\ draft \in Config
    BY <1>24 DEF Apply, ApprovedInv
  <2>2. /\ last + 1 \in Gen /\ pc' = "prepare" /\ job' = "apply" /\ cand' = last + 1
        /\ old' = active /\ active' = active /\ draft' = draft
    BY <1>24, <2>1 DEF Apply, Prepare
  <2>3. config'[last + 1] = draft /\ config'[active] = config[active]
    BY <1>24, <2>1, <2>2 DEF Apply, Prepare
  <2> QED
    BY <2>1, <2>2, <2>3
<1>25. CASE Shutdown
  BY <1>25 DEF Shutdown, Exit, Finish, NginxGone
<1>26. CASE ReadConf
  BY <1>26 DEF ReadConf
<1>27. CASE StartWorkers
  BY <1>27 DEF StartWorkers
<1>28. CASE HandoverEnds
  BY <1>28 DEF HandoverEnds
<1>29. CASE PrepareFails
  BY <1>29 DEF PrepareFails, Fault, Finish
<1>30. CASE ActivateFails
  BY <1>30 DEF ActivateFails, Fault, Goto, Finish
<1>31. CASE SpawnFails
  BY <1>31 DEF SpawnFails, Fault, Exit, Finish, NginxGone
<1>32. CASE RollbackFails
  BY <1>32 DEF RollbackFails, Fault, Finish
<1>33. CASE MarkFails
  <2>1. CASE Exit
    BY <1>33, <2>1 DEF MarkFails, Fault, Exit, Finish, NginxGone
  <2>2. CASE Finish("idle") /\ UNCHANGED nginxVars
    BY <1>33, <2>2 DEF MarkFails, Fault, Finish
  <2> QED
    BY <1>33, <2>1, <2>2 DEF MarkFails, Raise
<1>34. CASE ReloadFails
  BY <1>34 DEF ReloadFails, Fault
<1>35. CASE NginxDies
  BY <1>35 DEF NginxDies, Fault, NginxGone
<1>36. CASE Crash
  BY SMTT(30), <1>36 DEF Crash, Fault, Exit, Finish, NginxGone
<1>37. CASE UNCHANGED vars
  BY <1>37
<1> QED
  BY <1>1, <1>2, <1>3, <1>4, <1>5, <1>6, <1>7, <1>8, <1>9, <1>10, <1>11, <1>12, <1>13, <1>14,
    <1>15, <1>16, <1>17, <1>18, <1>19, <1>20, <1>21, <1>22, <1>23, <1>24, <1>25, <1>26,
    <1>27, <1>28, <1>29, <1>30, <1>31, <1>32, <1>33, <1>34, <1>35, <1>36, <1>37 DEF Next,
    Progress, Requests, Nginx, Faulty

\* The store implements ConfigPromotion, whatever fails and wherever it crashes.
THEOREM ImplementsPromise == Spec => KeepsPromise
<1>1. Init => Promise!Init
  BY DEF Init, Promise!Init, promisedDraft, promisedPending, promisedCommitted, Open, NoGen
<1>2. IndInv /\ [Next]_vars => [Promise!Next]_(Promise!vars)
  BY PromiseStep DEF IndInv
<1> QED
  BY <1>1, <1>2, Inductive, PTL DEF Spec, KeepsPromise, Promise!Spec

----------------------------------------------------------------------------
(* What is kept: the invariant of the history and of its leftovers *)

\* Applied revisions of the history, and those among all the applied that it should have.
Kept  == {g \in applied : "meta" \in files[g]}
Final == Newest(applied, MaxHistory)

\* The revision that the operation under way will mark, remove or roll back.
InHand ==
  IF pc \in {"prepare", "check", "activate", "sync", "signal", "rescue", "rb_activate",
             "rb_sync", "rb_signal", "rb_wait", "remove", "purge"} THEN {cand}
  ELSE IF \/ pc \in {"check_active", "wait", "mark"}
          \/ pc \in {"init", "start"} /\ active # NoGen /\ made[active] = version
       THEN {active}
  ELSE {}

\* Directories that are neither in the history for good nor in anybody's hands.
Strays == {g \in Gen : files[g] # {}} \ (Kept \cup InHand)

\* The wait of a start that will succeed if nothing else fails.
OnTime ==
  /\ alive /\ hups = 0 /\ retiring = NoGen /\ stable < StableProbes
  /\ \/ serving = NoGen /\ loading = active /\ left >= LastChance
     \/ serving = active /\ loading = NoGen /\ left + stable >= StableProbes

Starting == pc = "wait" /\ job = "start"

StrayInv ==
  /\ Cardinality(Strays) <= faults
  /\ Starting => OnTime \/ Cardinality(Strays) < faults

\* The default of an empty volume need not be rendered again by the start that follows.
MadeInv == job = "init" /\ pc \in {"prepare", "check", "activate", "sync"} => made[cand] = version

\* Steps at which a candidate is newer than all that were applied.
Untried ==
  \/ pc \in {"prepare", "check", "activate", "sync", "signal", "rescue", "rb_activate",
             "rb_sync", "rb_signal", "rb_wait", "remove"}
  \/ pc = "wait" /\ job = "apply"

\* The active revision is at least as new as all that were applied, and so is what an
\* apply goes back to.
OrderInv ==
  /\ \A g \in applied : g <= active /\ g <= disk
  /\ job = "apply" /\ pc \notin {"cleanup", "purge"} => \A g \in applied : g <= old
  /\ Untried => \A g \in applied : g < cand
  /\ pc \in {"cleanup", "purge"} => active \in applied

Tidying == pc \in {"cleanup", "purge"}

\* Whoever asks something of the store has seen a history that can be read.
Served == pc = "idle" \/ job \in {"test", "apply"}

HistoryInv ==
  /\ \A g \in Final : Complete(g)
  /\ pc = "purge" => cand \in applied \ Final
  /\ Served => \A g \in Kept : "config" \in files[g] \/ (pc = "purge" /\ g = cand)
  /\ Served /\ ~Tidying => Cardinality(Kept) <= MaxHistory

KeepInv == StrayInv /\ MadeInv /\ OrderInv /\ HistoryInv

\* Which step may leave what strays, and which takes a fault for it.
LEMMA StraysStep ==
  ASSUME TypeOK, ControlInv, LinkInv, ActiveIsComplete, ApprovedInv, SettingsInv, MadeInv,
         [Next]_vars
  PROVE  \/ faults' >= faults /\ Strays' \subseteq Strays
         \/ faults' = faults + 1 /\ pc' # "wait"
              /\ \E x \in Gen : Strays' \subseteq Strays \cup {x}
         \/ faults' = faults /\ WaitFails /\ Starting /\ Strays' \subseteq Strays \cup {active}
<1> USE BoundAssumption, ConfigAssumption
    DEF TypeOK, DataTypeOK, OpTypeOK, ProgTypeOK, ControlInv, LinkInv, MadeInv,
        Strays, Kept, InHand, Starting,
        alive, Gen, NoGen, File, vars, dataVars, treeVars, nginxVars, opVars, histVars, progVars
<1>1. CASE Boot
  BY <1>1 DEF Boot, Goto
<1>2. CASE InitActive
  BY <1>2 DEF InitActive, Prepare
<1>3. CASE InitDraft
  BY <1>3 DEF InitDraft, Finish
<1>4. CASE StartCurrent
  BY <1>4 DEF StartCurrent
<1>5. CASE StartStale
  BY <1>5 DEF StartStale, Prepare, ActiveSettings
<1>6. CASE Spawn
  BY <1>6 DEF Spawn, alive
<1>7. CASE WriteFile
  BY <1>7 DEF WriteFile, NextFile, Goto
<1>8. CASE CheckPasses
  BY <1>8 DEF CheckPasses, Discard, Goto
<1>9. CASE CheckFails
  <2>1. job = "init" => config[cand] \in Good
    BY <1>9 DEF CheckFails, SettingsInv
  <2>2. CASE job = "init" /\ Finish("down")
    BY <1>9, <2>1, <2>2 DEF CheckFails, Fault, Finish
  <2>3. CASE job # "init" /\ Discard("rejected")
    <3>1. pc = "check" /\ pc' = "remove" /\ cand' = cand /\ UNCHANGED dataVars
      BY <1>9, <2>3 DEF CheckFails, Discard
    <3>2. faults' \in {faults, faults + 1}
      BY <1>9 DEF CheckFails, Fault
    <3> QED
      BY <3>1, <3>2
  <2> QED
    BY <1>9, <2>2, <2>3 DEF CheckFails
<1>10. CASE Activate
  BY <1>10 DEF Activate, Goto
<1>11. CASE SyncActive
  BY <1>11 DEF SyncActive, Goto, Discard
<1>12. CASE Signal
  BY <1>12 DEF Signal
<1>13. CASE ProbeMatches
  BY SMTT(30), <1>13 DEF ProbeMatches, Waiting, Settled, Countdown, Discard, HandoverStep, Leave
<1>14. CASE ProbeMisses
  BY <1>14 DEF ProbeMisses, Waiting, Fault, Countdown, HandoverStep
<1>15. CASE WaitFails
  <2>1. UNCHANGED <<dataVars, progVars>>
    BY <1>15 DEF WaitFails
  <2>2. CASE Starting /\ Exit
    <3>1. InHand = {active}
      BY <2>2
    <3>2. Strays' \subseteq Strays \cup InHand
      BY <2>1
    <3> QED
      BY <1>15, <2>1, <2>2, <3>1, <3>2
  <2>3. CASE pc = "wait" /\ job = "apply" /\ Leave("rescue") /\ UNCHANGED nginxVars
    BY <2>1, <2>3 DEF Leave
  <2>4. CASE pc = "rb_wait" /\ Discard("unverified") /\ UNCHANGED nginxVars
    BY <2>1, <2>4 DEF Discard
  <2> QED
    BY <1>15, <2>2, <2>3, <2>4 DEF WaitFails
<1>16. CASE Rescue
  BY <1>16 DEF Rescue, CandidateIsActive, Goto, Discard
<1>17. CASE Remove
  <2>1. cand \in Gen /\ InHand = {cand}
    BY <1>17 DEF Remove
  <2>2. \A g \in Gen \ {cand} : files'[g] = files[g]
    BY <1>17 DEF Remove, RemoveFile
  <2>3. faults' = faults /\ applied' = applied
    BY <1>17 DEF Remove
  <2>4. cand \notin Strays'
    <3>1. CASE pc' = "remove" /\ cand' = cand
      BY <3>1
    <3>2. CASE files'[cand] = {}
      BY <3>2
    <3> QED
      BY <1>17, <3>1, <3>2 DEF Remove, Goto
  <2>5. Strays' \subseteq Strays
    <3> SUFFICES ASSUME NEW g \in Gen, g \in Strays'  PROVE g \in Strays
      OBVIOUS
    <3>1. g # cand /\ files'[g] = files[g]
      BY <2>2, <2>4
    <3> QED
      BY <2>1, <2>3, <3>1
  <2> QED
    BY <2>3, <2>5
<1>18. CASE MarkApplied
  <2>1. "meta" \in files[active]
    BY <1>18 DEF MarkApplied, ActiveIsComplete, Complete
  <2> QED
    BY <1>18, <2>1 DEF MarkApplied, Goto
<1>19. CASE Cleanup
  <2>1. UNCHANGED <<dataVars, progVars>>
    BY <1>19 DEF Cleanup
  <2>2. CASE Exit
    BY <1>19, <2>1, <2>2 DEF Cleanup, Exit, Finish, NginxGone
  <2>3. CASE Finish("idle") /\ UNCHANGED nginxVars
    BY <1>19, <2>1, <2>3 DEF Cleanup, Finish
  <2>4. CASE pc' = "purge" /\ UNCHANGED <<job, old, left, stable, outcome, nginxVars>>
    BY <1>19, <2>1, <2>4 DEF Cleanup
  <2> QED
    BY <1>19, <2>2, <2>3, <2>4 DEF Cleanup, Raise
<1>20. CASE Purge
  BY <1>20 DEF Purge, RemoveFile, Goto
<1>21. CASE NginxMissed
  BY <1>21 DEF NginxMissed, Exit, Finish, NginxGone
<1>22. CASE Edit
  BY <1>22 DEF Edit, Restorable
<1>23. CASE Test
  BY <1>23 DEF Test, Prepare
<1>24. CASE Apply
  BY <1>24 DEF Apply, Prepare
<1>25. CASE Shutdown
  BY <1>25 DEF Shutdown, Exit, Finish, NginxGone
<1>26. CASE ReadConf
  BY <1>26 DEF ReadConf
<1>27. CASE StartWorkers
  BY <1>27 DEF StartWorkers
<1>28. CASE HandoverEnds
  BY <1>28 DEF HandoverEnds
<1>29. CASE PrepareFails
  BY <1>29 DEF PrepareFails, Fault, Finish
<1>30. CASE ActivateFails
  BY <1>30 DEF ActivateFails, Fault, Goto, Finish
<1>31. CASE SpawnFails
  BY <1>31 DEF SpawnFails, Fault, Exit, Finish, NginxGone
<1>32. CASE RollbackFails
  BY <1>32 DEF RollbackFails, Fault, Finish
<1>33. CASE MarkFails
  <2>1. CASE Exit
    BY <1>33, <2>1 DEF MarkFails, Fault, Exit, Finish, NginxGone
  <2>2. CASE Finish("idle") /\ UNCHANGED nginxVars /\ job # "start"
    BY <1>33, <2>2 DEF MarkFails, Fault, Finish
  <2> QED
    BY <1>33, <2>1, <2>2 DEF MarkFails, Raise
<1>34. CASE ReloadFails
  BY <1>34 DEF ReloadFails, Fault
<1>35. CASE NginxDies
  BY <1>35 DEF NginxDies, Fault, NginxGone
<1>36. CASE Crash
  <2>1. faults' = faults + 1 /\ pc' = "down" /\ UNCHANGED <<files, applied>>
    BY <1>36 DEF Crash, Fault, Exit, Finish
  <2>2. Strays' \subseteq Strays \cup InHand
    BY <2>1
  <2>3. \E x \in Gen : Strays \cup InHand \subseteq Strays \cup {x}
    <3>1. CASE cand \in Gen /\ InHand = {cand}
      BY <3>1
    <3>2. CASE active \in Gen /\ InHand = {active}
      BY <3>2
    <3>3. CASE InHand = {}
      <4>1. 1 \in Gen
        BY <1>36 DEF Crash, Fault
      <4> QED
        BY <3>3, <4>1
    <3> QED
      BY <3>1, <3>2, <3>3
  <2> QED
    BY <2>1, <2>2, <2>3
<1>37. CASE UNCHANGED vars
  BY <1>37
<1> QED
  BY <1>1, <1>2, <1>3, <1>4, <1>5, <1>6, <1>7, <1>8, <1>9, <1>10, <1>11, <1>12, <1>13, <1>14,
    <1>15, <1>16, <1>17, <1>18, <1>19, <1>20, <1>21, <1>22, <1>23, <1>24, <1>25, <1>26,
    <1>27, <1>28, <1>29, <1>30, <1>31, <1>32, <1>33, <1>34, <1>35, <1>36, <1>37 DEF Next,
    Progress, Requests, Nginx, Faulty

\* What an empty volume is given is made by the program that runs.
LEMMA MadeStep ==
  ASSUME TypeOK, ControlInv, MadeInv, [Next]_vars
  PROVE  MadeInv'
<1> USE BoundAssumption
    DEF TypeOK, DataTypeOK, OpTypeOK, ProgTypeOK, ControlInv, MadeInv,
        alive, Gen, NoGen, vars, dataVars, treeVars, nginxVars, opVars, histVars, progVars
<1>1. CASE Boot
  BY <1>1 DEF Boot, Goto
<1>2. CASE InitActive
  BY <1>2 DEF InitActive, Prepare
<1>3. CASE InitDraft
  BY <1>3 DEF InitDraft, Finish
<1>4. CASE StartCurrent
  BY <1>4 DEF StartCurrent
<1>5. CASE StartStale
  BY <1>5 DEF StartStale, Prepare, ActiveSettings
<1>6. CASE Spawn
  BY <1>6 DEF Spawn, alive
<1>7. CASE WriteFile
  BY <1>7 DEF WriteFile, NextFile, Goto
<1>8. CASE CheckPasses
  BY <1>8 DEF CheckPasses, Discard, Goto
<1>9. CASE CheckFails
  BY <1>9 DEF CheckFails, Fault, Finish, Discard
<1>10. CASE Activate
  BY <1>10 DEF Activate, Goto
<1>11. CASE SyncActive
  BY <1>11 DEF SyncActive, Goto, Discard
<1>12. CASE Signal
  BY <1>12 DEF Signal
<1>13. CASE ProbeMatches
  BY <1>13 DEF ProbeMatches, Waiting, Settled, Countdown, Discard, HandoverStep, Leave
<1>14. CASE ProbeMisses
  BY <1>14 DEF ProbeMisses, Waiting, Fault, Countdown, HandoverStep
<1>15. CASE WaitFails
  <2>1. UNCHANGED <<dataVars, progVars>>
    BY <1>15 DEF WaitFails
  <2>2. CASE Exit
    BY <1>15, <2>1, <2>2 DEF WaitFails, Exit, Finish, NginxGone
  <2>3. CASE pc = "wait" /\ job = "apply" /\ Leave("rescue") /\ UNCHANGED nginxVars
    BY <2>1, <2>3 DEF Leave
  <2>4. CASE pc = "rb_wait" /\ Discard("unverified") /\ UNCHANGED nginxVars
    BY <2>1, <2>4 DEF Discard
  <2> QED
    BY <1>15, <2>2, <2>3, <2>4 DEF WaitFails
<1>16. CASE Rescue
  BY <1>16 DEF Rescue, CandidateIsActive, Goto, Discard
<1>17. CASE Remove
  <2>1. CASE Goto("remove") /\ UNCHANGED nginxVars
    BY <1>17, <2>1 DEF Remove, RemoveFile, Goto
  <2>2. CASE Exit /\ job = "start"
    BY <1>17, <2>2 DEF Remove, RemoveFile, Exit, Finish, NginxGone
  <2>3. CASE Finish("idle") /\ UNCHANGED nginxVars /\ job # "start"
    BY <1>17, <2>3 DEF Remove, RemoveFile, Finish
  <2> QED
    BY <1>17, <2>1, <2>2, <2>3 DEF Remove, RemoveFile, Raise
<1>18. CASE MarkApplied
  BY <1>18 DEF MarkApplied, Goto
<1>19. CASE Cleanup
  <2>1. UNCHANGED <<dataVars, progVars>>
    BY <1>19 DEF Cleanup
  <2>2. CASE Exit
    BY <1>19, <2>1, <2>2 DEF Cleanup, Exit, Finish, NginxGone
  <2>3. CASE Finish("idle") /\ UNCHANGED nginxVars
    BY <1>19, <2>1, <2>3 DEF Cleanup, Finish
  <2>4. CASE pc' = "purge" /\ UNCHANGED <<job, old, left, stable, outcome, nginxVars>>
    BY <1>19, <2>1, <2>4 DEF Cleanup
  <2> QED
    BY <1>19, <2>2, <2>3, <2>4 DEF Cleanup, Raise
<1>20. CASE Purge
  BY <1>20 DEF Purge, RemoveFile, Goto
<1>21. CASE NginxMissed
  BY <1>21 DEF NginxMissed, Exit, Finish, NginxGone
<1>22. CASE Edit
  BY <1>22 DEF Edit, Restorable
<1>23. CASE Test
  BY <1>23 DEF Test, Prepare
<1>24. CASE Apply
  BY <1>24 DEF Apply, Prepare
<1>25. CASE Shutdown
  BY <1>25 DEF Shutdown, Exit, Finish, NginxGone
<1>26. CASE ReadConf
  BY <1>26 DEF ReadConf
<1>27. CASE StartWorkers
  BY <1>27 DEF StartWorkers
<1>28. CASE HandoverEnds
  BY <1>28 DEF HandoverEnds
<1>29. CASE PrepareFails
  BY <1>29 DEF PrepareFails, Fault, Finish
<1>30. CASE ActivateFails
  BY <1>30 DEF ActivateFails, Fault, Goto, Finish
<1>31. CASE SpawnFails
  BY <1>31 DEF SpawnFails, Fault, Exit, Finish, NginxGone
<1>32. CASE RollbackFails
  BY <1>32 DEF RollbackFails, Fault, Finish
<1>33. CASE MarkFails
  <2>1. CASE Exit
    BY <1>33, <2>1 DEF MarkFails, Fault, Exit, Finish, NginxGone
  <2>2. CASE Finish("idle") /\ UNCHANGED nginxVars /\ job # "start"
    BY <1>33, <2>2 DEF MarkFails, Fault, Finish
  <2> QED
    BY <1>33, <2>1, <2>2 DEF MarkFails, Raise
<1>34. CASE ReloadFails
  BY <1>34 DEF ReloadFails, Fault
<1>35. CASE NginxDies
  BY <1>35 DEF NginxDies, Fault, NginxGone
<1>36. CASE Crash
  BY <1>36 DEF Crash, Fault, Exit, Finish, NginxGone
<1>37. CASE UNCHANGED vars
  BY <1>37
<1> QED
  BY <1>1, <1>2, <1>3, <1>4, <1>5, <1>6, <1>7, <1>8, <1>9, <1>10, <1>11, <1>12, <1>13, <1>14,
    <1>15, <1>16, <1>17, <1>18, <1>19, <1>20, <1>21, <1>22, <1>23, <1>24, <1>25, <1>26,
    <1>27, <1>28, <1>29, <1>30, <1>31, <1>32, <1>33, <1>34, <1>35, <1>36, <1>37 DEF Next,
    Progress, Requests, Nginx, Faulty

\* Revisions are applied in the order in which they are made.
LEMMA OrderStep ==
  ASSUME TypeOK, ControlInv, LinkInv, ApprovedInv, OrderInv, [Next]_vars
  PROVE  OrderInv'
<1> USE BoundAssumption
    DEF TypeOK, DataTypeOK, OpTypeOK, ProgTypeOK, ControlInv, LinkInv, OrderInv, Untried,
        alive, Gen, NoGen, vars, dataVars, treeVars, nginxVars, opVars, histVars, progVars
<1>1. CASE Boot
  BY <1>1 DEF Boot, Goto
<1>2. CASE InitActive
  BY <1>2 DEF InitActive, Prepare
<1>3. CASE InitDraft
  BY <1>3 DEF InitDraft, Finish
<1>4. CASE StartCurrent
  BY <1>4 DEF StartCurrent
<1>5. CASE StartStale
  <2>1. active \in Gen /\ active <= last
    BY <1>5 DEF StartStale, ApprovedInv
  <2> QED
    BY <1>5, <2>1 DEF StartStale, Prepare, ActiveSettings
<1>6. CASE Spawn
  BY <1>6 DEF Spawn, alive
<1>7. CASE WriteFile
  BY <1>7 DEF WriteFile, NextFile, Goto
<1>8. CASE CheckPasses
  BY <1>8 DEF CheckPasses, Discard, Goto
<1>9. CASE CheckFails
  BY <1>9 DEF CheckFails, Fault, Finish, Discard
<1>10. CASE Activate
  <2>1. CASE pc = "activate" /\ active' = cand /\ Goto("sync")
    BY <1>10, <2>1 DEF Activate, Goto
  <2>2. CASE pc = "rb_activate" /\ active' = old /\ Goto("rb_sync")
    BY <1>10, <2>2 DEF Activate, Goto
  <2> QED
    BY <1>10, <2>1, <2>2 DEF Activate
<1>11. CASE SyncActive
  BY <1>11 DEF SyncActive, Goto, Discard
<1>12. CASE Signal
  BY <1>12 DEF Signal
<1>13. CASE ProbeMatches
  BY <1>13 DEF ProbeMatches, Waiting, Settled, Countdown, Discard, HandoverStep, Leave
<1>14. CASE ProbeMisses
  BY <1>14 DEF ProbeMisses, Waiting, Fault, Countdown, HandoverStep
<1>15. CASE WaitFails
  <2>1. UNCHANGED <<dataVars, progVars>>
    BY <1>15 DEF WaitFails
  <2>2. CASE Exit
    BY <1>15, <2>1, <2>2 DEF WaitFails, Exit, Finish, NginxGone
  <2>3. CASE pc = "wait" /\ job = "apply" /\ Leave("rescue") /\ UNCHANGED nginxVars
    BY <2>1, <2>3 DEF Leave
  <2>4. CASE pc = "rb_wait" /\ Discard("unverified") /\ UNCHANGED nginxVars
    BY <2>1, <2>4 DEF Discard
  <2> QED
    BY <1>15, <2>2, <2>3, <2>4 DEF WaitFails
<1>16. CASE Rescue
  BY <1>16 DEF Rescue, CandidateIsActive, Goto, Discard
<1>17. CASE Remove
  <2>1. CASE Goto("remove") /\ UNCHANGED nginxVars
    BY <1>17, <2>1 DEF Remove, RemoveFile, Goto
  <2>2. CASE Exit /\ job = "start"
    BY <1>17, <2>2 DEF Remove, RemoveFile, Exit, Finish, NginxGone
  <2>3. CASE Finish("idle") /\ UNCHANGED nginxVars /\ job # "start"
    BY <1>17, <2>3 DEF Remove, RemoveFile, Finish
  <2> QED
    BY <1>17, <2>1, <2>2, <2>3 DEF Remove, RemoveFile, Raise
<1>18. CASE MarkApplied
  BY <1>18 DEF MarkApplied, Goto
<1>19. CASE Cleanup
  <2>1. UNCHANGED <<dataVars, progVars>>
    BY <1>19 DEF Cleanup
  <2>2. CASE Exit
    BY <1>19, <2>1, <2>2 DEF Cleanup, Exit, Finish, NginxGone
  <2>3. CASE Finish("idle") /\ UNCHANGED nginxVars
    BY <1>19, <2>1, <2>3 DEF Cleanup, Finish
  <2>4. CASE pc' = "purge" /\ UNCHANGED <<job, old, left, stable, outcome, nginxVars>>
    BY <1>19, <2>1, <2>4 DEF Cleanup
  <2> QED
    BY <1>19, <2>2, <2>3, <2>4 DEF Cleanup, Raise
<1>20. CASE Purge
  BY <1>20 DEF Purge, RemoveFile, Goto
<1>21. CASE NginxMissed
  BY <1>21 DEF NginxMissed, Exit, Finish, NginxGone
<1>22. CASE Edit
  BY <1>22 DEF Edit, Restorable
<1>23. CASE Test
  <2>1. active \in Gen /\ active <= last
    BY <1>23 DEF Test, ApprovedInv
  <2> QED
    BY <1>23, <2>1 DEF Test, Prepare
<1>24. CASE Apply
  <2>1. active \in Gen /\ active <= last
    BY <1>24 DEF Apply, ApprovedInv
  <2> QED
    BY <1>24, <2>1 DEF Apply, Prepare
<1>25. CASE Shutdown
  BY <1>25 DEF Shutdown, Exit, Finish, NginxGone
<1>26. CASE ReadConf
  BY <1>26 DEF ReadConf
<1>27. CASE StartWorkers
  BY <1>27 DEF StartWorkers
<1>28. CASE HandoverEnds
  BY <1>28 DEF HandoverEnds
<1>29. CASE PrepareFails
  BY <1>29 DEF PrepareFails, Fault, Finish
<1>30. CASE ActivateFails
  <2>1. CASE job = "apply" /\ Goto("rescue") /\ UNCHANGED disk
    BY <1>30, <2>1 DEF ActivateFails, Goto
  <2>2. CASE job # "apply" /\ Finish("down") /\ disk' = active
    BY <1>30, <2>2 DEF ActivateFails, Finish
  <2> QED
    BY <1>30, <2>1, <2>2 DEF ActivateFails
<1>31. CASE SpawnFails
  BY <1>31 DEF SpawnFails, Fault, Exit, Finish, NginxGone
<1>32. CASE RollbackFails
  BY <1>32 DEF RollbackFails, Fault, Finish
<1>33. CASE MarkFails
  <2>1. CASE Exit
    BY <1>33, <2>1 DEF MarkFails, Fault, Exit, Finish, NginxGone
  <2>2. CASE Finish("idle") /\ UNCHANGED nginxVars /\ job # "start"
    BY <1>33, <2>2 DEF MarkFails, Fault, Finish
  <2> QED
    BY <1>33, <2>1, <2>2 DEF MarkFails, Raise
<1>34. CASE ReloadFails
  BY <1>34 DEF ReloadFails, Fault
<1>35. CASE NginxDies
  BY <1>35 DEF NginxDies, Fault, NginxGone
<1>36. CASE Crash
  BY <1>36 DEF Crash, Fault, Exit, Finish, NginxGone
<1>37. CASE UNCHANGED vars
  BY <1>37
<1> QED
  BY <1>1, <1>2, <1>3, <1>4, <1>5, <1>6, <1>7, <1>8, <1>9, <1>10, <1>11, <1>12, <1>13, <1>14,
    <1>15, <1>16, <1>17, <1>18, <1>19, <1>20, <1>21, <1>22, <1>23, <1>24, <1>25, <1>26,
    <1>27, <1>28, <1>29, <1>30, <1>31, <1>32, <1>33, <1>34, <1>35, <1>36, <1>37 DEF Next,
    Progress, Requests, Nginx, Faulty

\* A wait of the start can come too late only by a fault.
LEMMA WaitStep ==
  ASSUME TypeOK, ControlInv, LinkInv, ActiveIsComplete, NginxInv, [Next]_vars, Starting'
  PROVE  \/ OnTime'
         \/ faults' = faults + 1
         \/ faults' = faults /\ Starting /\ ~OnTime
<1> USE BoundAssumption, TimingAssumption
    DEF TypeOK, DataTypeOK, OpTypeOK, NginxTypeOK, ProgTypeOK, ControlInv, Starting, OnTime,
        LastChance, alive, Gen, NoGen, vars, dataVars, treeVars, nginxVars, opVars, histVars,
        progVars
<1>1. CASE Boot
  BY <1>1 DEF Boot, Goto
<1>2. CASE InitActive
  BY <1>2 DEF InitActive, Prepare
<1>3. CASE InitDraft
  BY <1>3 DEF InitDraft, Finish
<1>4. CASE StartCurrent
  BY <1>4 DEF StartCurrent
<1>5. CASE StartStale
  BY <1>5 DEF StartStale, Prepare, ActiveSettings
<1>6. CASE Spawn
  BY <1>6 DEF Spawn, NginxInv
<1>7. CASE WriteFile
  BY <1>7 DEF WriteFile, NextFile, Goto
<1>8. CASE CheckPasses
  BY <1>8 DEF CheckPasses, Discard, Goto
<1>9. CASE CheckFails
  BY <1>9 DEF CheckFails, Fault, Finish, Discard
<1>10. CASE Activate
  BY <1>10 DEF Activate, Goto
<1>11. CASE SyncActive
  BY <1>11 DEF SyncActive, Goto, Discard
<1>12. CASE Signal
  BY <1>12 DEF Signal
<1>13. CASE ProbeMatches
  BY <1>13 DEF ProbeMatches, Waiting, Settled, Countdown, Discard, HandoverStep, Leave
<1>14. CASE ProbeMisses
  BY <1>14 DEF ProbeMisses, Waiting, Fault, Countdown, HandoverStep
<1>15. CASE WaitFails
  BY <1>15 DEF WaitFails, Exit, Finish, Leave, Discard
<1>16. CASE Rescue
  BY <1>16 DEF Rescue, CandidateIsActive, Goto, Discard
<1>17. CASE Remove
  BY <1>17 DEF Remove, Raise, Exit, Finish, Goto
<1>18. CASE MarkApplied
  BY <1>18 DEF MarkApplied, Goto
<1>19. CASE Cleanup
  BY <1>19 DEF Cleanup, Raise, Exit, Finish
<1>20. CASE Purge
  BY <1>20 DEF Purge, RemoveFile, Goto
<1>21. CASE NginxMissed
  BY <1>21 DEF NginxMissed, Exit, Finish, NginxGone
<1>22. CASE Edit
  BY <1>22 DEF Edit, Restorable
<1>23. CASE Test
  BY <1>23 DEF Test, Prepare
<1>24. CASE Apply
  BY <1>24 DEF Apply, Prepare
<1>25. CASE Shutdown
  BY <1>25 DEF Shutdown, Exit, Finish, NginxGone
<1>26. CASE ReadConf
  BY <1>26 DEF ReadConf
<1>27. CASE StartWorkers
  BY <1>27 DEF StartWorkers
<1>28. CASE HandoverEnds
  BY <1>28 DEF HandoverEnds
<1>29. CASE PrepareFails
  BY <1>29 DEF PrepareFails, Fault, Finish
<1>30. CASE ActivateFails
  BY <1>30 DEF ActivateFails, Fault, Goto, Finish
<1>31. CASE SpawnFails
  BY <1>31 DEF SpawnFails, Fault, Exit, Finish, NginxGone
<1>32. CASE RollbackFails
  BY <1>32 DEF RollbackFails, Fault, Finish
<1>33. CASE MarkFails
  BY <1>33 DEF MarkFails, Raise, Exit, Finish
<1>34. CASE ReloadFails
  BY <1>34 DEF ReloadFails, Fault
<1>35. CASE NginxDies
  BY <1>35 DEF NginxDies, Fault, NginxGone
<1>36. CASE Crash
  BY <1>36 DEF Crash, Fault, Exit, Finish, NginxGone
<1>37. CASE UNCHANGED vars
  BY <1>37
<1> QED
  BY <1>1, <1>2, <1>3, <1>4, <1>5, <1>6, <1>7, <1>8, <1>9, <1>10, <1>11, <1>12, <1>13, <1>14,
    <1>15, <1>16, <1>17, <1>18, <1>19, <1>20, <1>21, <1>22, <1>23, <1>24, <1>25, <1>26,
    <1>27, <1>28, <1>29, <1>30, <1>31, <1>32, <1>33, <1>34, <1>35, <1>36, <1>37 DEF Next,
    Progress, Requests, Nginx, Faulty

\* What a step may do to the history.
Allocates ==
  /\ pc' = "prepare" /\ applied' = applied /\ last + 1 \in Gen
  /\ files' = [files EXCEPT ![last + 1] = {"dir"}]
  /\ pc \in {"idle", "start", "init"} /\ (Served' => Served)

Spares ==
  /\ UNCHANGED <<files, applied>>
  /\ \/ UNCHANGED <<pc, job, cand>>
     \/ ~Tidying' /\ (Served' => Served /\ ~Tidying)

LEMMA HistorySteps ==
  ASSUME TypeOK, ControlInv, [Next]_vars
  PROVE  Allocates \/ WriteFile \/ Remove \/ MarkApplied \/ Cleanup \/ Purge \/ Spares
<1> USE BoundAssumption
    DEF TypeOK, DataTypeOK, OpTypeOK, ControlInv, Allocates, Spares, Served, Tidying,
        alive, Gen, NoGen, vars, dataVars, treeVars, nginxVars, opVars, histVars, progVars
<1>1. CASE Boot
  BY <1>1 DEF Boot, Goto
<1>2. CASE InitActive
  BY <1>2 DEF InitActive, Prepare
<1>3. CASE InitDraft
  BY <1>3 DEF InitDraft, Finish
<1>4. CASE StartCurrent
  BY <1>4 DEF StartCurrent
<1>5. CASE StartStale
  BY <1>5 DEF StartStale, Prepare, ActiveSettings
<1>6. CASE Spawn
  BY <1>6 DEF Spawn, alive
<1>7. CASE WriteFile
  BY <1>7
<1>8. CASE CheckPasses
  BY <1>8 DEF CheckPasses, Discard, Goto
<1>9. CASE CheckFails
  BY <1>9 DEF CheckFails, Fault, Finish, Discard
<1>10. CASE Activate
  BY <1>10 DEF Activate, Goto
<1>11. CASE SyncActive
  BY <1>11 DEF SyncActive, Goto, Discard
<1>12. CASE Signal
  BY <1>12 DEF Signal
<1>13. CASE ProbeMatches
  BY <1>13 DEF ProbeMatches, Waiting, Settled, Countdown, Discard, HandoverStep, Leave
<1>14. CASE ProbeMisses
  BY <1>14 DEF ProbeMisses, Waiting, Fault, Countdown, HandoverStep
<1>15. CASE WaitFails
  <2>1. UNCHANGED <<dataVars, progVars>>
    BY <1>15 DEF WaitFails
  <2>2. CASE Exit
    BY <1>15, <2>1, <2>2 DEF WaitFails, Exit, Finish, NginxGone
  <2>3. CASE pc = "wait" /\ job = "apply" /\ Leave("rescue") /\ UNCHANGED nginxVars
    BY <2>1, <2>3 DEF Leave
  <2>4. CASE pc = "rb_wait" /\ Discard("unverified") /\ UNCHANGED nginxVars
    BY <2>1, <2>4 DEF Discard
  <2> QED
    BY <1>15, <2>2, <2>3, <2>4 DEF WaitFails
<1>16. CASE Rescue
  BY <1>16 DEF Rescue, CandidateIsActive, Goto, Discard
<1>17. CASE Remove
  BY <1>17
<1>18. CASE MarkApplied
  BY <1>18
<1>19. CASE Cleanup
  BY <1>19
<1>20. CASE Purge
  BY <1>20
<1>21. CASE NginxMissed
  BY <1>21 DEF NginxMissed, Exit, Finish, NginxGone
<1>22. CASE Edit
  BY <1>22 DEF Edit, Restorable
<1>23. CASE Test
  BY <1>23 DEF Test, Prepare
<1>24. CASE Apply
  BY <1>24 DEF Apply, Prepare
<1>25. CASE Shutdown
  BY <1>25 DEF Shutdown, Exit, Finish, NginxGone
<1>26. CASE ReadConf
  BY <1>26 DEF ReadConf
<1>27. CASE StartWorkers
  BY <1>27 DEF StartWorkers
<1>28. CASE HandoverEnds
  BY <1>28 DEF HandoverEnds
<1>29. CASE PrepareFails
  BY <1>29 DEF PrepareFails, Fault, Finish
<1>30. CASE ActivateFails
  BY <1>30 DEF ActivateFails, Fault, Goto, Finish
<1>31. CASE SpawnFails
  BY <1>31 DEF SpawnFails, Fault, Exit, Finish, NginxGone
<1>32. CASE RollbackFails
  BY <1>32 DEF RollbackFails, Fault, Finish
<1>33. CASE MarkFails
  <2>1. CASE Exit
    BY <1>33, <2>1 DEF MarkFails, Fault, Exit, Finish, NginxGone
  <2>2. CASE Finish("idle") /\ UNCHANGED nginxVars /\ job # "start"
    BY <1>33, <2>2 DEF MarkFails, Fault, Finish
  <2> QED
    BY <1>33, <2>1, <2>2 DEF MarkFails, Raise
<1>34. CASE ReloadFails
  BY <1>34 DEF ReloadFails, Fault
<1>35. CASE NginxDies
  BY <1>35 DEF NginxDies, Fault, NginxGone
<1>36. CASE Crash
  BY <1>36 DEF Crash, Fault, Exit, Finish, NginxGone
<1>37. CASE UNCHANGED vars
  BY <1>37
<1> QED
  BY <1>1, <1>2, <1>3, <1>4, <1>5, <1>6, <1>7, <1>8, <1>9, <1>10, <1>11, <1>12, <1>13, <1>14,
    <1>15, <1>16, <1>17, <1>18, <1>19, <1>20, <1>21, <1>22, <1>23, <1>24, <1>25, <1>26,
    <1>27, <1>28, <1>29, <1>30, <1>31, <1>32, <1>33, <1>34, <1>35, <1>36, <1>37 DEF Next,
    Progress, Requests, Nginx, Faulty

\* Numbers have a least one in every set that is not empty.
LEMMA LeastBy ==
  ASSUME NEW R, IsWellFoundedOn(R, Nat), NEW S \in SUBSET Nat, S # {}
  PROVE  \E n \in S : \A m \in S : ~ (<<m, n>> \in R)
<1>1. S \subseteq Nat
  OBVIOUS
<1> QED
  BY <1>1, WFMin

LEMMA Least ==
  ASSUME NEW S \in SUBSET Nat, S # {}
  PROVE  \E n \in S : \A m \in S : n <= m
<1>1. SUFFICES ASSUME NEW R, IsWellFoundedOn(R, Nat),
                      \A m, n \in Nat : m < n => <<m, n>> \in R
               PROVE  \E n \in S : \A m \in S : n <= m
  <2>1. IsWellFoundedOn(OpToRel(<, Nat), Nat)
    BY NatLessThanWellFounded
  <2>2. \A m, n \in Nat : m < n => <<m, n>> \in OpToRel(<, Nat)
    BY DEF OpToRel
  <2> QED
    BY <1>1, <2>1, <2>2, Zenon
<1>2. PICK n \in S : \A m \in S : ~ (<<m, n>> \in R)
  BY <1>1, LeastBy
<1>3. \A m \in S : ~ (m < n)
  BY <1>1, <1>2
<1> QED
  BY <1>3

\* The n newest of a finite set are n at most.
LEMMA NewestFew ==
  ASSUME NEW S \in SUBSET Nat, IsFiniteSet(S), NEW n \in Nat
  PROVE  IsFiniteSet(Newest(S, n)) /\ Cardinality(Newest(S, n)) <= n
<1> DEFINE N == Newest(S, n)
<1>1. N \in SUBSET S /\ N \in SUBSET Nat
  BY DEF Newest
<1>2. IsFiniteSet(N)
  BY <1>1, FS_Subset
<1>3. CASE N = {}
  BY <1>2, <1>3, FS_EmptySet
<1>4. CASE N # {}
  <2> HIDE DEF N
  <2>1. PICK m \in N : \A k \in N : m <= k
    BY <1>1, <1>4, Least
  <2> DEFINE Above == {h \in S : h > m}
  <2>2. Cardinality(Above) < n
    BY <2>1 DEF N, Newest
  <2>3. N \ {m} \in SUBSET Above
    BY <1>1, <2>1
  <2>4. Above \in SUBSET S
    OBVIOUS
  <2> HIDE DEF Above
  <2>5. IsFiniteSet(Above)
    BY <2>4, FS_Subset
  <2>6. Cardinality(N \ {m}) <= Cardinality(Above)
    BY <2>3, <2>5, FS_Subset
  <2>7. Cardinality(N \ {m}) = Cardinality(N) - 1
    BY <1>2, <2>1, FS_RemoveElement
  <2>8. Cardinality(N) \in Nat /\ Cardinality(Above) \in Nat
    BY <1>2, <2>5, FS_CardinalityType
  <2> QED
    BY <1>2, <2>2, <2>6, <2>7, <2>8 DEF N
<1> QED
  BY <1>3, <1>4

\* Of a larger set fewer are among the newest.
LEMMA NewestShrinks ==
  ASSUME NEW S \in SUBSET Nat, IsFiniteSet(S), NEW K \in SUBSET S, NEW n \in Nat,
         NEW g \in K, g \in Newest(S, n)
  PROVE  g \in Newest(K, n)
<1> DEFINE Above(T) == {h \in T : h > g}
<1>1. Cardinality(Above(S)) < n
  BY DEF Newest
<1>2. Above(K) \in SUBSET Above(S) /\ Above(S) \in SUBSET S
  OBVIOUS
<1>3. g \in Newest(K, n) <=> Cardinality(Above(K)) < n
  BY DEF Newest
<1> HIDE DEF Above
<1>4. IsFiniteSet(Above(S)) /\ IsFiniteSet(Above(K))
  BY <1>2, FS_Subset
<1>5. Cardinality(Above(K)) <= Cardinality(Above(S))
  BY <1>2, <1>4, FS_Subset
<1>6. Cardinality(Above(K)) \in Nat /\ Cardinality(Above(S)) \in Nat
  BY <1>4, FS_CardinalityType
<1> QED
  BY <1>1, <1>3, <1>5, <1>6

\* The newest of all is among them.
LEMMA GreatestIsNewest ==
  ASSUME NEW K \in SUBSET Nat, NEW n \in Nat \ {0}, NEW a \in K, \A g \in K : g <= a
  PROVE  a \in Newest(K, n)
<1>1. \A h \in K : ~(h > a)
  OBVIOUS
<1>2. Cardinality({h \in K : h > a}) = 0
  <2>1. {h \in K : h > a} = {}
    BY <1>1, Zenon
  <2> QED
    BY <2>1, FS_EmptySet
<1> QED
  BY <1>2 DEF Newest

LEMMA Finite == TypeOK => IsFiniteSet(Gen) /\ IsFiniteSet(applied) /\ Gen \in SUBSET Nat
<1>1. IsFiniteSet(Gen)
  BY BoundAssumption, FS_Interval DEF Gen
<1>2. TypeOK => IsFiniteSet(applied)
  <2>1. TypeOK => applied \in SUBSET Gen
    BY DEF TypeOK, DataTypeOK
  <2> QED
    BY <1>1, <2>1, FS_Subset
<1>3. Gen \in SUBSET Nat
  BY BoundAssumption DEF Gen
<1> QED
  BY <1>1, <1>2, <1>3

\* During a cleanup the history is what was applied and is still there.
LEMMA HistoryIsKept ==
  ASSUME TypeOK, OrderInv, Tidying
  PROVE  History = Kept
BY DEF TypeOK, DataTypeOK, OrderInv, Tidying, History, Kept

\* cleanup() takes nothing that belongs to the history.
LEMMA ExcessIsOld ==
  ASSUME TypeOK, OrderInv, Tidying, NEW g \in Excess
  PROVE  g \in applied \ Final
<1>1. History = Kept
  BY HistoryIsKept
<1>2. g \in Kept /\ g \notin Newest(Kept, MaxHistory)
  BY <1>1 DEF Excess
<1>3. Kept \in SUBSET applied /\ applied \in SUBSET Nat
  BY Finite DEF Kept, TypeOK, DataTypeOK
<1> QED
  BY <1>2, <1>3, Finite, NewestShrinks, BoundAssumption DEF Final

\* When nothing is in excess the history has its size.
LEMMA NoExcess ==
  ASSUME TypeOK, OrderInv, Tidying, Excess = {}
  PROVE  Cardinality(Kept) <= MaxHistory
<1>1. History = Kept
  BY HistoryIsKept
<1>2. Kept \in SUBSET Nat /\ IsFiniteSet(Kept)
  BY Finite, FS_Subset DEF Kept, TypeOK, DataTypeOK
<1>3. Kept \ Newest(Kept, MaxHistory) \subseteq {active}
  BY <1>1 DEF Excess
<1>4. active \in Kept => active \in Newest(Kept, MaxHistory)
  BY <1>2, GreatestIsNewest, BoundAssumption DEF OrderInv, Kept
<1>5. Kept = Newest(Kept, MaxHistory)
  BY <1>3, <1>4 DEF Newest
<1> QED
  BY <1>2, <1>5, NewestFew, BoundAssumption

\* A step that leaves the files of what was applied alone leaves the history.
LEMMA HistoryFrame ==
  ASSUME TypeOK, HistoryInv, applied' = applied, \A g \in applied : files'[g] = files[g]
  PROVE  /\ Final' = Final /\ Kept' = Kept
         /\ \A g \in Final' : Complete(g)'
         /\ Served => \A g \in Kept : "config" \in files'[g] \/ (pc = "purge" /\ g = cand)
<1>1. Final' = Final
  BY DEF Final, Newest
<1>2. Kept' = Kept
  BY DEF Kept
<1>3. Final \subseteq applied /\ Kept \subseteq applied
  BY DEF Final, Newest, Kept
<1> QED
  BY <1>1, <1>2, <1>3 DEF HistoryInv, Complete

LEMMA HistoryStep ==
  ASSUME TypeOK, ControlInv, LinkInv, ActiveIsComplete, ApprovedInv, OrderInv, HistoryInv,
         [Next]_vars
  PROVE  HistoryInv'
<1> USE BoundAssumption DEF Gen, NoGen
<1>1. CASE Allocates
  <2>1. \A g \in applied : g <= last
    <3>1. active \in Nat /\ last \in Nat /\ active <= last
      BY DEF ApprovedInv, TypeOK, DataTypeOK
    <3>2. \A g \in applied : g \in Nat /\ g <= active
      BY DEF OrderInv, TypeOK, DataTypeOK
    <3> QED
      BY <3>1, <3>2
  <2>2. \A g \in applied : files'[g] = files[g]
    BY <1>1, <2>1 DEF Allocates, TypeOK, DataTypeOK
  <2>3. applied' = applied /\ pc' = "prepare" /\ (Served' => Served /\ ~Tidying)
    BY <1>1 DEF Allocates, Tidying
  <2>4. pc # "purge"
    BY <1>1 DEF Allocates
  <2> QED
    BY <2>2, <2>3, <2>4, HistoryFrame DEF HistoryInv
<1>2. CASE WriteFile \/ Remove
  <2>1. pc \in {"prepare", "remove"}
    BY <1>2 DEF WriteFile, Remove
  <2>2. \A g \in applied : g < cand
    BY <2>1 DEF OrderInv, Untried
  <2>3. applied' = applied /\ \A g \in applied : files'[g] = files[g]
    BY <1>2, <2>2 DEF WriteFile, Remove, RemoveFile, TypeOK, DataTypeOK
  <2>4. pc' \in {"prepare", "check", "remove", "idle", "down"}
    BY <1>2 DEF WriteFile, Remove, Raise, Exit, Finish, Goto
  <2>5. Served' => Served
    <3>1. CASE pc' = "idle"
      BY <1>2, <2>1, <3>1 DEF Served, WriteFile, Remove, Raise, Exit, Finish, Goto, ControlInv
    <3>2. CASE pc' # "idle"
      BY <1>2, <3>2 DEF Served, WriteFile, Remove, Raise, Exit, Finish, Goto
    <3> QED
      BY <3>1, <3>2
  <2> QED
    BY <2>1, <2>3, <2>4, <2>5, HistoryFrame DEF HistoryInv, Tidying
<1>3. CASE MarkApplied
  <2>1. /\ applied' = applied \cup {active} /\ files' = files
        /\ pc = "mark" /\ pc' = "cleanup" /\ job' = job
    BY <1>3 DEF MarkApplied, Goto
  <2>2. active \in Gen /\ Complete(active)
    BY <2>1 DEF ControlInv, ActiveIsComplete
  <2>3. \A g \in Final' : g \in Final \/ g = active
    <3> SUFFICES ASSUME NEW g \in Final', g # active  PROVE g \in Final
      OBVIOUS
    <3>1. g \in applied /\ g \in Newest(applied', MaxHistory)
      BY <2>1 DEF Final, Newest
    <3>2. IsFiniteSet(applied') /\ applied' \in SUBSET Nat /\ applied \in SUBSET applied'
      <4>1. IsFiniteSet(applied) /\ applied \in SUBSET Gen
        BY Finite DEF TypeOK, DataTypeOK
      <4>2. IsFiniteSet(applied \cup {active})
        BY <4>1, FS_AddElement
      <4> QED
        BY <2>1, <2>2, <4>1, <4>2
    <3> QED
      BY <3>1, <3>2, NewestShrinks DEF Final
  <2>4. \A g \in Kept' : g \in Kept \/ g = active
    BY <2>1 DEF Kept
  <2>5. Served' => Served
    BY <2>1 DEF Served
  <2> QED
    BY <2>1, <2>2, <2>3, <2>4, <2>5 DEF HistoryInv, Complete, Tidying, File
<1>4. CASE Cleanup
  <2>1. applied' = applied /\ files' = files /\ pc = "cleanup"
    BY <1>4 DEF Cleanup, dataVars, treeVars
  <2>2. Final' = Final /\ Kept' = Kept /\ \A g \in Final' : Complete(g)'
    BY <2>1, HistoryFrame
  <2>3. CASE ~HistoryReadable /\ Raise
    <3>1. job = "start"
      BY <2>1, <2>3, HistoryIsKept DEF HistoryReadable, HistoryInv, Served, Tidying, ControlInv
    <3>2. pc' = "down" /\ job' = "none"
      BY <2>3, <3>1 DEF Raise, Exit, Finish
    <3> QED
      BY <2>2, <3>2 DEF HistoryInv, Served
  <2>4. CASE HistoryReadable /\ Excess = {} /\ Finish("idle")
    <3>1. Cardinality(Kept) <= MaxHistory
      BY <2>1, <2>4, NoExcess DEF Tidying
    <3>2. \A g \in Kept : "config" \in files'[g]
      BY <2>1, <2>4, HistoryIsKept DEF HistoryReadable, Tidying
    <3> QED
      BY <2>2, <2>4, <3>1, <3>2 DEF HistoryInv, Finish
  <2>5. CASE HistoryReadable /\ pc' = "purge" /\ cand' \in Newest(Excess, 1)
    <3>1. cand' \in applied \ Final
      BY <2>1, <2>5, ExcessIsOld DEF Newest, Tidying
    <3>2. \A g \in Kept : "config" \in files'[g]
      BY <2>1, <2>5, HistoryIsKept DEF HistoryReadable, Tidying
    <3> QED
      BY <2>1, <2>2, <2>5, <3>1, <3>2 DEF HistoryInv, Tidying
  <2> QED
    BY <1>4, <2>3, <2>4, <2>5 DEF Cleanup
<1>5. CASE Purge
  <2>1. /\ pc = "purge" /\ applied' = applied /\ job' = job /\ cand' = cand
        /\ cand \in applied \ Final
    BY <1>5 DEF Purge, Goto, HistoryInv
  <2>2. \A g \in Gen \ {cand} : files'[g] = files[g]
    BY <1>5 DEF Purge, RemoveFile, TypeOK, DataTypeOK
  <2>3. files'[cand] \subseteq files[cand]
    BY <1>5, <2>1 DEF Purge, RemoveFile, TypeOK, DataTypeOK
  <2>4. pc' = "purge" \/ (pc' = "cleanup" /\ files'[cand] = {})
    BY <1>5 DEF Purge, Goto
  <2>5. Final' = Final
    BY <2>1 DEF Final, Newest
  <2>6. Final \subseteq Gen \ {cand} /\ Kept \subseteq Gen
    BY <2>1 DEF Final, Newest, Kept, TypeOK, DataTypeOK
  <2>7. Kept' \subseteq Kept /\ (pc' = "cleanup" => cand \notin Kept')
    BY <2>1, <2>2, <2>3, <2>4 DEF Kept, TypeOK, DataTypeOK
  <2>8. Served' => Served
    BY <2>1, <2>4 DEF Served
  <2> QED
    BY <2>1, <2>2, <2>4, <2>5, <2>6, <2>7, <2>8 DEF HistoryInv, Complete, Tidying
<1>6. CASE Spares
  <2>1. /\ Final' = Final /\ Kept' = Kept /\ \A g \in Final' : Complete(g)'
        /\ Served => \A g \in Kept : "config" \in files'[g] \/ (pc = "purge" /\ g = cand)
    BY <1>6, HistoryFrame DEF Spares
  <2>2. CASE UNCHANGED <<pc, job, cand>>
    <3>1. pc' = pc /\ job' = job /\ cand' = cand
      BY <2>2
    <3>2. Served' = Served /\ Tidying' = Tidying
      BY <3>1 DEF Served, Tidying
    <3>3. Served /\ ~Tidying => Cardinality(Kept) <= MaxHistory
      BY DEF HistoryInv
    <3>4. pc = "purge" => cand \in applied \ Final
      BY DEF HistoryInv
    <3>5. applied' = applied
      BY <1>6 DEF Spares
    <3> QED
      BY <2>1, <3>1, <3>2, <3>3, <3>4, <3>5 DEF HistoryInv
  <2>3. CASE ~Tidying' /\ (Served' => Served /\ ~Tidying)
    BY <2>1, <2>3 DEF HistoryInv, Tidying
  <2> QED
    BY <1>6, <2>2, <2>3 DEF Spares
<1> QED
  BY <1>1, <1>2, <1>3, <1>4, <1>5, <1>6, HistorySteps

\* One fault leaves one stray at most.
LEMMA StrayStep ==
  ASSUME TypeOK, TypeOK', ControlInv, LinkInv, ActiveIsComplete, ApprovedInv, NginxInv,
         SettingsInv, MadeInv, StrayInv, [Next]_vars
  PROVE  StrayInv'
<1>1. /\ Strays \in SUBSET Gen /\ Strays' \in SUBSET Gen
      /\ faults \in Nat /\ faults' \in Nat
  BY BoundAssumption DEF Strays, TypeOK, ProgTypeOK, Gen
<1>2. /\ IsFiniteSet(Strays) /\ Cardinality(Strays) \in Nat
      /\ IsFiniteSet(Strays') /\ Cardinality(Strays') \in Nat
  BY <1>1, Finite, FS_Subset, FS_CardinalityType
<1>3. Strays' \subseteq Strays => Cardinality(Strays') <= Cardinality(Strays)
  BY <1>2, FS_Subset
<1>4. ASSUME NEW x, Strays' \subseteq Strays \cup {x}
      PROVE  Cardinality(Strays') <= Cardinality(Strays) + 1
  <2>1. /\ IsFiniteSet(Strays \cup {x})
        /\ Cardinality(Strays \cup {x}) <= Cardinality(Strays) + 1
    BY <1>2, FS_AddElement
  <2>2. Cardinality(Strays') <= Cardinality(Strays \cup {x})
    BY <1>4, <2>1, FS_Subset
  <2>3. Cardinality(Strays \cup {x}) \in Nat
    BY <2>1, FS_CardinalityType
  <2> QED
    BY <1>2, <2>1, <2>2, <2>3
<1>5. Cardinality(Strays) <= faults /\ (Starting => OnTime \/ Cardinality(Strays) < faults)
  BY DEF StrayInv
<1>6. CASE faults' >= faults /\ Strays' \subseteq Strays
  <2>1. Starting' => \/ OnTime' \/ faults' = faults + 1
                     \/ faults' = faults /\ Starting /\ ~OnTime
    BY WaitStep
  <2> QED
    BY <1>1, <1>2, <1>3, <1>5, <1>6, <2>1 DEF StrayInv
<1>7. CASE /\ faults' = faults + 1 /\ pc' # "wait"
           /\ \E x \in Gen : Strays' \subseteq Strays \cup {x}
  <2>1. Cardinality(Strays') <= Cardinality(Strays) + 1
    BY <1>4, <1>7
  <2>2. ~Starting'
    BY <1>7 DEF Starting
  <2> QED
    BY <1>1, <1>2, <1>5, <1>7, <2>1, <2>2 DEF StrayInv
<1>8. CASE faults' = faults /\ WaitFails /\ Starting /\ Strays' \subseteq Strays \cup {active}
  <2>1. Cardinality(Strays') <= Cardinality(Strays) + 1
    BY <1>4, <1>8
  <2>2. ~OnTime
    BY <1>8, TimingAssumption, BoundAssumption
    DEF WaitFails, OnTime, LastChance, TypeOK, OpTypeOK
  <2>3. ~Starting'
    BY <1>8 DEF WaitFails, Exit, Finish, Starting
  <2> QED
    BY <1>1, <1>2, <1>5, <1>8, <2>1, <2>2, <2>3 DEF StrayInv
<1> QED
  BY <1>6, <1>7, <1>8, StraysStep

LEMMA InitKeep == Init => KeepInv
<1> SUFFICES ASSUME Init  PROVE KeepInv
  OBVIOUS
<1>1. Strays = {} /\ Kept = {} /\ Final = {}
  BY DEF Init, Strays, Kept, Final, Newest
<1>2. Cardinality({}) = 0
  BY FS_EmptySet
<1>3. StrayInv /\ MadeInv
  BY <1>1, <1>2 DEF Init, StrayInv, MadeInv, Starting
<1>4. OrderInv /\ HistoryInv
  BY <1>1, <1>2 DEF Init, OrderInv, HistoryInv, Untried, Served, Tidying
<1> QED
  BY <1>3, <1>4 DEF KeepInv

\* What is kept, and what is left behind, in every reachable state.
THEOREM KeptAlways == Spec => []KeepInv
<1>1. IndInv /\ IndInv' /\ KeepInv /\ [Next]_vars => KeepInv'
  BY StrayStep, MadeStep, OrderStep, HistoryStep DEF IndInv, KeepInv
<1> QED
  BY <1>1, InitKeep, Inductive, PTL DEF Spec

\* Between two operations the newest applied revisions are there with all their files, and
\* the history holds no other applied revision (cleanup()).
THEOREM HistoryAlways == Spec => []HistoryIsTheNewest
<1>1. IndInv /\ KeepInv => HistoryIsTheNewest
  <2> SUFFICES ASSUME IndInv, KeepInv, pc = "idle"
               PROVE  /\ \A g \in Newest(applied, MaxHistory) : g \in History /\ Complete(g)
                      /\ Cardinality(History \cap applied) <= MaxHistory
    BY DEF HistoryIsTheNewest
  <2>1. applied \subseteq Gen
    BY DEF IndInv, TypeOK, DataTypeOK
  <2>2. History \cap applied = Kept
    BY <2>1 DEF History, Kept
  <2>3. Cardinality(Kept) <= MaxHistory /\ \A g \in Final : Complete(g)
    BY DEF KeepInv, HistoryInv, Served, Tidying
  <2> QED
    BY <2>1, <2>2, <2>3 DEF Final, Newest, History, Complete, File
<1> QED
  BY <1>1, Inductive, KeptAlways, PTL

\* Between two operations every directory that no history shows was left by a fault.
THEOREM LeftoversAlways == Spec => []LeftoversBounded
<1>1. IndInv /\ KeepInv => LeftoversBounded
  <2> SUFFICES ASSUME IndInv, KeepInv, pc = "idle"
               PROVE  Cardinality({g \in Gen : files[g] # {}} \ History) <= faults
    BY DEF LeftoversBounded
  <2> DEFINE Left == {g \in Gen : files[g] # {}} \ History
  <2>1. Left \in SUBSET Strays /\ Strays \in SUBSET Gen
    BY DEF Strays, Kept, InHand, History
  <2>2. Cardinality(Strays) <= faults
    BY DEF KeepInv, StrayInv
  <2> HIDE DEF Left
  <2>3. IsFiniteSet(Strays)
    BY <2>1, Finite, FS_Subset DEF IndInv
  <2>4. IsFiniteSet(Left) /\ Cardinality(Left) <= Cardinality(Strays)
    BY <2>1, <2>3, FS_Subset
  <2>5. Cardinality(Left) \in Nat /\ Cardinality(Strays) \in Nat /\ faults \in Nat
    BY <2>3, <2>4, FS_CardinalityType, BoundAssumption DEF IndInv, TypeOK, ProgTypeOK
  <2>6. Cardinality(Left) <= faults
    BY <2>2, <2>4, <2>5
  <2> QED
    BY <2>6 DEF Left
<1> QED
  BY <1>1, Inductive, KeptAlways, PTL

\* The steps in which an apply that is under way ends, or reports its result.
LEMMA ApplyEnds ==
  ASSUME TypeOK, ControlInv, [Next]_vars, job = "apply", pc' = "idle"
  PROVE  PrepareFails \/ RollbackFails \/ Remove \/ MarkFails \/ Cleanup
BY DEF TypeOK, OpTypeOK, ControlInv, Next, Progress, Requests, Nginx, Faulty, Boot, InitActive,
       InitDraft, StartCurrent, StartStale, Prepare, Spawn, WriteFile, CheckPasses, CheckFails,
       Activate, SyncActive, Signal, ProbeMatches, ProbeMisses, Waiting, WaitFails, Rescue,
       MarkApplied, Purge, NginxMissed, Edit, Restorable, Test, Apply, Shutdown, ReadConf,
       StartWorkers, HandoverEnds, ActivateFails, SpawnFails, ReloadFails, NginxDies, Crash, Raise,
       Discard, Leave, Goto, Exit, Finish, vars, opVars, nginxVars

\* An apply that reports a failure has restored the previous revision and removed its
\* candidate, unless the write that ended it failed as well; and cleanup() never makes a
\* failure of an apply that was confirmed, because it finds a history it can read.
THEOREM FailureRestoresOld == Spec => FailedApplyKeepsOld
<1>1. IndInv /\ KeepInv /\ [Next]_vars =>
        (FailureReported =>
           \/ active' = old /\ disk' = old /\ files'[cand] = {}
           \/ /\ faults' = faults + 1 /\ disk' = active'
              /\ \/ pc = "prepare" /\ active' = old /\ "meta" \notin files'[cand]
                 \/ pc \in {"rb_activate", "rb_sync"} /\ active' \in {old, cand}
                 \/ pc = "mark" /\ active' = cand)
  <2> SUFFICES ASSUME IndInv, KeepInv, [Next]_vars, FailureReported
               PROVE  \/ active' = old /\ disk' = old /\ files'[cand] = {}
                      \/ /\ faults' = faults + 1 /\ disk' = active'
                         /\ \/ pc = "prepare" /\ active' = old /\ "meta" \notin files'[cand]
                            \/ pc \in {"rb_activate", "rb_sync"} /\ active' \in {old, cand}
                            \/ pc = "mark" /\ active' = cand
    OBVIOUS
  <2>1. job = "apply" /\ pc' = "idle" /\ LinkInv /\ CandInv
    BY DEF FailureReported, IndInv
  <2>2. CASE PrepareFails
    BY <2>1, <2>2 DEF PrepareFails, Fault, LinkInv, CandInv, dataVars, treeVars
  <2>3. CASE RollbackFails
    BY <2>1, <2>3 DEF RollbackFails, Fault, LinkInv, treeVars
  <2>4. CASE Remove
    BY <2>1, <2>4 DEF Remove, Goto, LinkInv
  <2>5. CASE MarkFails
    BY <2>1, <2>5 DEF MarkFails, Fault, LinkInv, dataVars, treeVars
  <2>6. CASE Cleanup
    <3>1. pc = "cleanup" /\ Tidying /\ Served
      BY <2>1, <2>6 DEF Cleanup, Tidying, Served
    <3>2. History = Kept
      BY <3>1, HistoryIsKept DEF IndInv, KeepInv
    <3>3. HistoryReadable
      BY <3>1, <3>2 DEF KeepInv, HistoryInv, HistoryReadable
    <3> QED
      BY <3>1, <3>3 DEF FailureReported
  <2> QED
    BY <2>1, <2>2, <2>3, <2>4, <2>5, <2>6, ApplyEnds DEF IndInv
<1> QED
  BY <1>1, Inductive, KeptAlways, PTL DEF Spec, FailedApplyKeepsOld

=============================================================================
