------------------------------ MODULE MCReview ------------------------------
(* Small plans and the event sequences their attempts may produce. *)
EXTENDS Review

Abs(names) == [form |-> "absolute", names |-> names]
Event(kind, source, at, body) == [kind |-> kind, source |-> source, at |-> at, body |-> body]

Process(pid, ppid, exe) == [of |-> "process", pid |-> pid, ppid |-> ppid, exe |-> Abs(<<"bin", exe>>),
                           exit |-> 0, duration |-> 1]
Start(at, pid, ppid, exe) == Event("process-start", "sandbox", at, Process(pid, ppid, exe))
Exit(at, pid, exe, code) == Event("process-exit", "sandbox", at, [Process(pid, 0, exe) EXCEPT !.exit = code])
Net(at, result) == Event("network-connection", "sandbox", at, [of |-> "network", to |-> "host", result |-> result, duration |-> 1])
Write(at, path, op) ==
  Event("filesystem-write", "guest", at,
        [of |-> "filesystem", op |-> op, path |-> path, content |-> "c", executable |-> FALSE])
Artifact(at, content, executable) ==
  Event("artifact-activity", "host", at,
        [of |-> "artifact", path |-> Abs(<<"work", "out", "a">>), content |-> content, executable |-> executable])
Warning(at) == Event("observer-warning", "host", at, [of |-> "warning", code |-> "", message |-> "m", unsupported |-> FALSE])
Limit(at) == Event("resource-limit", "host", at, [of |-> "resource", limit |-> "memory", observed |-> 2])
Misplaced(at) == [Net(at, "ok") EXCEPT !.kind = "process-start"]

Quiet == <<>>
Connect == <<Net(1, "ok")>>
ConnectTwice == <<Net(1, "ok"), Net(2, "ok")>>
Slow == <<[Net(1, "ok") EXCEPT !.body.duration = 2]>>
Denied == <<Net(1, "denied")>>
Both == <<Net(1, "ok"), Net(2, "denied")>>
Failing == <<Net(1, "denied"), Net(2, "timeout")>>
Family == <<Start(1, 5, 0, "sh"), Start(2, 6, 5, "cc")>>
Reuse == <<Start(1, 5, 0, "sh"), Exit(2, 5, "sh", 0), Start(3, 5, 0, "sh"), Exit(4, 5, "sh", 1)>>
Orphans == <<Start(2, 6, 5, "cc"), Start(1, 6, 0, "sh"), Exit(3, 7, "sh", 0)>>
NetThenStart == <<Net(1, "ok"), Start(2, 5, 0, "sh")>>
StartThenNet == <<Start(1, 5, 0, "sh"), Net(2, "ok")>>
Files == <<Write(1, Abs(<<"etc", "x">>), "write"), Write(2, Abs(<<"work", "x">>), "write"), Artifact(3, "c", FALSE)>>
OtherFiles == <<Write(1, Abs(<<"etc", "x">>), "link"), Artifact(2, "d", TRUE), Warning(3), Limit(4)>>

Contexts == {RealRun, [RealRun EXCEPT !.evidenceComplete = FALSE], [RealRun EXCEPT !.rebuilds = FALSE],
             [RealRun EXCEPT !.synthetic = TRUE, !.executes = FALSE]}

Case(scenarios, repetitions, ignore, scripts, contexts, edits) ==
  [scenarios |-> scenarios, repetitions |-> repetitions, ignore |-> ignore, scripts |-> scripts,
   contexts |-> contexts, edits |-> edits]

SmallCases == {
  Case(<<"s">>, 2, {TimestampField}, {Quiet, Connect, ConnectTwice, Denied, Both, NetThenStart, StartThenNet}, {RealRun}, FALSE),
  Case(<<"s">>, 1, {TimestampField}, {Quiet, Connect, Slow, Failing, Family, Reuse, Orphans, Files, OtherFiles, <<Misplaced(1)>>}, Contexts, FALSE),
  Case(<<"s">>, 1, {}, {Quiet, Family, Orphans, ConnectTwice, StartThenNet}, {RealRun}, FALSE),
  Case(<<"s", "t">>, 1, {TimestampField}, {Quiet, Denied, Both, Family}, {RealRun}, FALSE),
  Case(<<"s">>, 1, {TimestampField}, {Quiet, Connect, ConnectTwice}, {RealRun}, TRUE)}

\* Two artifacts whose long paths begin alike are added.
Configs == {[state |-> s, changes |-> <<>>] : s \in {"unchanged", "equivalent", "modified-invalid", "too-large"}}
           \cup {[state |-> "modified-valid", changes |-> c] : c \in {<<"cpu", "log">>, <<"artifact", "artifact">>}}
Work == <<"work">>
Roots == << <<"work">>, <<"work", "out">>, <<"work", "out">> >>
=============================================================================
