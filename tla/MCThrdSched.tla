---------------------------- MODULE MCThrdSched -----------------------------
(* Programs for ThrdSched: the task programs of mp3/xv6/user with the      *)
(* output the grade-mp3-*.py scripts expect of them, and small ones.       *)
EXTENDS ThrdSched

Task(time, priority) == NewThread(FALSE, time, -1, 1, priority, 0, FALSE)
RtTask(time, period, n) == NewThread(TRUE, time, period, n, 100, 0, FALSE)
CbsTask(time, period, n, budget, hard) == NewThread(TRUE, time, period, n, 100, budget, hard)

\* threads of the graded programs never return; ticks come where they usually do
Graded(policy, threads, arrivals, expected) ==
    [policy |-> policy, threads |-> threads, arrivals |-> arrivals, expected |-> expected,
     returns |-> FALSE, ticks |-> {"body"}]

GradedPrograms == {
    Graded("HRRN", <<Task(6, 1), Task(4, 0)>>, <<0, 0>>,
      <<<<"dispatch", 1, 0, 6>>, <<"finish", 1, 6>>, <<"dispatch", 2, 6, 4>>, <<"finish", 2, 10>>>>),
    Graded("HRRN", <<Task(8, 1), Task(6, 0), Task(4, 2)>>, <<0, 0, 0>>,
      <<<<"dispatch", 1, 0, 8>>, <<"finish", 1, 8>>, <<"dispatch", 3, 8, 4>>, <<"finish", 3, 12>>,
        <<"dispatch", 2, 12, 6>>, <<"finish", 2, 18>>>>),
    Graded("HRRN", <<Task(7, 1), Task(3, 0), Task(10, 2)>>, <<0, 3, 1>>,
      <<<<"dispatch", 1, 0, 7>>, <<"finish", 1, 7>>, <<"dispatch", 2, 7, 3>>, <<"finish", 2, 10>>,
        <<"dispatch", 3, 10, 10>>, <<"finish", 3, 20>>>>),
    Graded("HRRN", <<Task(4, 0), Task(2, 0), Task(6, 0), Task(1, 0)>>, <<0, 0, 0, 0>>,
      <<<<"dispatch", 1, 0, 4>>, <<"finish", 1, 4>>, <<"dispatch", 4, 4, 1>>, <<"finish", 4, 5>>,
        <<"dispatch", 2, 5, 2>>, <<"finish", 2, 7>>, <<"dispatch", 3, 7, 6>>, <<"finish", 3, 13>>>>),
    Graded("HRRN", <<Task(6, 1), Task(2, 0), Task(5, 1), Task(4, 2)>>, <<0, 0, 1, 2>>,
      <<<<"dispatch", 1, 0, 6>>, <<"finish", 1, 6>>, <<"dispatch", 2, 6, 2>>, <<"finish", 2, 8>>,
        <<"dispatch", 4, 8, 4>>, <<"finish", 4, 12>>, <<"dispatch", 3, 12, 5>>,
        <<"finish", 3, 17>>>>),
    Graded("PRIORITY_RR", <<Task(6, 1), Task(4, 0)>>, <<0, 0>>,
      <<<<"dispatch", 2, 0, 4>>, <<"finish", 2, 4>>, <<"dispatch", 1, 4, 6>>, <<"finish", 1, 10>>>>),
    Graded("PRIORITY_RR", <<Task(8, 1), Task(6, 0), Task(4, 2)>>, <<0, 0, 0>>,
      <<<<"dispatch", 2, 0, 6>>, <<"finish", 2, 6>>, <<"dispatch", 1, 6, 8>>, <<"finish", 1, 14>>,
        <<"dispatch", 3, 14, 4>>, <<"finish", 3, 18>>>>),
    Graded("PRIORITY_RR", <<Task(7, 1), Task(3, 0), Task(10, 2)>>, <<0, 0, 0>>,
      <<<<"dispatch", 2, 0, 3>>, <<"finish", 2, 3>>, <<"dispatch", 1, 3, 7>>, <<"finish", 1, 10>>,
        <<"dispatch", 3, 10, 10>>, <<"finish", 3, 20>>>>),
    Graded("PRIORITY_RR", <<Task(4, 0), Task(2, 0), Task(6, 0), Task(1, 0)>>, <<0, 0, 0, 0>>,
      <<<<"dispatch", 1, 0, 2>>, <<"dispatch", 2, 2, 2>>, <<"finish", 2, 4>>,
        <<"dispatch", 3, 4, 2>>, <<"dispatch", 4, 6, 1>>, <<"finish", 4, 7>>,
        <<"dispatch", 1, 7, 2>>, <<"finish", 1, 9>>, <<"dispatch", 3, 9, 4>>, <<"finish", 3, 13>>>>),
    Graded("PRIORITY_RR", <<Task(6, 1), Task(2, 0), Task(5, 1), Task(4, 2)>>, <<0, 0, 0, 0>>,
      <<<<"dispatch", 2, 0, 2>>, <<"finish", 2, 2>>, <<"dispatch", 1, 2, 2>>,
        <<"dispatch", 3, 4, 2>>, <<"dispatch", 1, 6, 2>>, <<"dispatch", 3, 8, 2>>,
        <<"dispatch", 1, 10, 2>>, <<"finish", 1, 12>>, <<"dispatch", 3, 12, 1>>,
        <<"finish", 3, 13>>, <<"dispatch", 4, 13, 4>>, <<"finish", 4, 17>>>>),
    Graded("DM", <<RtTask(3, 5, 3)>>, <<0>>,
      <<<<"dispatch", 1, 0, 3>>, <<"cycle", 1, 3, 2>>, <<"sleep", 2>>, <<"dispatch", 1, 5, 3>>,
        <<"cycle", 1, 8, 1>>, <<"sleep", 2>>, <<"dispatch", 1, 10, 3>>, <<"cycle", 1, 13, 0>>>>),
    Graded("DM", <<RtTask(7, 14, 2), RtTask(5, 10, 2)>>, <<0, 0>>,
      <<<<"dispatch", 2, 0, 5>>, <<"cycle", 2, 5, 1>>, <<"dispatch", 1, 5, 5>>,
        <<"dispatch", 2, 10, 5>>, <<"cycle", 2, 15, 0>>, <<"miss", 1, 14, "dispatch">>>>),
    Graded("DM", <<RtTask(3, 9, 2), RtTask(5, 15, 2), RtTask(3, 9, 2)>>, <<2, 0, 1>>,
      <<<<"dispatch", 2, 0, 1>>, <<"dispatch", 3, 1, 1>>, <<"dispatch", 1, 2, 3>>,
        <<"cycle", 1, 5, 1>>, <<"dispatch", 3, 5, 2>>, <<"cycle", 3, 7, 1>>,
        <<"dispatch", 2, 7, 3>>, <<"dispatch", 3, 10, 1>>, <<"dispatch", 1, 11, 3>>,
        <<"cycle", 1, 14, 0>>, <<"dispatch", 3, 14, 2>>, <<"cycle", 3, 16, 0>>,
        <<"miss", 2, 15, "dispatch">>>>),
    Graded("DM", <<RtTask(1, 10, 2), RtTask(2, 10, 2), RtTask(3, 10, 2), RtTask(4, 10, 2)>>, <<3, 2, 1, 0>>,
      <<<<"dispatch", 4, 0, 1>>, <<"dispatch", 3, 1, 1>>, <<"dispatch", 2, 2, 1>>,
        <<"dispatch", 1, 3, 1>>, <<"cycle", 1, 4, 1>>, <<"dispatch", 2, 4, 1>>,
        <<"cycle", 2, 5, 1>>, <<"dispatch", 3, 5, 2>>, <<"cycle", 3, 7, 1>>,
        <<"dispatch", 4, 7, 3>>, <<"cycle", 4, 10, 1>>, <<"dispatch", 4, 10, 1>>,
        <<"dispatch", 3, 11, 1>>, <<"dispatch", 2, 12, 1>>, <<"dispatch", 1, 13, 1>>,
        <<"cycle", 1, 14, 0>>, <<"dispatch", 2, 14, 1>>, <<"cycle", 2, 15, 0>>,
        <<"dispatch", 3, 15, 2>>, <<"cycle", 3, 17, 0>>, <<"dispatch", 4, 17, 3>>,
        <<"cycle", 4, 20, 0>>>>),
    Graded("DM", <<RtTask(3, 9, 2), RtTask(5, 15, 2), RtTask(3, 9, 2)>>, <<2, 0, 1>>,
      <<<<"dispatch", 2, 0, 1>>, <<"dispatch", 3, 1, 1>>, <<"dispatch", 1, 2, 3>>,
        <<"cycle", 1, 5, 1>>, <<"dispatch", 3, 5, 2>>, <<"cycle", 3, 7, 1>>,
        <<"dispatch", 2, 7, 3>>, <<"dispatch", 3, 10, 1>>, <<"dispatch", 1, 11, 3>>,
        <<"cycle", 1, 14, 0>>, <<"dispatch", 3, 14, 2>>, <<"cycle", 3, 16, 0>>,
        <<"miss", 2, 15, "dispatch">>>>),
    Graded("EDF_CBS", <<CbsTask(7, 10, 3, 7, TRUE)>>, <<0>>,
      <<<<"dispatch", 1, 0, 7>>, <<"cycle", 1, 7, 2>>, <<"sleep", 3>>, <<"dispatch", 1, 10, 7>>,
        <<"cycle", 1, 17, 1>>, <<"sleep", 3>>, <<"dispatch", 1, 20, 7>>, <<"cycle", 1, 27, 0>>>>),
    Graded("EDF_CBS", <<CbsTask(5, 9, 2, 5, TRUE), CbsTask(4, 5, 2, 4, TRUE)>>, <<0, 3>>,
      <<<<"dispatch", 1, 0, 3>>, <<"dispatch", 2, 3, 4>>, <<"cycle", 2, 7, 1>>,
        <<"dispatch", 1, 7, 2>>, <<"cycle", 1, 9, 1>>, <<"dispatch", 2, 9, 4>>,
        <<"cycle", 2, 13, 0>>, <<"dispatch", 1, 13, 5>>, <<"cycle", 1, 18, 0>>>>),
    Graded("EDF_CBS", <<CbsTask(15, 20, 2, 15, TRUE), CbsTask(10, 15, 2, 10, FALSE)>>, <<0, 5>>,
      <<<<"dispatch", 1, 0, 15>>, <<"cycle", 1, 15, 1>>, <<"dispatch", 2, 15, 10>>,
        <<"cycle", 2, 25, 1>>, <<"dispatch", 1, 25, 15>>, <<"cycle", 1, 40, 0>>,
        <<"dispatch", 2, 40, 10>>, <<"cycle", 2, 50, 0>>>>),
    Graded("EDF_CBS", <<CbsTask(10, 20, 2, 10, TRUE), CbsTask(8, 15, 2, 8, TRUE), CbsTask(15, 20, 2, 15, FALSE)>>, <<0, 5, 12>>,
      <<<<"dispatch", 1, 0, 10>>, <<"cycle", 1, 10, 1>>, <<"dispatch", 2, 10, 8>>,
        <<"cycle", 2, 18, 1>>, <<"dispatch", 3, 18, 2>>, <<"dispatch", 2, 20, 8>>,
        <<"cycle", 2, 28, 0>>, <<"dispatch", 1, 28, 10>>, <<"cycle", 1, 38, 0>>,
        <<"dispatch", 3, 38, 13>>, <<"cycle", 3, 51, 1>>, <<"sleep", 7>>,
        <<"dispatch", 3, 58, 15>>, <<"cycle", 3, 73, 0>>>>),
    Graded("EDF_CBS", <<CbsTask(7, 22, 2, 7, TRUE), CbsTask(8, 10, 2, 5, FALSE)>>, <<0, 0>>,
      <<<<"dispatch", 2, 0, 5>>, <<"dispatch", 1, 5, 5>>, <<"dispatch", 2, 10, 3>>,
        <<"cycle", 2, 13, 1>>, <<"dispatch", 1, 13, 2>>, <<"cycle", 1, 15, 1>>, <<"sleep", 5>>,
        <<"dispatch", 2, 20, 5>>, <<"dispatch", 1, 25, 5>>, <<"dispatch", 2, 30, 3>>,
        <<"cycle", 2, 33, 0>>, <<"dispatch", 1, 33, 2>>, <<"cycle", 1, 35, 0>>>>)}

-----------------------------------------------------------------------------
Small(policy, threads, arrivals, returns, ticks) ==
    [policy |-> policy, threads |-> threads, arrivals |-> arrivals, expected |-> <<>>,
     returns |-> returns, ticks |-> ticks]

\* all programs of three small threads under the schedulers without deadlines ...
OneShot ==
    {Small(policy, <<Task(x, 0), Task(y, 0), Task(z, 0)>>, <<a, b, 0>>, FALSE, {"body"}) :
        policy \in {"DEFAULT", "HRRN"}, x, y, z \in 1..3, a, b \in 0..2}
    \cup {Small("PRIORITY_RR", <<Task(5, p), Task(x, q), Task(y, 1)>>, <<a, b, c>>, FALSE, {"body"}) :
        p, q \in 0..1, x, y \in {2, 5}, a, b, c \in {0, 1, 3}}

\* ... two or three periodic tasks with deadlines ...
Periodic ==
    {Small("DM", <<RtTask(x, 2 * x + p, 2), RtTask(y, 5, 3), RtTask(1, 4 + q, 2)>>, <<a, b, 0>>, FALSE, {"body"}) :
        x, y \in 1..2, p, q \in 0..1, a, b \in 0..2}
    \cup {Small("EDF_CBS", <<CbsTask(2, 5, 2, d, h), CbsTask(x, x + p, 2, x, TRUE),
                             CbsTask(y, 4, 3, y, TRUE)>>, <<b, a, 0>>, FALSE, {"body"}) :
        x, y, p, d \in 1..2, h \in BOOLEAN, a, b \in 0..2}

\* ... every pair of hard tasks with periods of up to 4 ...
HardPairs ==
    LET tasks == {t \in (1..4) \X (2..4) : t[1] <= t[2]}
    IN {Small("DM", <<RtTask(t[1], t[2], 2), RtTask(u[1], u[2], 3)>>, <<a, 0>>, FALSE, {"body"}) :
           t, u \in tasks, a \in 0..1}
       \cup {Small("EDF_CBS", <<CbsTask(t[1], t[2], 2, t[1], TRUE), CbsTask(u[1], u[2], 3, u[1], TRUE)>>,
                   <<a, 0>>, FALSE, {"body"}) : t, u \in tasks, a \in 0..1}

\* ... threads that may return at any moment, and ticks that fall into __dispatch()
Racy ==
    UNION {{Small("DEFAULT", <<Task(2, 0), Task(1, 0)>>, <<1, 0>>, r.returns, r.ticks),
            Small("PRIORITY_RR", <<Task(3, 0), Task(3, 0)>>, <<0, 0>>, r.returns, r.ticks),
            Small("DM", <<RtTask(2, 6, 2), RtTask(1, 3, 2)>>, <<0, 1>>, r.returns, r.ticks),
            Small("EDF_CBS", <<CbsTask(2, 6, 2, 2, TRUE), CbsTask(2, 4, 2, 1, FALSE)>>, <<0, 1>>,
                  r.returns, r.ticks)} :
        r \in {[returns |-> TRUE, ticks |-> {"body"}],
               [returns |-> FALSE, ticks |-> {"body", "dispatch"}]}}

\* ... three threads whose ticks may fall into the cancelthrdstop() of one that returns ...
ExitTicks ==
    UNION {{Small("DEFAULT", <<Task(2, 0), Task(1, 0), Task(1, 0)>>, <<1, 0, 0>>, TRUE, ticks),
            Small("PRIORITY_RR", <<Task(3, 0), Task(3, 0), Task(2, 0)>>, <<0, 0, a>>, TRUE, ticks),
            Small("DM", <<RtTask(2, 7, 2), RtTask(1, 4, 2), RtTask(1, 7, 1)>>, <<0, 1, a>>, TRUE, ticks),
            Small("EDF_CBS", <<CbsTask(2, 6, 2, 2, TRUE), CbsTask(2, 5, 2, 1, FALSE), CbsTask(1, 6, 1, 1, TRUE)>>,
                  <<0, 1, a>>, TRUE, ticks)} :
        a \in 0..1, ticks \in {{"body", "exit"}, {"body", "exit", "dispatch"}}}

\* ... overload under EDF with a soft thread of least ID, which may hide a miss ...
Overload ==
    {Small("EDF_CBS", <<CbsTask(x, p, 2, d, FALSE), CbsTask(y, q, 2, y, TRUE), CbsTask(2, r, 2, 2, TRUE)>>,
           <<a, b, 0>>, returns, {"body"}) :
        x, d, y \in 1..2, p \in 2..4, q, r \in 3..5, a, b \in 0..1, returns \in BOOLEAN}

\* ... and one more thread than there are contexts left, though one lives at a time:
\* a thread that ends in switch_handler keeps its context
TooMany == {Small("DEFAULT", [t \in 1..MaxThrdNum |-> Task(1, 0)], [t \in 1..MaxThrdNum |-> 2 * t],
                  returns, {"body"}) : returns \in BOOLEAN}

AllPrograms == TooMany \cup GradedPrograms \cup OneShot \cup Periodic \cup HardPairs \cup Racy \cup ExitTicks \cup Overload
=============================================================================
