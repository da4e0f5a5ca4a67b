------------------------------- MODULE Lottery -------------------------------
(***************************************************************************)
(* Lottery scheduler of BSYS (src/Sem3/BSYS/09_Lottery/lottery.py, and the *)
(* same program for Python 3, lottery-1.py).  One step is one draw.        *)
(***************************************************************************)
EXTENDS Integers, Sequences, FiniteSets, SequencesExt, FiniteSetsExt

CONSTANTS
    LotJobs,       \* bound: number of jobs
    LotRuntimes,   \* job lengths that are tried (0 only comes from -l)
    LotTickets,    \* ticket values that are tried (0 only comes from -l)
    LotQuanta      \* values of -q that are tried

ASSUME LotteryAssumption == /\ LotJobs \in Nat \ {0}
                            /\ LotRuntimes \subseteq Nat
                            /\ LotTickets \subseteq Nat
                            /\ LotQuanta \subseteq Nat \ {0}

VARIABLES
    lotQuantum,
    lotList0,      \* history: the job list the program was started with
    lotList,       \* joblist: sequence of [run, tix], job number = index - 1
    tickTotal,
    lotLeft,       \* jobs: how many are not done
    lotClock,
    lotDraws,      \* iterations of "for i in range(runTotal)" that are left
    lotPc          \* "run", "end" (loop over), "error" (ZeroDivisionError)

lotVars == <<lotQuantum, lotList0, lotList, tickTotal, lotLeft, lotClock,
             lotDraws, lotPc>>

TicketSum(list) == MapThenSumSet(LAMBDA i : list[i].tix, 1 .. Len(list))
RunSum(list)    == MapThenSumSet(LAMBDA i : list[i].run, 1 .. Len(list))

LotInit ==
    /\ lotQuantum \in LotQuanta
    /\ lotList0 \in [1 .. LotJobs -> [run: LotRuntimes, tix: LotTickets]]
    /\ lotList = lotList0
    /\ tickTotal = TicketSum(lotList)
    /\ lotDraws = RunSum(lotList)
    /\ lotLeft = LotJobs /\ lotClock = 0 /\ lotPc = "run"

\* the first job at which the running sum of tickets exceeds the winner
Winner(list, winner) ==
    SelectInSeq([i \in 1 .. Len(list) |-> TicketSum(SubSeq(list, 1, i))],
                LAMBDA current : current > winner)

\* wtix: the tickets of a job that is done are withdrawn
TicketsAfter(job, run) == IF run = 0 THEN 0 ELSE job.tix

\* wrun after one turn
Rest(run) == IF run >= lotQuantum THEN run - lotQuantum ELSE 0

\* one iteration: the draw, the accounting, the update of the job list
Draw ==
    /\ lotPc = "run" /\ lotDraws > 0 /\ tickTotal > 0
    /\ \E winner \in 0 .. tickTotal - 1 :
          LET w    == Winner(lotList, winner)
              job  == lotList[w]
              wrun == Rest(job.run)
          IN  /\ lotList' = [lotList EXCEPT ![w] =
                               [run |-> wrun, tix |-> TicketsAfter(job, wrun)]]
              /\ tickTotal' = IF wrun = 0 THEN tickTotal - job.tix ELSE tickTotal
              /\ lotLeft' = IF wrun = 0 THEN lotLeft - 1 ELSE lotLeft
              /\ lotClock' = lotClock + lotQuantum
              /\ lotDraws' = lotDraws - 1
              /\ lotPc' = IF lotLeft' = 0 THEN "end" ELSE "run"
    /\ UNCHANGED <<lotQuantum, lotList0>>

\* r % tickTotal with no ticket left in the hat
DrawEmptyHat ==
    /\ lotPc = "run" /\ lotDraws > 0 /\ tickTotal = 0
    /\ lotPc' = "error"
    /\ UNCHANGED <<lotQuantum, lotList0, lotList, tickTotal, lotLeft, lotClock, lotDraws>>

\* all runTotal draws are used up
DrawsOver ==
    /\ lotPc = "run" /\ lotDraws = 0
    /\ lotPc' = "end"
    /\ UNCHANGED <<lotQuantum, lotList0, lotList, tickTotal, lotLeft, lotClock, lotDraws>>

LotNext == Draw \/ DrawEmptyHat \/ DrawsOver
-----------------------------------------------------------------------------
(* The hat is right: tickTotal is the sum of the tickets in the job list,  *)
(* a job that has run to its end holds none, so it never wins again and is *)
(* counted as done once, and the jobs left are the ones with time left.    *)
LotHatRight ==
    /\ tickTotal = TicketSum(lotList)
    /\ \A i \in 1 .. LotJobs : lotList[i].run = 0 /\ lotList0[i].run > 0
                               => lotList[i].tix = 0
    /\ (\A i \in 1 .. LotJobs : lotList0[i].run > 0) =>
          lotLeft = Cardinality({i \in 1 .. LotJobs : lotList[i].run > 0})

(* "the random numbers you will need (at most)": runTotal draws are enough *)
(* to finish every job, and the draw never divides by zero, as long as all *)
(* jobs have a length and a ticket.                                        *)
LotEnoughDraws ==
    (\A i \in 1 .. LotJobs : lotList0[i].run > 0 /\ lotList0[i].tix > 0) =>
        /\ lotPc # "error"
        /\ lotPc = "end" => lotLeft = 0
=============================================================================
