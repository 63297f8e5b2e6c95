--------------------------- MODULE StreamRelayProofs ---------------------------
(***************************************************************************)
(* Proofs that no end of a stream is passed on before what was written to  *)
(* it, for chains of any length, pipes of any size and any amount of data. *)
(*                                                                         *)
(* Nothing is lost in a pipe, but for what a client takes with its answer, *)
(* so there are counts of what has come past each point of the chain; they *)
(* are not in the model, and the invariants say that some exist.  The rest *)
(* follows from what the counts are where a stream was ended or a reader   *)
(* left: all that was sent, unless the other end is why.                   *)
(***************************************************************************)
EXTENDS StreamRelay, SequenceTheorems, TLAPS

(* TypeOK, but for the bound on what arrives.                                *)
Typed ==
  /\ chain \in Chains
  /\ up \in [0..Hops -> Pipe] /\ down \in [0..Hops -> Pipe]
  /\ copier \in [1..Hops -> SUBSET {"up", "down"}]
  /\ hop \in [1..Hops -> {"asking", "copying", "waiting", "returned"}]
  /\ command \in BOOLEAN
  /\ sent \in [Ends -> 0..MaxSend] /\ got \in [Ends -> Nat] /\ missed \in Nat

Gone(h) == hop[h] \notin {"asking", "copying"}

LEMMA HopsType == ASSUME Typed PROVE Hops \in Nat /\ Hops >= 1
<1>1. chain \in Seq({"attach", "relay", "server"} \cup Clients) /\ chain # <<>>
  BY ChainsAssumption DEF Typed
<1> QED BY <1>1, EmptySeq DEF Hops

LEMMA TypedInit == Init => Typed
<1> SUFFICES ASSUME Init PROVE Typed OBVIOUS
<1>1. chain \in Seq({"attach", "relay", "server"} \cup Clients) /\ chain # <<>>
  BY ChainsAssumption DEF Init
<1>2. Hops \in Nat BY <1>1 DEF Hops
<1> QED BY <1>2, BoundsAssumption DEF Init, Typed, Pipe, Ends

(* The operations on pipes keep them pipes.                                  *)
LEMMA PipeOps ==
  ASSUME NEW p \in Pipe
  PROVE  /\ Finish(p) \in Pipe /\ Break(p) \in Pipe
         /\ p.n > 0 => Take(p) \in Pipe
         /\ Room(p) => Put(p) \in Pipe
<1>1. Finish(p) \in Pipe /\ Break(p) \in Pipe
  BY DEF Pipe, Finish, Break
<1>2. ASSUME p.n > 0 PROVE Take(p) \in Pipe
  BY <1>2, BoundsAssumption DEF Pipe, Take
<1>3. ASSUME Room(p) PROVE Put(p) \in Pipe
  <2>1. p.n + 1 \in 0..Cap
    BY <1>3, BoundsAssumption DEF Room, Pipe
  <2> QED BY <2>1 DEF Pipe, Put
<1> QED BY <1>1, <1>2, <1>3

(* What they do to their fields.                                             *)
LEMMA PipeFields ==
  ASSUME NEW p \in Pipe
  PROVE  /\ Finish(p).n = p.n /\ Finish(p).eof /\ Finish(p).broken = p.broken
         /\ Break(p).n = p.n /\ Break(p).eof = p.eof /\ Break(p).broken
         /\ Take(p).n = p.n - 1 /\ Take(p).eof = p.eof /\ Take(p).broken = p.broken
         /\ Put(p).n = p.n + 1 /\ Put(p).eof = p.eof /\ Put(p).broken = p.broken
         /\ p.n \in Nat /\ p.eof \in BOOLEAN /\ p.broken \in BOOLEAN
BY BoundsAssumption DEF Pipe, Finish, Break, Take, Put

LEMMA PipeDrop ==
  ASSUME NEW p \in Pipe, NEW k \in 0..p.n
  PROVE  [p EXCEPT !.n = p.n - k] \in Pipe
<1>1. p.n \in 0..Cap BY DEF Pipe
<1>2. p.n - k \in 0..Cap BY <1>1, BoundsAssumption
<1> QED BY <1>2 DEF Pipe

LEMMA TypedNext == Typed /\ [Next]_vars => Typed'
<1> SUFFICES ASSUME Typed, [Next]_vars PROVE Typed'
  OBVIOUS
<1>h. Hops \in Nat /\ Hops >= 1 BY HopsType
<1>c. chain' = chain => Hops' = Hops BY DEF Hops
<1>p. \A i \in 0..Hops : up[i] \in Pipe /\ down[i] \in Pipe BY DEF Typed
<1>n. \A h \in 1..Hops : h \in 0..Hops /\ h - 1 \in 0..Hops BY <1>h
<1> USE <1>h, <1>c, <1>p, PipeOps DEF Typed
<1>1. CASE UserTypes
  BY <1>1, BoundsAssumption DEF UserTypes, Ends
<1>2. CASE UserHangsUp
  BY <1>2 DEF UserHangsUp
<1>3. CASE UserReads
  BY <1>3 DEF UserReads, Ends
<1>4. CASE CommandWrites
  BY <1>4, BoundsAssumption DEF CommandWrites, Ends
<1>5. CASE CommandReads
  BY <1>5 DEF CommandReads, Ends
<1>6. CASE CommandEnds
  BY <1>6 DEF CommandEnds
<1>7. ASSUME NEW h \in 1..Hops, HopStep(h) PROVE Typed'
  <2>1. h \in 0..Hops /\ h - 1 \in 0..Hops BY <1>n
  <2>2. CASE CopyUp(h) BY <2>1, <2>2 DEF CopyUp
  <2>3. CASE CopyDown(h) BY <2>1, <2>3 DEF CopyDown
  <2>4. CASE EndUp(h) BY <2>1, <2>4 DEF EndUp
  <2>5. CASE EndDown(h) BY <2>1, <2>5 DEF EndDown
  <2>6. CASE Returns(h) BY <2>1, <2>6 DEF Returns
  <2>7. CASE WaitReturns(h) BY <2>1, <2>7 DEF WaitReturns
  <2>8. CASE ReadAnswer(h)
    <3>1. PICK k \in 0..(IF chain[h] = "plain" THEN down[h].n ELSE 0) :
            /\ down' = [down EXCEPT ![h].n = @ - k] /\ missed' = missed + k
      BY <2>8 DEF ReadAnswer
    <3>n. down[h] \in Pipe /\ down[h].n \in Nat
      BY <2>1, PipeFields
    <3>2. k \in 0..down[h].n /\ k \in Nat
      BY <3>1, <3>n
    <3>3. [down[h] EXCEPT !.n = down[h].n - k] \in Pipe
      BY <3>2, <3>n, PipeDrop
    <3>4. down' = [down EXCEPT ![h] = [down[h] EXCEPT !.n = down[h].n - k]]
      BY <3>1
    <3>5. down' \in [0..Hops -> Pipe]
      BY <2>1, <3>3, <3>4
    <3>6. hop' \in [1..Hops -> {"asking", "copying", "waiting", "returned"}]
      BY <2>8 DEF ReadAnswer
    <3> QED BY <2>8, <3>1, <3>2, <3>5, <3>6 DEF ReadAnswer
  <2> QED BY <1>7, <2>2, <2>3, <2>4, <2>5, <2>6, <2>7, <2>8 DEF HopStep
<1>8. CASE UNCHANGED vars BY <1>8 DEF vars
<1> QED BY <1>1, <1>2, <1>3, <1>4, <1>5, <1>6, <1>7, <1>8 DEF Next

(* What a step of a hop does to each pipe.                                   *)
LEMMA HopPipes ==
  ASSUME Typed, NEW h \in 1..Hops, NEW i \in 0..Hops
  PROVE  /\ CopyUp(h) => up'[i] = IF i = h - 1 THEN Take(up[i])
                                  ELSE IF i = h THEN Put(up[i]) ELSE up[i]
         /\ CopyDown(h) => down'[i] = IF i = h THEN Take(down[i])
                                      ELSE IF i = h - 1 THEN Put(down[i]) ELSE down[i]
         /\ EndUp(h) => up'[i] = IF chain[h] \in Clients /\ i = h THEN Finish(up[i]) ELSE up[i]
         /\ EndDown(h) => down'[i] = IF chain[h] = "server" /\ i = h - 1
                                     THEN Finish(down[i]) ELSE down[i]
         /\ Returns(h) =>
              /\ up'[i] = IF i = h - 1 THEN Break(up[i])
                          ELSE IF i = h THEN Finish(up[i]) ELSE up[i]
              /\ down'[i] = IF i = h - 1 THEN Finish(down[i])
                            ELSE IF i = h /\ chain[h] # "server" THEN Break(down[i])
                            ELSE down[i]
         /\ WaitReturns(h) => down'[i] = IF i = h THEN Break(down[i]) ELSE down[i]
<1>h. Hops \in Nat /\ h \in 0..Hops /\ h - 1 \in 0..Hops /\ h # h - 1
  BY HopsType
<1>t. DOMAIN up = 0..Hops /\ DOMAIN down = 0..Hops
  BY DEF Typed
<1>1. CopyUp(h) => up'[i] = IF i = h - 1 THEN Take(up[i])
                            ELSE IF i = h THEN Put(up[i]) ELSE up[i]
  BY <1>h, <1>t DEF CopyUp
<1>2. CopyDown(h) => down'[i] = IF i = h THEN Take(down[i])
                                ELSE IF i = h - 1 THEN Put(down[i]) ELSE down[i]
  BY <1>h, <1>t DEF CopyDown
<1>3. EndUp(h) => up'[i] = IF chain[h] \in Clients /\ i = h THEN Finish(up[i]) ELSE up[i]
  BY <1>h, <1>t DEF EndUp
<1>4. EndDown(h) => down'[i] = IF chain[h] = "server" /\ i = h - 1
                               THEN Finish(down[i]) ELSE down[i]
  BY <1>h, <1>t DEF EndDown
<1>5. Returns(h) => up'[i] = IF i = h - 1 THEN Break(up[i])
                             ELSE IF i = h THEN Finish(up[i]) ELSE up[i]
  BY <1>h, <1>t DEF Returns
<1>6. Returns(h) => down'[i] = IF i = h - 1 THEN Finish(down[i])
                               ELSE IF i = h /\ chain[h] # "server" THEN Break(down[i])
                               ELSE down[i]
  BY <1>h, <1>t DEF Returns
<1>7. WaitReturns(h) => down'[i] = IF i = h THEN Break(down[i]) ELSE down[i]
  BY <1>h, <1>t DEF WaitReturns
<1> QED BY <1>1, <1>2, <1>3, <1>4, <1>5, <1>6, <1>7

(* The client that takes output with its answer is the first hop, and is     *)
(* asked over plain TCP.                                                     *)
LEMMA Answered ==
  ASSUME Typed, NEW h \in 1..Hops, ReadAnswer(h)
  PROVE  \E k \in Nat :
           /\ k <= down[h].n /\ missed' = missed + k
           /\ k # 0 => h = 1 /\ chain[1] = "plain"
           /\ \A i \in 0..Hops :
                /\ down'[i].n = IF i = h THEN down[i].n - k ELSE down[i].n
                /\ down'[i].eof = down[i].eof /\ down'[i].broken = down[i].broken
<1>h. Hops \in Nat /\ h \in 0..Hops BY HopsType
<1>1. PICK k \in 0..(IF chain[h] = "plain" THEN down[h].n ELSE 0) :
        /\ down' = [down EXCEPT ![h].n = @ - k] /\ missed' = missed + k
  BY DEF ReadAnswer
<1>2. down[h] \in Pipe /\ down[h].n \in Nat
  BY <1>h, PipeFields DEF Typed
<1>3. k \in Nat /\ k <= down[h].n /\ (k # 0 => chain[h] = "plain")
  BY <1>1, <1>2
<1>4. chain[h] = "plain" => h = 1
  BY ChainsAssumption DEF Typed, Hops, Clients
<1>5. \A i \in 0..Hops :
        /\ down'[i].n = IF i = h THEN down[i].n - k ELSE down[i].n
        /\ down'[i].eof = down[i].eof /\ down'[i].broken = down[i].broken
  BY <1>h, <1>1, <1>2 DEF Typed, Pipe
<1> QED BY <1>1, <1>3, <1>4, <1>5

-----------------------------------------------------------------------------
(* The input.                                                                *)

(* f[0] was written by the user, f[i] was put into pipe up[i], and the last  *)
(* was read by the command.                                                  *)
InputFlow(f) ==
  /\ f \in [0..(Hops + 1) -> Nat]
  /\ f[0] = sent["user"] /\ f[Hops + 1] = got["command"]
  /\ \A i \in 0..Hops : up[i].n = f[i] - f[i + 1]
  /\ \A i \in 0..(Hops + 1) : f[i] <= f[0]

(* The user has closed the input, and all of it has come to point i.         *)
AllIn(f, i) == up[0].eof /\ f[i] = f[0]

(* While the command runs, wherever the input was ended, or given up, that   *)
(* was at its end; where the end of the output was passed on, too.           *)
InputEnds(f) ==
  /\ \A i \in 0..Hops : up[i].eof => AllIn(f, i)
  /\ \A i \in 0..Hops : up[i].broken => AllIn(f, i + 1)
  /\ \A h \in 1..Hops :
       "up" \notin copier[h] \/ (chain[h] = "attach" /\ "down" \notin copier[h])
         => AllIn(f, h)
  /\ \A i \in 0..Hops :
       down[i].eof /\ ~down[i].broken => i < Hops /\ AllIn(f, i + 1)

(* The output is given up only by hops that have returned.                   *)
OutputKept ==
  \A i \in 0..Hops : down[i].broken => i >= 1 /\ Gone(i)

InputInv(f) == InputFlow(f) /\ (command => InputEnds(f))

LEMMA InputInit == Init => (\E f : InputInv(f)) /\ OutputKept
<1> SUFFICES ASSUME Init PROVE (\E f : InputInv(f)) /\ OutputKept
  OBVIOUS
<1>h. Typed /\ Hops \in Nat /\ Hops >= 1 BY TypedInit, HopsType
<1> DEFINE f == [i \in 0..(Hops + 1) |-> 0]
<1>1. \A i \in 0..Hops : i \in 0..(Hops + 1) /\ i + 1 \in 0..(Hops + 1)
  BY <1>h
<1>2. InputFlow(f)
  BY <1>h, <1>1 DEF InputFlow, Init, Ends
<1>3. InputEnds(f)
  BY <1>h DEF InputEnds, Init
<1> QED BY <1>2, <1>3 DEF InputInv, OutputKept, Init

(* The counts stay when nothing moves.                                       *)
LEMMA InputStill ==
  ASSUME NEW f, InputFlow(f), Hops' = Hops,
         sent'["user"] = sent["user"], got'["command"] = got["command"],
         \A i \in 0..Hops : up'[i].n = up[i].n
  PROVE  InputFlow(f)'
BY DEF InputFlow

(* A unit that comes past k changes one count.  It does not come past a      *)
(* point that all of the input has passed.                                   *)
LEMMA InputMoves ==
  ASSUME NEW f, InputFlow(f), Typed, Hops' = Hops, NEW k \in 1..(Hops + 1),
         up[k - 1].n > 0,
         \A i \in 0..Hops : up'[i].n = IF i = k - 1 THEN up[i].n - 1
                                       ELSE IF i = k THEN up[i].n + 1 ELSE up[i].n,
         sent'["user"] = sent["user"],
         got'["command"] = IF k = Hops + 1 THEN got["command"] + 1 ELSE got["command"],
         up'[0].eof = up[0].eof,
         NEW g, g = [f EXCEPT ![k] = @ + 1]
  PROVE  /\ InputFlow(g)'
         /\ \A i \in 0..(Hops + 1) : AllIn(f, i) => AllIn(g, i)'
<1>h. Hops \in Nat /\ Hops >= 1 BY HopsType
<1>1. /\ k - 1 \in 0..Hops /\ k \in 0..(Hops + 1) /\ k # 0 /\ k - 1 \in 0..(Hops + 1)
      /\ 0 \in 0..(Hops + 1) /\ (k - 1) + 1 = k
  BY <1>h
<1>f. f \in [0..(Hops + 1) -> Nat]
  BY DEF InputFlow
<1>2. up[k - 1].n = f[k - 1] - f[k] /\ f[k - 1] <= f[0]
  <2>1. up[k - 1].n = f[k - 1] - f[(k - 1) + 1]
    BY <1>1 DEF InputFlow
  <2>2. f[k - 1] <= f[0]
    BY <1>1 DEF InputFlow
  <2> QED BY <2>1, <2>2, <1>1
<1>3. /\ f \in [0..(Hops + 1) -> Nat] /\ g \in [0..(Hops + 1) -> Nat]
      /\ f[0] \in Nat /\ f[k] \in Nat /\ f[k - 1] \in Nat
  BY <1>1, <1>f
<1>4. f[k] < f[0]
  BY <1>2, <1>3, <1>1
<1>5. g[0] = f[0] /\ g[k] = f[k] + 1 /\ \A i \in 0..(Hops + 1) : i # k => g[i] = f[i]
  BY <1>1, <1>3, <1>h
<1>6. \A i \in 0..Hops : up'[i].n = g[i] - g[i + 1]
  <2> SUFFICES ASSUME NEW i \in 0..Hops PROVE up'[i].n = g[i] - g[i + 1]
    OBVIOUS
  <2>1. i \in 0..(Hops + 1) /\ i + 1 \in 0..(Hops + 1) /\ f[i] \in Nat /\ f[i + 1] \in Nat
    BY <1>3, <1>h
  <2>2. up[i].n = f[i] - f[i + 1] BY DEF InputFlow
  <2>3. CASE i = k - 1
    BY <2>1, <2>2, <2>3, <1>5, <1>1
  <2>4. CASE i = k
    BY <2>1, <2>2, <2>4, <1>5, <1>1
  <2>5. CASE i # k /\ i + 1 # k
    BY <2>1, <2>2, <2>5, <1>5
  <2> QED BY <2>1, <2>3, <2>4, <2>5, <1>h
<1>7. \A i \in 0..(Hops + 1) : g[i] <= g[0]
  BY <1>3, <1>4, <1>5 DEF InputFlow
<1>8. g[Hops + 1] = got'["command"]
  BY <1>3, <1>5, <1>h DEF InputFlow
<1>9. g[0] = sent'["user"]
  BY <1>5 DEF InputFlow
<1>10. \A i \in 0..(Hops + 1) : AllIn(f, i) => AllIn(g, i)'
  BY <1>4, <1>5, <1>3, <1>1 DEF AllIn
<1> QED BY <1>3, <1>6, <1>7, <1>8, <1>9, <1>10 DEF InputFlow

(* What was ended or given up before stays justified.                        *)
LEMMA EndsKept ==
  ASSUME NEW f, NEW g, Typed, InputEnds(f), Hops' = Hops, chain' = chain,
         \A i \in 0..(Hops + 1) : AllIn(f, i) => AllIn(g, i)',
         \A i \in 0..Hops : up'[i].eof => up[i].eof \/ AllIn(g, i)',
         \A i \in 0..Hops : up'[i].broken => up[i].broken \/ AllIn(g, i + 1)',
         \A h \in 1..Hops :
           \/ copier'[h] = copier[h] \/ AllIn(g, h)'
           \/ chain[h] # "attach" /\ ("up" \in copier'[h] \/ "up" \notin copier[h]),
         \A i \in 0..Hops : down'[i].eof /\ ~down'[i].broken =>
           (down[i].eof /\ ~down[i].broken) \/ (i < Hops /\ AllIn(g, i + 1)')
  PROVE  InputEnds(g)'
<1>h. Hops \in Nat /\ \A i \in 0..Hops : i \in 0..(Hops + 1) /\ i + 1 \in 0..(Hops + 1)
  BY HopsType
<1>1. ASSUME NEW i \in 0..Hops, up'[i].eof PROVE AllIn(g, i)'
  BY <1>h, <1>1 DEF InputEnds
<1>2. ASSUME NEW i \in 0..Hops, up'[i].broken PROVE AllIn(g, i + 1)'
  BY <1>h, <1>2 DEF InputEnds
<1>3. ASSUME NEW h \in 1..Hops,
             "up" \notin copier'[h] \/ (chain'[h] = "attach" /\ "down" \notin copier'[h])
      PROVE  AllIn(g, h)'
  <2>1. h \in 0..(Hops + 1) BY <1>h
  <2> QED BY <1>3, <2>1 DEF InputEnds
<1>4. ASSUME NEW i \in 0..Hops, down'[i].eof, ~down'[i].broken
      PROVE  i < Hops /\ AllIn(g, i + 1)'
  BY <1>h, <1>4 DEF InputEnds
<1> QED BY <1>1, <1>2, <1>3, <1>4 DEF InputEnds

(* The output is not given up by a hop that copies.                          *)
LEMMA KeptNext == Typed /\ OutputKept /\ [Next]_vars => OutputKept'
<1> SUFFICES ASSUME Typed, OutputKept, [Next]_vars PROVE OutputKept'
  OBVIOUS
<1>h. Hops \in Nat /\ Hops >= 1 /\ (chain' = chain => Hops' = Hops)
  BY HopsType DEF Hops
<1>p. \A i \in 0..Hops : up[i] \in Pipe /\ down[i] \in Pipe BY DEF Typed
<1> USE <1>h DEF OutputKept, Gone
<1>1. CASE UserTypes \/ UserHangsUp \/ CommandReads \/ UNCHANGED vars
  BY <1>1 DEF UserTypes, UserHangsUp, CommandReads, vars
<1>2. CASE UserReads \/ CommandWrites \/ CommandEnds
  BY <1>2, <1>p, PipeFields DEF UserReads, CommandWrites, CommandEnds, Typed
<1>3. ASSUME NEW h \in 1..Hops, HopStep(h) PROVE OutputKept'
  <2>1. h \in 0..Hops /\ h - 1 \in 0..Hops BY <1>h
  <2>2. CASE CopyUp(h) \/ EndUp(h)
    <3>1. chain' = chain /\ hop' = hop /\ down' = down
      BY <2>2 DEF CopyUp, EndUp
    <3> QED BY <3>1
  <2>3. CASE CopyDown(h)
    <3>1. \A i \in 0..Hops : down'[i].broken = down[i].broken
      BY <2>1, <2>3, <1>p, PipeFields, HopPipes
    <3> QED BY <2>3, <3>1 DEF CopyDown
  <2>4. CASE EndDown(h) BY <2>1, <2>4, <1>p, PipeFields, HopPipes DEF EndDown, Typed
  <2>5. CASE Returns(h)
    <3> SUFFICES ASSUME NEW i \in 0..Hops, down'[i].broken
                 PROVE  i >= 1 /\ Gone(i)'
      BY <2>5 DEF Returns
    <3>1. hop' = [hop EXCEPT ![h] = hop'[h]] /\ hop'[h] \notin {"asking", "copying"}
      BY <2>5 DEF Returns, Typed
    <3>2. down[i].broken \/ i = h
      BY <2>5, <1>p, PipeFields, HopPipes
    <3> QED BY <3>1, <3>2 DEF Typed
  <2>6. CASE WaitReturns(h) BY <2>1, <2>6, <1>p, PipeFields, HopPipes DEF WaitReturns, Typed
  <2>7. CASE ReadAnswer(h)
    <3>1. hop' = [hop EXCEPT ![h] = "copying"] /\ hop[h] = "asking"
      BY <2>7 DEF ReadAnswer
    <3>2. \A i \in 0..Hops : down'[i].broken = down[i].broken
      BY <2>7, Answered
    <3> QED BY <3>1, <3>2, <2>7 DEF ReadAnswer, Typed
  <2> QED BY <1>3, <2>2, <2>3, <2>4, <2>5, <2>6, <2>7 DEF HopStep
<1> QED BY <1>1, <1>2, <1>3 DEF Next

(* What has come past a point has come past the one before it.               *)
LEMMA AllInBack ==
  ASSUME NEW f, InputFlow(f), Typed, NEW i \in 0..Hops
  PROVE  /\ AllIn(f, i + 1) => AllIn(f, i) /\ up[i].n = 0
         /\ AllIn(f, i) /\ up[i].n = 0 => AllIn(f, i + 1)
<1>1. Hops \in Nat /\ i \in 0..(Hops + 1) /\ i + 1 \in 0..(Hops + 1) /\ 0 \in 0..(Hops + 1)
  BY HopsType
<1>2. f[i] \in Nat /\ f[i + 1] \in Nat /\ f[0] \in Nat /\ f[i] <= f[0]
  BY <1>1 DEF InputFlow
<1>3. up[i].n = f[i] - f[i + 1] /\ up[i] \in Pipe
  BY DEF InputFlow, Typed
<1>4. up[i].n \in Nat
  BY <1>3, PipeFields
<1> QED BY <1>2, <1>3, <1>4 DEF AllIn

(* Why a direction of a hop ends while the command runs.                     *)
LEMMA UpEnds ==
  ASSUME NEW f, InputFlow(f), InputEnds(f), Typed, NEW h \in 1..Hops, EndUp(h)
  PROVE  AllIn(f, h)
<1>1. Hops \in Nat /\ h - 1 \in 0..Hops /\ h \in 0..Hops /\ (h - 1) + 1 = h
  BY HopsType
<1>2. CASE Drained(up[h - 1])
  BY <1>1, <1>2, AllInBack DEF Drained, InputEnds
<1>3. CASE up[h - 1].n > 0 /\ up[h].broken
  <2>1. AllIn(f, h + 1) BY <1>1, <1>3 DEF InputEnds
  <2>2. AllIn(f, h) BY <1>1, <2>1, AllInBack
  <2> QED BY <1>1, <2>2
<1> QED BY <1>2, <1>3 DEF EndUp

LEMMA DownEnds ==
  ASSUME NEW f, InputFlow(f), InputEnds(f), OutputKept, Typed, NEW h \in 1..Hops,
         EndDown(h), ~down[h - 1].broken
  PROVE  AllIn(f, h)
<1>1. Hops \in Nat /\ h \in 0..Hops
  BY HopsType
<1>2. down[h].eof /\ hop[h] = "copying"
  BY DEF EndDown, Drained
<1>3. ~down[h].broken
  BY <1>1, <1>2 DEF OutputKept, Gone
<1>4. AllIn(f, h + 1)
  BY <1>1, <1>2, <1>3 DEF InputEnds
<1> QED BY <1>1, <1>4, AllInBack

LEMMA HopEnds ==
  ASSUME NEW f, InputEnds(f), Typed, NEW h \in 1..Hops, Returns(h)
  PROVE  AllIn(f, h)
<1>1. "up" \notin copier[h] \/ (chain[h] = "attach" /\ "down" \notin copier[h])
  BY DEF Returns, Typed
<1> QED BY <1>1 DEF InputEnds

LEMMA InputNext ==
  Typed /\ OutputKept /\ (\E f : InputInv(f)) /\ [Next]_vars => (\E f : InputInv(f))'
<1> SUFFICES ASSUME Typed, OutputKept, NEW f, InputInv(f), [Next]_vars
             PROVE  \E g : InputInv(g)'
  OBVIOUS
<1>f. InputFlow(f) /\ (command => InputEnds(f))
  BY DEF InputInv
<1>h. Hops \in Nat /\ Hops >= 1 /\ (chain' = chain => Hops' = Hops)
  BY HopsType DEF Hops
<1>p. \A i \in 0..Hops : up[i] \in Pipe /\ down[i] \in Pipe
  BY DEF Typed
<1>i. \A i \in 0..Hops : i \in 0..(Hops + 1) /\ i + 1 \in 0..(Hops + 1)
  BY <1>h
<1>1. CASE UserTypes
  <2> DEFINE g == [f EXCEPT ![0] = @ + 1]
  <2>1. chain' = chain /\ Hops' = Hops /\ ~up[0].eof
    BY <1>1, <1>h DEF UserTypes, Room
  <2>2. /\ up'[0].n = up[0].n + 1 /\ ~up'[0].eof
        /\ \A i \in 0..Hops : /\ i # 0 => up'[i] = up[i]
                              /\ up'[i].eof = up[i].eof /\ up'[i].broken = up[i].broken
    <3>1. 0 \in 0..Hops /\ \A i \in 0..Hops : up'[i] = IF i = 0 THEN Put(up[i]) ELSE up[i]
      BY <1>1, <1>h DEF UserTypes, Typed
    <3>2. ~up[0].eof BY <2>1
    <3> QED BY <3>1, <3>2, <1>p, PipeFields
  <2>3. /\ f \in [0..(Hops + 1) -> Nat] /\ 0 \in 0..(Hops + 1)
        /\ g \in [0..(Hops + 1) -> Nat] /\ g[0] = f[0] + 1
        /\ \A i \in 0..(Hops + 1) : i # 0 => g[i] = f[i]
    BY <1>f, <1>h DEF InputFlow
  <2>4. \A i \in 0..Hops : up'[i].n = g[i] - g[i + 1]
    <3> SUFFICES ASSUME NEW i \in 0..Hops PROVE up'[i].n = g[i] - g[i + 1]
      OBVIOUS
    <3>1. up[i].n = f[i] - f[i + 1] /\ i + 1 # 0
      BY <1>f, <1>h DEF InputFlow
    <3>2. f[i] \in Nat /\ f[i + 1] \in Nat /\ g[i + 1] = f[i + 1]
      BY <2>3, <3>1, <1>i
    <3>3. CASE i = 0
      BY <2>2, <2>3, <3>1, <3>2, <3>3
    <3>4. CASE i # 0
      BY <2>2, <2>3, <3>1, <3>2, <3>4, <1>i
    <3> QED BY <3>3, <3>4
  <2>5. g[0] = sent'["user"] /\ g[Hops + 1] = got'["command"]
    BY <1>1, <2>3, <1>f, <1>h DEF InputFlow, UserTypes, Typed, Ends
  <2>6. \A i \in 0..(Hops + 1) : g[i] <= g[0]
    BY <2>3, <1>f DEF InputFlow
  <2>7. InputFlow(g)'
    BY <2>1, <2>3, <2>4, <2>5, <2>6 DEF InputFlow
  <2>8. ASSUME command' PROVE InputEnds(g)'
    BY <1>1, <2>1, <2>2, <2>8, <1>f, EndsKept DEF AllIn, UserTypes
  <2> QED BY <2>7, <2>8 DEF InputInv
<1>2. CASE UserHangsUp
  <2>1. /\ chain' = chain /\ Hops' = Hops /\ up'[0].eof
        /\ \A i \in 0..Hops : /\ up'[i].n = up[i].n /\ up'[i].broken = up[i].broken
                              /\ i # 0 => up'[i] = up[i]
    BY <1>2, <1>h, <1>p, PipeFields DEF UserHangsUp, Typed
  <2>2. InputFlow(f)'
    BY <1>2, <2>1, <1>f, InputStill DEF UserHangsUp
  <2>3. ASSUME command' PROVE InputEnds(f)'
    BY <1>2, <2>1, <2>3, <1>f, EndsKept DEF AllIn, UserHangsUp
  <2> QED BY <2>2, <2>3 DEF InputInv
<1>3. CASE UserReads \/ CommandWrites \/ UNCHANGED vars
  <2>1. /\ chain' = chain /\ Hops' = Hops /\ up' = up /\ copier' = copier
        /\ command' = command
        /\ sent'["user"] = sent["user"] /\ got'["command"] = got["command"]
    BY <1>3, <1>h DEF UserReads, CommandWrites, vars, Typed, Ends
  <2>2. \A i \in 0..Hops : down'[i].eof = down[i].eof /\ down'[i].broken = down[i].broken
    <3>1. CASE UserReads
      BY <3>1, <1>h, <1>p, PipeFields DEF UserReads, Typed
    <3>2. CASE CommandWrites
      BY <3>2, <1>h, <1>p, PipeFields DEF CommandWrites, Typed
    <3> QED BY <1>3, <3>1, <3>2 DEF vars
  <2>3. InputFlow(f)'
    BY <2>1, <1>f, InputStill
  <2>4. ASSUME command' PROVE InputEnds(f)'
    BY <2>1, <2>2, <2>4, <1>f, EndsKept DEF AllIn
  <2> QED BY <2>3, <2>4 DEF InputInv
<1>4. CASE CommandReads
  <2>0. PICK k \in 1..(Hops + 1) : k = Hops + 1
    BY <1>h
  <2> DEFINE g == [f EXCEPT ![k] = @ + 1]
  <2>1. /\ chain' = chain /\ Hops' = Hops /\ up[Hops].n > 0 /\ down' = down
        /\ copier' = copier /\ command' = command
        /\ sent' = sent /\ got'["command"] = got["command"] + 1
    BY <1>4, <1>h DEF CommandReads, Typed, Ends
  <2>2. /\ \A i \in 0..Hops : up'[i].eof = up[i].eof /\ up'[i].broken = up[i].broken
        /\ \A i \in 0..Hops : up'[i].n = IF i = Hops THEN up[i].n - 1 ELSE up[i].n
    BY <1>4, <1>h, <1>p, PipeFields DEF CommandReads, Typed
  <2>3. k - 1 = Hops /\ 0 \in 0..Hops /\ \A i \in 0..Hops : i # k
    BY <1>h, <2>0
  <2>4. /\ InputFlow(g)'
        /\ \A i \in 0..(Hops + 1) : AllIn(f, i) => AllIn(g, i)'
    <3>1. \A i \in 0..Hops : up'[i].n = IF i = k - 1 THEN up[i].n - 1
                                         ELSE IF i = k THEN up[i].n + 1 ELSE up[i].n
      BY <2>2, <2>3
    <3>2. /\ up[k - 1].n > 0 /\ up'[0].eof = up[0].eof
          /\ got'["command"] = IF k = Hops + 1 THEN got["command"] + 1 ELSE got["command"]
      BY <2>0, <2>1, <2>2, <2>3
    <3>3. g = [f EXCEPT ![k] = @ + 1] OBVIOUS
    <3> HIDE DEF g
    <3> QED BY <3>1, <3>2, <3>3, <2>1, <2>3, <1>f, InputMoves
  <2>5. ASSUME command' PROVE InputEnds(g)'
    BY <2>1, <2>2, <2>4, <2>5, <1>f, EndsKept
  <2> QED BY <2>4, <2>5 DEF InputInv
<1>5. CASE CommandEnds
  <2>1. /\ Hops' = Hops /\ ~command' /\ sent' = sent /\ got' = got
        /\ \A i \in 0..Hops : up'[i].n = up[i].n
    BY <1>5, <1>h, <1>p, PipeFields DEF CommandEnds, Typed
  <2> QED BY <2>1, <1>f, InputStill DEF InputInv
<1>6. ASSUME NEW h \in 1..Hops, HopStep(h) PROVE \E g : InputInv(g)'
  <2>h. h \in 0..Hops /\ h - 1 \in 0..Hops /\ 0 \in 0..Hops /\ (h - 1) + 1 = h /\ h - 1 < Hops
    BY <1>h
  <2>1. chain' = chain /\ Hops' = Hops /\ sent' = sent /\ got' = got /\ command' = command
    BY <1>6, <1>h
       DEF HopStep, ReadAnswer, CopyUp, CopyDown, EndUp, EndDown, Returns, WaitReturns
  <2>2. CASE CopyUp(h)
    <3> DEFINE g == [f EXCEPT ![h] = @ + 1]
    <3>1. up[h - 1].n > 0 /\ down' = down /\ copier' = copier /\ h \in 1..(Hops + 1)
      BY <2>2, <1>h DEF CopyUp
    <3>2. /\ \A i \in 0..Hops : up'[i].eof = up[i].eof /\ up'[i].broken = up[i].broken
          /\ \A i \in 0..Hops : up'[i].n = IF i = h - 1 THEN up[i].n - 1
                                           ELSE IF i = h THEN up[i].n + 1 ELSE up[i].n
      BY <2>2, <1>p, PipeFields, HopPipes
    <3>3. got'["command"] = IF h = Hops + 1 THEN got["command"] + 1 ELSE got["command"]
      BY <2>1, <1>h
    <3>4. /\ InputFlow(g)'
          /\ \A i \in 0..(Hops + 1) : AllIn(f, i) => AllIn(g, i)'
      <4> HIDE DEF g
      <4>1. g = [f EXCEPT ![h] = @ + 1] BY DEF g
      <4> QED BY <4>1, <2>1, <2>h, <3>1, <3>2, <3>3, <1>f, InputMoves
    <3>5. ASSUME command' PROVE InputEnds(g)'
      BY <2>1, <3>1, <3>2, <3>4, <3>5, <1>f, EndsKept
    <3> QED BY <3>4, <3>5 DEF InputInv
  <2>3. ASSUME \A i \in 0..Hops : up'[i].n = up[i].n /\ (up[i].eof => up'[i].eof)
        PROVE  /\ InputFlow(f)'
               /\ \A i \in 0..(Hops + 1) : AllIn(f, i) => AllIn(f, i)'
    BY <2>1, <2>3, <2>h, <1>f, InputStill DEF AllIn
  <2>4. CASE CopyDown(h) \/ WaitReturns(h) \/ ReadAnswer(h)
    <3>1. up' = up /\ copier' = copier
      BY <2>4 DEF CopyDown, WaitReturns, ReadAnswer
    <3>2. \A i \in 0..Hops :
            down'[i].eof /\ ~down'[i].broken => down[i].eof /\ ~down[i].broken
      BY <2>4, <1>p, PipeFields, HopPipes, Answered
    <3>3. ASSUME command' PROVE InputEnds(f)'
      BY <2>1, <2>3, <3>1, <3>2, <3>3, <1>f, EndsKept
    <3> QED BY <2>3, <3>1, <3>3 DEF InputInv
  <2>5. CASE EndUp(h)
    <3>1. /\ down' = down /\ \A q \in 1..Hops : q # h => copier'[q] = copier[q]
          /\ \A i \in 0..Hops : /\ up'[i].n = up[i].n /\ up'[i].broken = up[i].broken
                                /\ up[i].eof => up'[i].eof
                                /\ up'[i].eof => up[i].eof \/ i = h
      BY <2>5, <1>p, PipeFields, HopPipes DEF EndUp, Typed
    <3>2. ASSUME command' PROVE InputEnds(f)'
      <4>1. AllIn(f, h)
        BY <2>1, <2>5, <3>2, <1>f, UpEnds
      <4>2. AllIn(f, h)'
        BY <4>1, <2>3, <3>1, <2>h, <1>i
      <4> QED BY <2>1, <2>3, <3>1, <3>2, <4>2, <1>f, EndsKept
    <3> QED BY <2>3, <3>1, <3>2 DEF InputInv
  <2>6. CASE EndDown(h)
    <3>1. /\ up' = up /\ \A q \in 1..Hops : q # h => copier'[q] = copier[q]
          /\ "up" \in copier[h] => "up" \in copier'[h]
      BY <2>6 DEF EndDown, Typed
    <3>2. \A i \in 0..Hops : /\ down'[i].broken = down[i].broken
                             /\ down'[i].eof => down[i].eof \/ i = h - 1
      BY <2>6, <1>p, PipeFields, HopPipes
    <3>3. chain[h] = "attach" => ~down[h - 1].broken
      <4>1. chain[h] = "attach" => h = 1
        BY ChainsAssumption DEF Typed, Hops
      <4> QED BY <4>1, <2>h DEF OutputKept
    <3>4. ASSUME command' PROVE InputEnds(f)'
      <4>1. ~down[h - 1].broken => AllIn(f, h)
        BY <2>1, <2>6, <3>4, <1>f, DownEnds
      <4>2. ~down[h - 1].broken => AllIn(f, h)'
        BY <4>1, <2>3, <3>1, <2>h, <1>i
      <4> QED BY <2>1, <2>h, <2>3, <3>1, <3>2, <3>3, <3>4, <4>2, <1>f, EndsKept
    <3> QED BY <2>3, <3>1, <3>4 DEF InputInv
  <2>7. CASE Returns(h)
    <3>1. /\ copier' = copier
          /\ \A i \in 0..Hops : /\ up'[i].n = up[i].n /\ (up[i].eof => up'[i].eof)
                                /\ up'[i].eof => up[i].eof \/ i = h
                                /\ up'[i].broken => up[i].broken \/ i = h - 1
      <4>1. copier' = copier BY <2>7 DEF Returns
      <4>2. \A i \in 0..Hops : up'[i] = IF i = h - 1 THEN Break(up[i])
                                         ELSE IF i = h THEN Finish(up[i]) ELSE up[i]
        BY <2>7, HopPipes
      <4> QED BY <4>1, <4>2, <1>p, PipeFields
    <3>2. \A i \in 0..Hops : down'[i].eof /\ ~down'[i].broken =>
                               (down[i].eof /\ ~down[i].broken) \/ i = h - 1
      BY <2>7, <1>p, PipeFields, HopPipes
    <3>3. ASSUME command' PROVE InputEnds(f)'
      <4>1. AllIn(f, h)
        BY <2>1, <2>7, <3>3, <1>f, HopEnds
      <4>2. AllIn(f, h)'
        BY <4>1, <2>3, <3>1, <2>h, <1>i
      <4> QED BY <2>1, <2>h, <2>3, <3>1, <3>2, <3>3, <4>2, <1>f, EndsKept
    <3> QED BY <2>3, <3>1, <3>3 DEF InputInv
  <2> QED BY <1>6, <2>2, <2>4, <2>5, <2>6, <2>7 DEF HopStep
<1> QED BY <1>1, <1>2, <1>3, <1>4, <1>5, <1>6 DEF Next

-----------------------------------------------------------------------------
(* The output, where no connection is attached.                              *)

(* g[0] was read by the user or taken with the answer, which is as if it had  *)
(* come past the first hop; g[i + 1] was put into pipe down[i], and what the  *)
(* last hop's pipe got was written by the command.                           *)
OutputFlow(g) ==
  /\ g \in [0..(Hops + 1) -> Nat]
  /\ g[0] = got["user"] + missed /\ g[Hops + 1] = sent["command"]
  /\ \A i \in 0..Hops : down[i].n = g[i + 1] - g[i]
  /\ \A i \in 0..(Hops + 1) : g[i] <= g[Hops + 1]

(* The command has ended, and all of its output has come to point i.         *)
AllOut(g, i) == down[Hops].eof /\ g[i] = g[Hops + 1]

(* Wherever the output was ended, or given up, that was at its end.          *)
OutputEnds(g) ==
  /\ \A i \in 0..Hops : down[i].eof => AllOut(g, i + 1)
  /\ \A i \in 0..Hops : down[i].broken => AllOut(g, i)
  /\ \A h \in 1..Hops : "down" \notin copier[h] \/ Gone(h) => AllOut(g, h)

OutputInv(g) == OutputFlow(g) /\ (~Attached => OutputEnds(g))

(* Nothing is taken with an answer that came over TLS.                       *)
MissedPlain == missed = 0 \/ chain[1] = "plain"

LEMMA OutputInit == Init => \E g : OutputInv(g)
<1> SUFFICES ASSUME Init PROVE \E g : OutputInv(g)
  OBVIOUS
<1>h. Typed /\ Hops \in Nat /\ Hops >= 1 BY TypedInit, HopsType
<1> DEFINE g == [i \in 0..(Hops + 1) |-> 0]
<1>1. \A i \in 0..Hops : i \in 0..(Hops + 1) /\ i + 1 \in 0..(Hops + 1)
  BY <1>h
<1>2. OutputFlow(g)
  BY <1>h, <1>1 DEF OutputFlow, Init, Ends
<1>3. OutputEnds(g)
  BY <1>h DEF OutputEnds, Init, Gone
<1> QED BY <1>2, <1>3 DEF OutputInv

LEMMA OutputStill ==
  ASSUME NEW g, OutputFlow(g), Hops' = Hops,
         sent'["command"] = sent["command"], got'["user"] = got["user"],
         missed' = missed, \A i \in 0..Hops : down'[i].n = down[i].n
  PROVE  OutputFlow(g)'
BY DEF OutputFlow

(* A unit that leaves pipe k for the one before it, or for the user.         *)
LEMMA OutputMoves ==
  ASSUME NEW g, OutputFlow(g), Typed, Hops' = Hops, NEW k \in 0..Hops,
         down[k].n > 0,
         \A i \in 0..Hops : down'[i].n = IF i = k THEN down[i].n - 1
                                         ELSE IF i + 1 = k THEN down[i].n + 1 ELSE down[i].n,
         sent'["command"] = sent["command"], missed' = missed,
         got'["user"] = IF k = 0 THEN got["user"] + 1 ELSE got["user"],
         down'[Hops].eof = down[Hops].eof,
         NEW f, f = [g EXCEPT ![k] = @ + 1]
  PROVE  /\ OutputFlow(f)'
         /\ \A i \in 0..(Hops + 1) : AllOut(g, i) => AllOut(f, i)'
<1>1. /\ Hops \in Nat /\ k \in 0..(Hops + 1) /\ k + 1 \in 0..(Hops + 1) /\ k # Hops + 1
      /\ 0 \in 0..(Hops + 1) /\ Hops + 1 \in 0..(Hops + 1)
  BY HopsType
<1>2. down[k].n = g[k + 1] - g[k] /\ g[k + 1] <= g[Hops + 1]
  BY <1>1 DEF OutputFlow
<1>g. g \in [0..(Hops + 1) -> Nat]
  BY DEF OutputFlow
<1>3. /\ f \in [0..(Hops + 1) -> Nat]
      /\ g[Hops + 1] \in Nat /\ g[k] \in Nat /\ g[k + 1] \in Nat
  BY <1>1, <1>g
<1>4. g[k] < g[Hops + 1]
  BY <1>2, <1>3
<1>5. /\ f[Hops + 1] = g[Hops + 1] /\ f[k] = g[k] + 1
      /\ \A i \in 0..(Hops + 1) : i # k => f[i] = g[i]
  BY <1>1, <1>g
<1>6. \A i \in 0..Hops : down'[i].n = f[i + 1] - f[i]
  <2> SUFFICES ASSUME NEW i \in 0..Hops PROVE down'[i].n = f[i + 1] - f[i]
    OBVIOUS
  <2>1. i \in 0..(Hops + 1) /\ i + 1 \in 0..(Hops + 1) /\ g[i] \in Nat /\ g[i + 1] \in Nat
    BY <1>g, <1>1
  <2>2. down[i].n = g[i + 1] - g[i] BY DEF OutputFlow
  <2>3. CASE i = k
    BY <2>1, <2>2, <2>3, <1>5, <1>1
  <2>4. CASE i + 1 = k
    BY <2>1, <2>2, <2>4, <1>5, <1>1
  <2>5. CASE i # k /\ i + 1 # k
    BY <2>1, <2>2, <2>5, <1>5
  <2> QED BY <2>3, <2>4, <2>5
<1>7. \A i \in 0..(Hops + 1) : f[i] <= f[Hops + 1]
  BY <1>3, <1>4, <1>5 DEF OutputFlow
<1>8. f[0] = got'["user"] + missed' /\ f[Hops + 1] = sent'["command"]
  <2>1. got["user"] \in Nat /\ missed \in Nat BY DEF Typed, Ends
  <2>2. g[0] = got["user"] + missed /\ g[Hops + 1] = sent["command"]
    BY DEF OutputFlow
  <2>3. f[0] = IF k = 0 THEN g[0] + 1 ELSE g[0]
    BY <1>1, <1>5
  <2>4. f[0] = got'["user"] + missed'
    BY <2>1, <2>2, <2>3
  <2> QED BY <1>5, <2>2, <2>4
<1>9. \A i \in 0..(Hops + 1) : AllOut(g, i) => AllOut(f, i)'
  BY <1>4, <1>5, <1>3 DEF AllOut
<1> QED BY <1>3, <1>6, <1>7, <1>8, <1>9 DEF OutputFlow

(* What was ended or given up before stays justified.                        *)
LEMMA OutputEndsKept ==
  ASSUME NEW g, NEW f, Typed, OutputEnds(g), Hops' = Hops,
         \A i \in 0..(Hops + 1) : AllOut(g, i) => AllOut(f, i)',
         \A i \in 0..Hops : down'[i].eof => down[i].eof \/ AllOut(f, i + 1)',
         \A i \in 0..Hops : down'[i].broken => down[i].broken \/ AllOut(f, i)',
         \A h \in 1..Hops : \/ copier'[h] = copier[h] /\ (Gone(h)' => Gone(h))
                            \/ AllOut(f, h)'
  PROVE  OutputEnds(f)'
<1>h. Hops \in Nat /\ \A i \in 0..Hops : i \in 0..(Hops + 1) /\ i + 1 \in 0..(Hops + 1)
  BY HopsType
<1>1. ASSUME NEW i \in 0..Hops, down'[i].eof PROVE AllOut(f, i + 1)'
  BY <1>h, <1>1 DEF OutputEnds
<1>2. ASSUME NEW i \in 0..Hops, down'[i].broken PROVE AllOut(f, i)'
  BY <1>h, <1>2 DEF OutputEnds
<1>3. ASSUME NEW h \in 1..Hops, "down" \notin copier'[h] \/ Gone(h)'
      PROVE  AllOut(f, h)'
  <2>1. h \in 0..(Hops + 1) BY <1>h
  <2> QED BY <1>3, <2>1 DEF OutputEnds
<1> QED BY <1>1, <1>2, <1>3 DEF OutputEnds

(* What has come past a point has come past the one before it.               *)
LEMMA AllOutBack ==
  ASSUME NEW g, OutputFlow(g), Typed, NEW i \in 0..Hops
  PROVE  /\ AllOut(g, i) => AllOut(g, i + 1) /\ down[i].n = 0
         /\ AllOut(g, i + 1) /\ down[i].n = 0 => AllOut(g, i)
<1>1. Hops \in Nat /\ i \in 0..(Hops + 1) /\ i + 1 \in 0..(Hops + 1)
      /\ Hops + 1 \in 0..(Hops + 1)
  BY HopsType
<1>2. /\ g[i] \in Nat /\ g[i + 1] \in Nat /\ g[Hops + 1] \in Nat
      /\ g[i + 1] <= g[Hops + 1]
  BY <1>1 DEF OutputFlow
<1>3. down[i].n = g[i + 1] - g[i] /\ down[i] \in Pipe
  BY DEF OutputFlow, Typed
<1>4. down[i].n \in Nat
  BY <1>3, PipeFields
<1> QED BY <1>2, <1>3, <1>4 DEF AllOut

(* Why the output ends in a hop.                                             *)
LEMMA OutEnds ==
  ASSUME NEW g, OutputFlow(g), OutputEnds(g), Typed, NEW h \in 1..Hops, EndDown(h)
  PROVE  AllOut(g, h)
<1>1. Hops \in Nat /\ h - 1 \in 0..Hops /\ h \in 0..Hops /\ (h - 1) + 1 = h
  BY HopsType
<1>2. CASE Drained(down[h])
  BY <1>1, <1>2, AllOutBack DEF Drained, OutputEnds
<1>3. CASE down[h].n > 0 /\ down[h - 1].broken
  <2>1. AllOut(g, h - 1) BY <1>1, <1>3 DEF OutputEnds
  <2>2. AllOut(g, h) BY <1>1, <2>1, AllOutBack
  <2> QED BY <1>1, <2>2
<1> QED BY <1>2, <1>3 DEF EndDown

LEMMA OutputNext ==
  Typed /\ (\E g : OutputInv(g)) /\ [Next]_vars => (\E g : OutputInv(g))'
<1> SUFFICES ASSUME Typed, NEW g, OutputInv(g), [Next]_vars
             PROVE  \E f : OutputInv(f)'
  OBVIOUS
<1> USE DEF Gone
<1>f. OutputFlow(g) /\ (~Attached => OutputEnds(g))
  BY DEF OutputInv
<1>h. Hops \in Nat /\ Hops >= 1 /\ (chain' = chain => Hops' = Hops /\ Attached' = Attached)
  BY HopsType DEF Hops, Attached
<1>p. \A i \in 0..Hops : up[i] \in Pipe /\ down[i] \in Pipe
  BY DEF Typed
<1>i. \A i \in 0..Hops : i \in 0..(Hops + 1) /\ i + 1 \in 0..(Hops + 1)
  BY <1>h
<1>1. CASE CommandWrites
  <2>0. PICK k \in 0..(Hops + 1) : k = Hops + 1
    BY <1>h
  <2> DEFINE f == [g EXCEPT ![k] = @ + 1]
  <2>1. /\ chain' = chain /\ Hops' = Hops /\ Attached' = Attached /\ ~down[Hops].eof
        /\ copier' = copier /\ hop' = hop /\ missed' = missed
    BY <1>1, <1>h DEF CommandWrites, Room
  <2>2. \A i \in 0..Hops : down'[i] = IF i = Hops THEN Put(down[i]) ELSE down[i]
    BY <1>1, <1>h DEF CommandWrites, Typed
  <2>3. \A i \in 0..Hops : /\ down'[i].n = IF i = Hops THEN down[i].n + 1 ELSE down[i].n
                           /\ down'[i].eof = down[i].eof /\ down'[i].broken = down[i].broken
    BY <2>2, <1>p, PipeFields
  <2>4. /\ g \in [0..(Hops + 1) -> Nat] /\ f \in [0..(Hops + 1) -> Nat]
        /\ f[Hops + 1] = g[Hops + 1] + 1
        /\ \A i \in 0..(Hops + 1) : i # Hops + 1 => f[i] = g[i]
    BY <2>0, <1>f, <1>h DEF OutputFlow
  <2>5. \A i \in 0..Hops : down'[i].n = f[i + 1] - f[i]
    <3> SUFFICES ASSUME NEW i \in 0..Hops PROVE down'[i].n = f[i + 1] - f[i]
      OBVIOUS
    <3>1. down[i].n = g[i + 1] - g[i] /\ i # Hops + 1
      BY <1>f, <1>h DEF OutputFlow
    <3>2. g[i] \in Nat /\ g[i + 1] \in Nat /\ f[i] = g[i]
      BY <2>4, <3>1, <1>i
    <3>3. CASE i = Hops
      BY <2>3, <2>4, <3>1, <3>2, <3>3
    <3>4. CASE i # Hops
      BY <2>3, <2>4, <3>1, <3>2, <3>4, <1>i, <1>h
    <3> QED BY <3>3, <3>4
  <2>6. f[0] = got'["user"] + missed' /\ f[Hops + 1] = sent'["command"]
    BY <1>1, <2>1, <2>4, <1>f, <1>h DEF OutputFlow, CommandWrites, Typed, Ends
  <2>7. \A i \in 0..(Hops + 1) : f[i] <= f[Hops + 1]
    BY <2>4, <1>f DEF OutputFlow
  <2>8. OutputFlow(f)'
    BY <2>1, <2>4, <2>5, <2>6, <2>7 DEF OutputFlow
  <2>9. ASSUME ~Attached' PROVE OutputEnds(f)'
    BY <2>1, <2>3, <2>9, <1>f, OutputEndsKept DEF AllOut
  <2> QED BY <2>8, <2>9 DEF OutputInv
<1>2. CASE UserReads
  <2> DEFINE f == [g EXCEPT ![0] = @ + 1]
  <2>1. /\ chain' = chain /\ Hops' = Hops /\ Attached' = Attached /\ down[0].n > 0
        /\ copier' = copier /\ hop' = hop /\ sent' = sent /\ missed' = missed
        /\ got'["user"] = got["user"] + 1
    BY <1>2, <1>h DEF UserReads, Typed, Ends
  <2>2. \A i \in 0..Hops : down'[i] = IF i = 0 THEN Take(down[i]) ELSE down[i]
    BY <1>2, <1>h DEF UserReads, Typed
  <2>3. \A i \in 0..Hops :
          /\ down'[i].eof = down[i].eof /\ down'[i].broken = down[i].broken
          /\ down'[i].n = IF i = 0 THEN down[i].n - 1
                          ELSE IF i + 1 = 0 THEN down[i].n + 1 ELSE down[i].n
    BY <2>2, <1>p, <1>h, PipeFields
  <2>4. /\ OutputFlow(f)'
        /\ \A i \in 0..(Hops + 1) : AllOut(g, i) => AllOut(f, i)'
    <3>1. f = [g EXCEPT ![0] = @ + 1] /\ 0 \in 0..Hops /\ Hops \in 0..Hops
      BY <1>h
    <3> HIDE DEF f
    <3> QED BY <3>1, <2>1, <2>3, <1>f, OutputMoves
  <2>5. ASSUME ~Attached' PROVE OutputEnds(f)'
    BY <2>1, <2>3, <2>4, <2>5, <1>f, OutputEndsKept
  <2> QED BY <2>4, <2>5 DEF OutputInv
<1>3. ASSUME chain' = chain, sent'["command"] = sent["command"], got'["user"] = got["user"],
             missed' = missed,
             \A i \in 0..Hops : down'[i].n = down[i].n /\ (down[i].eof => down'[i].eof)
      PROVE  /\ OutputFlow(g)'
             /\ \A i \in 0..(Hops + 1) : AllOut(g, i) => AllOut(g, i)'
  <2>1. Hops' = Hops /\ Hops \in 0..Hops BY <1>3, <1>h
  <2> QED BY <1>3, <2>1, <1>f, OutputStill DEF AllOut
<1>4. CASE UserTypes \/ UserHangsUp \/ CommandReads \/ UNCHANGED vars
  <2>1. /\ chain' = chain /\ down' = down /\ copier' = copier /\ hop' = hop
        /\ sent'["command"] = sent["command"] /\ got'["user"] = got["user"]
        /\ missed' = missed
    BY <1>4 DEF UserTypes, UserHangsUp, CommandReads, vars, Typed, Ends
  <2>2. ASSUME ~Attached' PROVE OutputEnds(g)'
    BY <2>1, <2>2, <1>3, <1>f, <1>h, OutputEndsKept
  <2> QED BY <2>1, <2>2, <1>3 DEF OutputInv
<1>5. CASE CommandEnds
  <2>1. /\ chain' = chain /\ copier' = copier /\ hop' = hop /\ sent' = sent /\ got' = got
        /\ Hops' = Hops /\ Attached' = Attached /\ missed' = missed
    BY <1>5, <1>h DEF CommandEnds
  <2>2. \A i \in 0..Hops : down'[i] = IF i = Hops THEN Finish(down[i]) ELSE down[i]
    BY <1>5, <1>h DEF CommandEnds, Typed
  <2>3. \A i \in 0..Hops : /\ down'[i].n = down[i].n /\ down'[i].broken = down[i].broken
                           /\ down[i].eof => down'[i].eof
                           /\ down'[i].eof => down[i].eof \/ i = Hops
    BY <2>2, <1>p, PipeFields
  <2>4. AllOut(g, Hops + 1)'
    BY <2>1, <2>2, <1>p, <1>h, PipeFields DEF AllOut
  <2>5. ASSUME ~Attached' PROVE OutputEnds(g)'
    BY <2>1, <2>3, <2>4, <2>5, <1>3, <1>f, OutputEndsKept
  <2> QED BY <2>1, <2>3, <2>5, <1>3 DEF OutputInv
<1>6. ASSUME NEW h \in 1..Hops, HopStep(h) PROVE \E f : OutputInv(f)'
  <2>h. h \in 0..Hops /\ h - 1 \in 0..Hops /\ (h - 1) + 1 = h /\ h # 0 /\ Hops \in 0..Hops
    BY <1>h
  <2>1. /\ chain' = chain /\ Hops' = Hops /\ sent' = sent /\ got' = got
        /\ Attached' = Attached /\ (ReadAnswer(h) \/ missed' = missed)
    BY <1>6, <1>h
       DEF HopStep, ReadAnswer, CopyUp, CopyDown, EndUp, EndDown, Returns, WaitReturns
  <2>2. CASE CopyDown(h)
    <3> DEFINE f == [g EXCEPT ![h] = @ + 1]
    <3>1. down[h].n > 0 /\ copier' = copier /\ hop' = hop /\ missed' = missed
      BY <2>2 DEF CopyDown
    <3>2. \A i \in 0..Hops : i + 1 = h <=> i = h - 1
      BY <1>h
    <3>3. \A i \in 0..Hops :
            /\ down'[i].eof = down[i].eof /\ down'[i].broken = down[i].broken
            /\ down'[i].n = IF i = h THEN down[i].n - 1
                            ELSE IF i + 1 = h THEN down[i].n + 1 ELSE down[i].n
      BY <2>2, <3>2, <1>p, PipeFields, HopPipes
    <3>4. /\ OutputFlow(f)'
          /\ \A i \in 0..(Hops + 1) : AllOut(g, i) => AllOut(f, i)'
      <4>1. f = [g EXCEPT ![h] = @ + 1] OBVIOUS
      <4> HIDE DEF f
      <4> QED BY <4>1, <2>1, <2>h, <3>1, <3>3, <1>f, OutputMoves
    <3>5. ASSUME ~Attached' PROVE OutputEnds(f)'
      BY <2>1, <3>1, <3>3, <3>4, <3>5, <1>f, OutputEndsKept
    <3> QED BY <3>4, <3>5 DEF OutputInv
  <2>3. CASE CopyUp(h)
    <3>1. down' = down /\ copier' = copier /\ hop' = hop /\ missed' = missed
      BY <2>3 DEF CopyUp
    <3>2. ASSUME ~Attached' PROVE OutputEnds(g)'
      BY <2>1, <3>1, <3>2, <1>3, <1>f, OutputEndsKept
    <3> QED BY <2>1, <3>1, <3>2, <1>3 DEF OutputInv
  <2>4. CASE EndUp(h)
    <3>1. /\ down' = down /\ hop' = hop /\ missed' = missed
          /\ \A q \in 1..Hops : "down" \in copier[q] => "down" \in copier'[q]
      BY <2>4 DEF EndUp, Typed
    <3>2. OutputFlow(g)' /\ \A i \in 0..(Hops + 1) : AllOut(g, i) => AllOut(g, i)'
      BY <2>1, <3>1, <1>3
    <3>3. ASSUME ~Attached' PROVE OutputEnds(g)'
      <4>1. ASSUME NEW q \in 1..Hops, "down" \notin copier'[q] \/ Gone(q)'
            PROVE  AllOut(g, q)'
        <5>1. q \in 0..(Hops + 1) BY <1>h
        <5> QED BY <4>1, <5>1, <2>1, <3>1, <3>2, <3>3, <1>f DEF OutputEnds
      <4>2. \A i \in 0..Hops : /\ down'[i].eof => AllOut(g, i + 1)'
                               /\ down'[i].broken => AllOut(g, i)'
        BY <2>1, <3>1, <3>2, <3>3, <1>f, <1>i DEF OutputEnds
      <4> QED BY <4>1, <4>2, <2>1 DEF OutputEnds
    <3> QED BY <3>2, <3>3 DEF OutputInv
  <2>5. CASE EndDown(h)
    <3>1. /\ hop' = hop /\ missed' = missed
          /\ \A q \in 1..Hops : q # h => copier'[q] = copier[q]
      BY <2>5 DEF EndDown, Typed
    <3>2. \A i \in 0..Hops : /\ down'[i].n = down[i].n /\ down'[i].broken = down[i].broken
                             /\ down[i].eof => down'[i].eof
                             /\ down'[i].eof => down[i].eof \/ i = h - 1
      BY <2>5, <1>p, PipeFields, HopPipes
    <3>3. OutputFlow(g)' /\ \A i \in 0..(Hops + 1) : AllOut(g, i) => AllOut(g, i)'
      BY <2>1, <3>1, <3>2, <1>3
    <3>4. ASSUME ~Attached' PROVE OutputEnds(g)'
      <4>1. AllOut(g, h)
        BY <2>1, <2>5, <3>4, <1>f, OutEnds
      <4>2. AllOut(g, h)'
        BY <4>1, <3>3, <2>h, <1>i
      <4> QED BY <2>1, <2>h, <3>1, <3>2, <3>3, <3>4, <4>2, <1>f, OutputEndsKept
    <3> QED BY <3>3, <3>4 DEF OutputInv
  <2>6. CASE Returns(h)
    <3>1. /\ copier' = copier /\ missed' = missed
          /\ \A q \in 1..Hops : q # h => hop'[q] = hop[q]
      BY <2>6 DEF Returns, Typed
    <3>2. \A i \in 0..Hops : down'[i] = IF i = h - 1 THEN Finish(down[i])
                            ELSE IF i = h /\ chain[h] # "server" THEN Break(down[i])
                            ELSE down[i]
      BY <2>6, HopPipes
    <3>3. \A i \in 0..Hops : /\ down'[i].n = down[i].n
                             /\ down[i].eof => down'[i].eof
                             /\ down'[i].eof => down[i].eof \/ i = h - 1
                             /\ down'[i].broken => down[i].broken \/ i = h
      BY <3>2, <1>p, PipeFields
    <3>4. OutputFlow(g)' /\ \A i \in 0..(Hops + 1) : AllOut(g, i) => AllOut(g, i)'
      BY <2>1, <3>1, <3>3, <1>3
    <3>5. ASSUME ~Attached' PROVE OutputEnds(g)'
      <4>1. AllOut(g, h)
        BY <2>1, <2>6, <3>5, <1>f DEF Returns, OutputEnds, Attached
      <4>2. AllOut(g, h)'
        BY <4>1, <3>4, <2>h, <1>i
      <4> QED BY <2>1, <2>h, <3>1, <3>3, <3>4, <3>5, <4>2, <1>f, OutputEndsKept
    <3> QED BY <3>4, <3>5 DEF OutputInv
  <2>7. CASE WaitReturns(h)
    <3>1. /\ copier' = copier /\ missed' = missed
          /\ \A q \in 1..Hops : q # h => hop'[q] = hop[q]
      BY <2>7 DEF WaitReturns, Typed
    <3>2. \A i \in 0..Hops : /\ down'[i].n = down[i].n /\ down'[i].eof = down[i].eof
                             /\ down'[i].broken => down[i].broken \/ i = h
      BY <2>7, <1>p, PipeFields, HopPipes
    <3>3. OutputFlow(g)' /\ \A i \in 0..(Hops + 1) : AllOut(g, i) => AllOut(g, i)'
      BY <2>1, <3>1, <3>2, <1>3
    <3>4. ASSUME ~Attached' PROVE OutputEnds(g)'
      <4>1. AllOut(g, h)
        BY <2>1, <2>7, <3>4, <1>f DEF WaitReturns, OutputEnds
      <4>2. AllOut(g, h)'
        BY <4>1, <3>3, <2>h, <1>i
      <4> QED BY <2>1, <2>h, <3>1, <3>2, <3>3, <3>4, <4>2, <1>f, OutputEndsKept
    <3> QED BY <3>3, <3>4 DEF OutputInv
  <2>8. CASE ReadAnswer(h)
    <3>1. PICK k \in Nat :
            /\ k <= down[h].n /\ missed' = missed + k
            /\ k # 0 => h = 1 /\ chain[1] = "plain"
            /\ \A i \in 0..Hops :
                 /\ down'[i].n = IF i = h THEN down[i].n - k ELSE down[i].n
                 /\ down'[i].eof = down[i].eof /\ down'[i].broken = down[i].broken
      BY <2>8, Answered
    <3>2. copier' = copier /\ \A q \in 1..Hops : Gone(q)' => Gone(q)
      BY <2>8 DEF ReadAnswer, Typed
    <3>3. CASE k = 0
      <4>1. missed' = missed /\ \A i \in 0..Hops : down'[i].n = down[i].n
        BY <3>1, <3>3, <2>h, <1>p, PipeFields DEF Typed
      <4>2. OutputFlow(g)' /\ \A i \in 0..(Hops + 1) : AllOut(g, i) => AllOut(g, i)'
        BY <2>1, <3>1, <4>1, <1>3
      <4>3. ASSUME ~Attached' PROVE OutputEnds(g)'
        BY <2>1, <3>1, <3>2, <4>2, <4>3, <1>f, OutputEndsKept
      <4> QED BY <4>2, <4>3 DEF OutputInv
    <3>4. CASE k # 0
      <4> DEFINE f == [i \in 0..(Hops + 1) |-> IF i \in {0, 1} THEN g[i] + k ELSE g[i]]
      <4>1. /\ h = 1 /\ g \in [0..(Hops + 1) -> Nat]
            /\ 0 \in 0..(Hops + 1) /\ 1 \in 0..(Hops + 1) /\ 2 \in 0..(Hops + 1)
            /\ 0 \in 0..Hops /\ 1 \in 0..Hops /\ Hops + 1 \in 0..(Hops + 1)
        BY <3>1, <3>4, <1>f, <1>h DEF OutputFlow
      <4>2. /\ g[0] \in Nat /\ g[1] \in Nat /\ g[2] \in Nat /\ g[Hops + 1] \in Nat
            /\ down[0].n = g[1] - g[0] /\ down[1].n = g[2] - g[1] /\ g[2] <= g[Hops + 1]
        <5>1. 0 + 1 = 1 /\ 1 + 1 = 2 OBVIOUS
        <5> QED BY <4>1, <5>1, <1>f DEF OutputFlow
      <4>3. down[0].n \in Nat /\ g[1] + k <= g[2] /\ g[0] <= g[1]
        <5>1. down[0].n \in Nat BY <4>1, <1>p, PipeFields
        <5>2. k <= down[1].n BY <4>1, <3>1
        <5> QED BY <5>1, <5>2, <4>2
      <4>4. /\ f \in [0..(Hops + 1) -> Nat] /\ f[0] = g[0] + k /\ f[1] = g[1] + k
            /\ \A i \in 0..(Hops + 1) : i \notin {0, 1} => f[i] = g[i]
        BY <4>1, <3>1
      <4>5. f[Hops + 1] = g[Hops + 1]
        BY <4>1, <4>4, <1>h
      <4>6. \A i \in 0..Hops : down'[i].n = f[i + 1] - f[i]
        <5> SUFFICES ASSUME NEW i \in 0..Hops PROVE down'[i].n = f[i + 1] - f[i]
          OBVIOUS
        <5>1. CASE i = 0 BY <5>1, <4>1, <4>2, <4>4, <3>1
        <5>2. CASE i = 1 BY <5>2, <4>1, <4>2, <4>4, <3>1, <1>h
        <5>3. CASE i \notin {0, 1}
          <6>1. down'[i].n = down[i].n /\ down[i].n = g[i + 1] - g[i]
            BY <5>3, <4>1, <3>1, <1>f DEF OutputFlow
          <6>2. f[i] = g[i] /\ f[i + 1] = g[i + 1]
            BY <5>3, <4>4, <1>i
          <6> QED BY <6>1, <6>2
        <5> QED BY <5>1, <5>2, <5>3
      <4>7. \A i \in 0..(Hops + 1) : f[i] <= f[Hops + 1]
        BY <4>2, <4>3, <4>4, <4>5, <1>f, <3>1 DEF OutputFlow
      <4>8. f[0] = got'["user"] + missed' /\ f[Hops + 1] = sent'["command"]
        <5>1. got["user"] \in Nat /\ missed \in Nat BY DEF Typed, Ends
        <5> QED BY <5>1, <2>1, <3>1, <4>4, <4>5, <1>f DEF OutputFlow
      <4>9. OutputFlow(f)'
        BY <2>1, <4>4, <4>6, <4>7, <4>8 DEF OutputFlow
      <4>10. \A i \in 0..(Hops + 1) : AllOut(g, i) => AllOut(f, i)'
        <5> SUFFICES ASSUME NEW i \in 0..(Hops + 1), AllOut(g, i) PROVE AllOut(f, i)'
          OBVIOUS
        <5>1. i \notin {0, 1}
          BY <4>2, <4>3, <3>1, <3>4 DEF AllOut
        <5> QED BY <5>1, <2>1, <2>h, <3>1, <4>4, <4>5 DEF AllOut
      <4>11. ASSUME ~Attached' PROVE OutputEnds(f)'
        <5> HIDE DEF f
        <5> QED BY <2>1, <3>1, <3>2, <4>10, <4>11, <1>f, OutputEndsKept
      <4> QED BY <4>9, <4>11 DEF OutputInv
    <3> QED BY <3>3, <3>4
  <2> QED BY <1>6, <2>2, <2>3, <2>4, <2>5, <2>6, <2>7, <2>8 DEF HopStep
<1> QED BY <1>1, <1>2, <1>4, <1>5, <1>6 DEF Next

LEMMA MissedNext == Typed /\ MissedPlain /\ [Next]_vars => MissedPlain'
<1> SUFFICES ASSUME Typed, MissedPlain, [Next]_vars PROVE MissedPlain'
  OBVIOUS
<1>1. CASE UserTypes \/ UserHangsUp \/ UserReads \/ UNCHANGED vars
  BY <1>1 DEF MissedPlain, UserTypes, UserHangsUp, UserReads, vars
<1>2. CASE CommandWrites \/ CommandReads \/ CommandEnds
  BY <1>2 DEF MissedPlain, CommandWrites, CommandReads, CommandEnds
<1>3. ASSUME NEW h \in 1..Hops, HopStep(h) PROVE MissedPlain'
  <2>1. CASE ReadAnswer(h)
    <3>1. PICK k \in Nat : missed' = missed + k /\ (k # 0 => chain[1] = "plain")
      BY <2>1, Answered
    <3> QED BY <3>1, <2>1 DEF MissedPlain, ReadAnswer, Typed
  <2>2. CASE ~ReadAnswer(h)
    BY <1>3, <2>2
       DEF MissedPlain, HopStep, CopyUp, CopyDown, EndUp, EndDown, Returns, WaitReturns
  <2> QED BY <2>1, <2>2
<1> QED BY <1>1, <1>2, <1>3 DEF Next

-----------------------------------------------------------------------------
(* The theorems.                                                             *)

IInv ==
  Typed /\ OutputKept /\ (\E f : InputInv(f)) /\ (\E g : OutputInv(g)) /\ MissedPlain

LEMMA Inductive == Spec => []IInv
<1>1. Init => IInv
  BY TypedInit, InputInit, OutputInit DEF IInv, Init, MissedPlain
<1>2. IInv /\ [Next]_vars => IInv'
  BY TypedNext, KeptNext, InputNext, OutputNext, MissedNext DEF IInv
<1> QED BY <1>1, <1>2, PTL DEF Spec

(* No command takes a prefix of its input for all of it (CopyWithSplitMerge, *)
(* CopyBiDirectional, transparentProxy), in a chain of any hops of which an  *)
(* attached connection can only be the first.                                *)
THEOREM InputWhole == Spec => []InputComplete
<1>1. IInv => InputComplete
  <2> SUFFICES ASSUME Typed, NEW f, InputInv(f), command, Drained(up[Hops])
               PROVE  got["command"] = sent["user"]
    BY DEF IInv, InputComplete
  <2>1. InputFlow(f) /\ InputEnds(f) BY DEF InputInv
  <2>2. Hops \in 0..Hops BY HopsType
  <2>3. AllIn(f, Hops + 1) BY <2>1, <2>2, AllInBack DEF Drained, InputEnds
  <2> QED BY <2>1, <2>3 DEF AllIn, InputFlow
<1> QED BY <1>1, Inductive, PTL

(* What a user of host-exec (executeCommand, CopyWithSplitMerge) has read     *)
(* when it sees the end of the output is all of it, but for what came with    *)
(* the answer over plain TCP; in a chain of any hops but attached ones.       *)
THEOREM OutputWhole == Spec => []ExecOutputComplete
<1>1. IInv => ExecOutputComplete
  <2> SUFFICES ASSUME Typed, MissedPlain, NEW g, OutputInv(g),
                      ~Attached, Drained(down[0])
               PROVE  sent["command"] = got["user"] + IF chain[1] = "plain" THEN missed ELSE 0
    BY DEF IInv, ExecOutputComplete
  <2>1. OutputFlow(g) /\ OutputEnds(g) BY DEF OutputInv
  <2>2. 0 \in 0..Hops BY HopsType
  <2>3. AllOut(g, 0) BY <2>1, <2>2, AllOutBack DEF Drained, OutputEnds
  <2>4. sent["command"] = got["user"] + missed
    BY <2>1, <2>3 DEF AllOut, OutputFlow
  <2> QED BY <2>4 DEF MissedPlain
<1> QED BY <1>1, Inductive, PTL
=============================================================================
