------------------------- MODULE PieceSizeGuessProofs -------------------------
(***************************************************************************)
(* The guess of the piece size, for any peers, any starting size and any   *)
(* width of swarmPieceSize.                                                *)
(***************************************************************************)
EXTENDS PieceSizeGuess, FiniteSetTheorems, TLAPS

\* What the mode says of the other variables: in CONFIRM and DOWNLOAD mode the
\* current size was probed, and DOWNLOAD mode was entered with a mark.
ModeInv ==
    /\ swamExecutionMode # "GUESS" => swarmPieceSize \in probed
    /\ pieceSize # -1 => /\ swamExecutionMode = "DOWNLOAD"
                         /\ pieceSize = swarmPieceSize
                         /\ marked # {}

\* A mark stands for the current size unless it is late: a size is only given
\* up when no peer is marked.
MarkInv ==
    marked # {} /\ ~late => \E q \in Peers : swarmPieceSize \in answered[q]

GuessInv == GuessTypeOK /\ ModeInv /\ MarkInv /\ NoGuessIsSkipped

\* The initial states satisfy the invariant.
LEMMA GuessInit == Init => GuessInv
  <1> SUFFICES ASSUME Init PROVE GuessInv
    OBVIOUS
  <1> USE GuessAssumption DEF Init
  <1>1. GuessTypeOK
    <2>1. swarmPieceSize \in Guesses
      BY DEF Guesses
    <2>2. /\ status \in [Peers -> {"unknown", "queued", "NEWBORN", "CONNECTED",
                                   "ERROR"}]
          /\ asked \in [Peers -> SUBSET Guesses]
          /\ answered \in [Peers -> SUBSET Guesses]
      OBVIOUS
    <2> QED BY <2>1, <2>2, Zenon DEF GuessTypeOK
  <1>2. ModeInv /\ MarkInv
    BY DEF ModeInv, MarkInv
  <1>3. NoGuessIsSkipped
    BY DEF NoGuessIsSkipped, Wrapped
  <1> QED BY <1>1, <1>2, <1>3 DEF GuessInv

\* No step of a peer or of its threads invents a mark for the current size.
LEMMA PeerStepInv ==
    ASSUME GuessInv, NEW q \in Peers,
           \/ PushPeer(q) \/ PeerConnects(q) \/ PeerFails(q) \/ IngestPeer(q)
           \/ \E guess \in Guesses : ProbeAnswered(q, guess)
           \/ \E seen \in BOOLEAN : OverwriteMarks(q, seen)
    PROVE  GuessInv'
  <1> USE DEF GuessInv, watchdogVars, markVars
  <1>1. CASE PushPeer(q) \/ PeerConnects(q) \/ IngestPeer(q)
    BY <1>1 DEF PushPeer, PeerConnects, IngestPeer, GuessTypeOK, ModeInv,
                MarkInv, NoGuessIsSkipped, Wrapped, Guesses
  <1>2. CASE PeerFails(q)
    BY <1>2 DEF PeerFails, GuessTypeOK, ModeInv, MarkInv, NoGuessIsSkipped,
                Wrapped, Guesses
  <1>3. ASSUME NEW guess \in Guesses, ProbeAnswered(q, guess)
        PROVE  GuessInv'
    <2> USE <1>3 DEF ProbeAnswered
    <2>1. GuessTypeOK'
      BY DEF GuessTypeOK, Guesses
    <2>2. ModeInv' /\ NoGuessIsSkipped'
      BY DEF ModeInv, NoGuessIsSkipped, Wrapped
    <2>3. MarkInv'
      BY DEF MarkInv, GuessTypeOK
    <2> QED BY <2>1, <2>2, <2>3
  <1>4. ASSUME NEW seen \in BOOLEAN, OverwriteMarks(q, seen)
        PROVE  GuessInv'
    <2> USE <1>4 DEF OverwriteMarks
    <2>1. GuessTypeOK'
      BY DEF GuessTypeOK, Guesses
    <2>2. ModeInv' /\ NoGuessIsSkipped'
      BY DEF ModeInv, NoGuessIsSkipped, Wrapped
    <2>3. MarkInv'
      <3> SUFFICES ASSUME marked' # {}, ~late'
                   PROVE  \E r \in Peers : swarmPieceSize \in answered[r]
        BY DEF MarkInv
      <3>1. CASE marked # {}
        BY <3>1 DEF MarkInv
      <3>2. CASE marked = {}
        BY <3>2
      <3> QED BY <3>1, <3>2
    <2> QED BY <2>1, <2>2, <2>3
  <1> QED BY <1>1, <1>2, <1>3, <1>4

\* A probe of the current size; nobody's mark changes.
LEMMA GuessStepInv == GuessInv /\ Guess => GuessInv'
  <1> SUFFICES ASSUME GuessInv, Guess PROVE GuessInv'
    OBVIOUS
  <1> USE DEF GuessInv, Guess, markVars
  <1>1. probed' = probed \cup {swarmPieceSize}
    BY DEF SomeoneToProbe
  <1>2. GuessTypeOK'
    BY <1>1 DEF GuessTypeOK, Guesses
  <1>3. ModeInv' /\ MarkInv'
    BY <1>1 DEF ModeInv, MarkInv
  <1>4. NoGuessIsSkipped'
    BY <1>1 DEF NoGuessIsSkipped, Wrapped
  <1> QED BY <1>2, <1>3, <1>4

\* The size that is given up was probed, and nobody is marked.
LEMMA DecreaseInv == GuessInv /\ DecreasePieceSize => GuessInv'
  <1> SUFFICES ASSUME GuessInv, DecreasePieceSize PROVE GuessInv'
    OBVIOUS
  <1> USE GuessAssumption DEF GuessInv, DecreasePieceSize, markVars, SizeBelow
  <1>1. GuessTypeOK'
    BY DEF GuessTypeOK, Guesses
  <1>2. ModeInv' /\ MarkInv'
    BY DEF ModeInv, MarkInv, ReceivedData
  <1>3. NoGuessIsSkipped'
    <2>1. swarmPieceSize \in probed /\ probed' = probed
      BY DEF ModeInv
    <2>2. CASE Wrapped
      <3>1. 0 .. StartingPieceSizeLog2 \subseteq probed
        BY <2>2 DEF NoGuessIsSkipped
      <3>2. \A size \in Guesses :
                size + 1 .. StartingPieceSizeLog2 \subseteq probed
        BY <3>1 DEF Guesses
      <3> QED BY <3>1, <3>2, <2>1, <1>1 DEF NoGuessIsSkipped, GuessTypeOK
    <2>3. CASE ~Wrapped /\ swarmPieceSize = 0
      BY <2>1, <2>3 DEF NoGuessIsSkipped, Wrapped, GuessTypeOK, Guesses
    <2>4. CASE ~Wrapped /\ swarmPieceSize # 0
      <3>1. ~Wrapped'
        BY <2>1, <2>4 DEF Wrapped, GuessTypeOK, Guesses
      <3>2. swarmPieceSize' + 1 .. StartingPieceSizeLog2 \subseteq probed
        BY <2>1, <2>4 DEF NoGuessIsSkipped, GuessTypeOK, Guesses
      <3> QED BY <2>1, <3>1, <3>2 DEF NoGuessIsSkipped
    <2> QED BY <2>2, <2>3, <2>4
  <1> QED BY <1>1, <1>2, <1>3

\* The tracker is told the current size.
LEMMA ConfirmInv == GuessInv /\ ConfirmPieceSize => GuessInv'
  <1> SUFFICES ASSUME GuessInv, ConfirmPieceSize PROVE GuessInv'
    OBVIOUS
  <1> USE DEF GuessInv, ConfirmPieceSize, markVars
  <1>1. GuessTypeOK'
    BY DEF GuessTypeOK, Guesses
  <1>2. ModeInv' /\ MarkInv'
    BY DEF ModeInv, MarkInv, ReceivedData
  <1>3. NoGuessIsSkipped'
    BY DEF NoGuessIsSkipped, Wrapped
  <1> QED BY <1>1, <1>2, <1>3

\* Every step preserves the invariant.
LEMMA GuessNext == GuessInv /\ [Next]_vars => GuessInv'
  <1> SUFFICES ASSUME GuessInv, [Next]_vars PROVE GuessInv'
    OBVIOUS
  <1>1. CASE PeerStep \/ \E q \in Peers : IngestPeer(q)
    BY <1>1, PeerStepInv DEF PeerStep
  <1>2. CASE Guess
    BY <1>2, GuessStepInv
  <1>3. CASE DecreasePieceSize
    BY <1>3, DecreaseInv
  <1>4. CASE ConfirmPieceSize
    BY <1>4, ConfirmInv
  <1>5. CASE UNCHANGED vars
    BY <1>5 DEF vars, watchdogVars, markVars, GuessInv, GuessTypeOK, ModeInv,
                MarkInv, NoGuessIsSkipped, Wrapped, Guesses
  <1>6. CASE GuessNobody \/ Download
    BY <1>5, <1>6 DEF GuessNobody, Download
  <1> QED BY <1>1, <1>2, <1>3, <1>4, <1>5, <1>6 DEF Next, Turn

\* The invariant holds of every behaviour of the guess.
LEMMA GuessInvariant == Spec => []GuessInv
  BY GuessInit, GuessNext, PTL DEF Spec

\* The types hold, for any width of the counter: the decrement without a lower
\* bound stays inside it.
THEOREM GuessTypeCorrect == Spec => []GuessTypeOK
  <1>1. GuessInv => GuessTypeOK
    BY DEF GuessInv
  <1> QED BY <1>1, GuessInvariant, PTL

\* Unless an answer came late, the size the tracker is told was answered.
THEOREM SizeWasAnswered == Spec => []ConfirmedSizeWasAnswered
  <1>1. GuessInv => ConfirmedSizeWasAnswered
    BY DEF GuessInv, ModeInv, MarkInv, ConfirmedSizeWasAnswered
  <1> QED BY <1>1, GuessInvariant, PTL

\* No size is given up that was not sent to a connected peer.
THEOREM GuessesInTurn == Spec => []NoGuessIsSkipped
  <1>1. GuessInv => NoGuessIsSkipped
    BY DEF GuessInv
  <1> QED BY <1>1, GuessInvariant, PTL

-----------------------------------------------------------------------------
(* The size is not too large *)

\* A larger number has more subsets.
LEMMA PowersGrow ==
    ASSUME NEW m \in Nat, NEW n \in Nat, m < n
    PROVE  2^m \in Nat /\ 2^n \in Nat /\ 2^m < 2^n
  <1> DEFINE M == SUBSET (1 .. m)
             N == SUBSET (1 .. n)
  <1>1. ASSUME NEW k \in Nat
        PROVE  IsFiniteSet(SUBSET (1 .. k)) /\ Cardinality(SUBSET (1 .. k)) = 2^k
    <2>1. IsFiniteSet(1 .. k) /\ Cardinality(1 .. k) = k
      BY FS_Interval
    <2> QED BY <2>1, FS_SUBSET
  <1>2. M \subseteq N /\ 1 .. n \in N /\ 1 .. n \notin M
    <2>1. 1 .. m \subseteq 1 .. n /\ n \in 1 .. n /\ n \notin 1 .. m
      OBVIOUS
    <2> QED BY <2>1
  <1>3. /\ IsFiniteSet(M) /\ Cardinality(M) = 2^m
        /\ IsFiniteSet(N) /\ Cardinality(N) = 2^n
    BY <1>1
  <1> HIDE DEF M, N
  <1>4. Cardinality(M) <= Cardinality(N) /\ Cardinality(M) # Cardinality(N)
    BY <1>2, <1>3, FS_Subset
  <1>5. Cardinality(M) \in Nat /\ Cardinality(N) \in Nat
    BY <1>3, FS_CardinalityType
  <1> QED BY <1>3, <1>4, <1>5

\* A peer answers the probe of a defined size only if its torrent's is not less.
LEMMA AnswerBoundsSize ==
    ASSUME NEW guess \in Guesses, guess < ShiftWidth,
           \E offset \in ProbeOffsets(guess) : offset < 2^TrueSize
    PROVE  guess <= TrueSize
  <1>1. guess \in Nat /\ TrueSize \in Nat /\ 2^guess - 1 < 2^TrueSize
    BY GuessAssumption DEF Guesses, ProbeOffsets
  <1>2. TrueSize < guess =>
            2^TrueSize \in Nat /\ 2^guess \in Nat /\ 2^TrueSize < 2^guess
    BY <1>1, PowersGrow
  <1> DEFINE x == 2^guess
             y == 2^TrueSize
  <1>3. x - 1 < y /\ (TrueSize < guess => x \in Nat /\ y \in Nat /\ y < x)
    BY <1>1, <1>2
  <1> HIDE DEF x, y
  <1> QED BY <1>1, <1>3

\* Until the wrap the guesses come down, so an answer, to whichever guess and
\* however late, bounds the current one for good.
ValidInv ==
    /\ \A q \in Peers : asked[q] \subseteq probed
    /\ \A q \in marked : answered[q] # {}
    /\ ~Wrapped => /\ \A guess \in probed : swarmPieceSize <= guess
                   /\ (\E q \in Peers : answered[q] # {}) => swarmPieceSize <= TrueSize

\* Nothing is probed at the start.
LEMMA ValidInit == Init => ValidInv
  BY DEF Init, ValidInv

\* A peer's step answers a probe, or none.
LEMMA PeerStepValid ==
    ASSUME GuessInv, ValidInv, PeerStep \/ \E q \in Peers : IngestPeer(q)
    PROVE  ValidInv'
  <1>1. UNCHANGED watchdogVars
    BY DEF PeerStep, PushPeer, PeerConnects, PeerFails, ProbeAnswered,
           OverwriteMarks, IngestPeer
  <1>2. Wrapped' = Wrapped
    BY <1>1 DEF Wrapped, watchdogVars
  <1>3. ASSUME NEW q \in Peers, PushPeer(q) \/ PeerConnects(q) \/ IngestPeer(q)
        PROVE  ValidInv'
    <2>1. UNCHANGED <<asked, marked, answered>>
      BY <1>3 DEF PushPeer, PeerConnects, IngestPeer, markVars
    <2> QED BY <1>1, <1>2, <2>1 DEF ValidInv, watchdogVars
  <1>4. ASSUME NEW q \in Peers, PeerFails(q)
        PROVE  ValidInv'
    <2>1. asked' = [asked EXCEPT ![q] = {}] /\ UNCHANGED <<marked, answered>>
      BY <1>4 DEF PeerFails, markVars
    <2>2. \A r \in Peers : asked'[r] \subseteq probed
      BY <2>1 DEF GuessInv, GuessTypeOK, ValidInv
    <2> QED BY <1>1, <1>2, <2>1, <2>2 DEF ValidInv, watchdogVars
  <1>5. ASSUME NEW q \in Peers, NEW guess \in Guesses, ProbeAnswered(q, guess)
        PROVE  ValidInv'
    <2>1. /\ guess \in probed /\ marked' = marked \cup {q}
          /\ \A r \in Peers : asked'[r] \subseteq asked[r]
          /\ \A r \in Peers : answered[r] \subseteq answered'[r]
          /\ guess \in answered'[q]
      BY <1>5 DEF ProbeAnswered, GuessInv, GuessTypeOK, ValidInv
    <2>2. ~Wrapped => swarmPieceSize <= TrueSize
      <3> SUFFICES ASSUME ~Wrapped PROVE swarmPieceSize <= TrueSize
        OBVIOUS
      <3>1. swarmPieceSize <= guess
        BY <2>1 DEF ValidInv
      <3>2. guess < ShiftWidth
        BY <2>1, GuessAssumption DEF Wrapped, Guesses
      <3>3. guess <= TrueSize
        BY <1>5, <3>2, AnswerBoundsSize DEF ProbeAnswered
      <3> QED BY <3>1, <3>3, GuessAssumption DEF GuessInv, GuessTypeOK, Guesses
    <2>3. marked \subseteq Peers
      BY DEF GuessInv, GuessTypeOK
    <2>4. /\ \A r \in Peers : asked'[r] \subseteq probed
          /\ \A r \in marked' : answered'[r] # {}
      BY <2>1, <2>3 DEF ValidInv
    <2> QED BY <1>1, <1>2, <2>2, <2>4 DEF ValidInv, watchdogVars
  <1>6. ASSUME NEW q \in Peers, NEW seen \in BOOLEAN, OverwriteMarks(q, seen)
        PROVE  ValidInv'
    <2>1. /\ answered[q] # {} /\ marked' \subseteq marked \cup {q}
          /\ UNCHANGED <<asked, answered>>
      BY <1>6 DEF OverwriteMarks
    <2> QED BY <1>1, <1>2, <2>1 DEF ValidInv, watchdogVars
  <1> QED BY <1>3, <1>4, <1>5, <1>6 DEF PeerStep

\* The watchdog's turn goes to the next size down, and wraps for good.
LEMMA TurnValid ==
    ASSUME GuessInv, ValidInv, Turn
    PROVE  ValidInv'
  <1>1. CASE Guess
    <2>1. /\ probed' = probed \cup {swarmPieceSize} /\ swarmPieceSize' = swarmPieceSize
          /\ UNCHANGED <<marked, answered>>
          /\ \A q \in Peers : asked'[q] \subseteq asked[q] \cup {swarmPieceSize}
      BY <1>1 DEF Guess, SomeoneToProbe, markVars
    <2>2. Wrapped' = Wrapped
      BY <2>1 DEF Wrapped
    <2>3. swarmPieceSize <= swarmPieceSize
      BY DEF GuessInv, GuessTypeOK, Guesses
    <2> QED BY <2>1, <2>2, <2>3 DEF ValidInv
  <1>2. CASE DecreasePieceSize
    <2>1. /\ swarmPieceSize' = SizeBelow(swarmPieceSize) /\ swarmPieceSize \in probed
          /\ UNCHANGED <<probed, asked, marked, answered>>
      BY <1>2 DEF DecreasePieceSize, markVars, GuessInv, ModeInv
    <2>2. /\ swarmPieceSize \in Nat /\ TrueSize \in Nat
          /\ SizeValues \in Nat /\ StartingPieceSizeLog2 \in Nat
          /\ SizeValues - 1 > StartingPieceSizeLog2 /\ probed \subseteq Nat
      BY GuessAssumption DEF GuessInv, GuessTypeOK, Guesses
    <2>3. ~Wrapped' => ~Wrapped
      BY <2>1 DEF Wrapped
    <2>4. ~Wrapped' => swarmPieceSize # 0
      BY <2>1, <2>2 DEF Wrapped, SizeBelow
    <2>5. swarmPieceSize # 0 => \A n \in Nat : swarmPieceSize <= n => swarmPieceSize' <= n
      BY <2>1, <2>2 DEF SizeBelow
    <2> QED BY <2>1, <2>2, <2>3, <2>4, <2>5 DEF ValidInv
  <1>3. CASE ConfirmPieceSize \/ GuessNobody \/ Download
    <2>1. UNCHANGED <<swarmPieceSize, probed, asked, marked, answered>>
      BY <1>3 DEF ConfirmPieceSize, GuessNobody, Download, vars, watchdogVars, markVars
    <2> QED BY <2>1 DEF ValidInv, Wrapped
  <1> QED BY <1>1, <1>2, <1>3 DEF Turn

\* Every step keeps the bounds of the guesses.
LEMMA ValidNext == GuessInv /\ ValidInv /\ [Next]_vars => ValidInv'
  <1>1. UNCHANGED vars /\ ValidInv => ValidInv'
    BY DEF vars, watchdogVars, markVars, ValidInv, Wrapped
  <1> QED BY <1>1, PeerStepValid, TurnValid DEF Next

\* Up to the wrap the tracker is never told a size larger than the torrent's,
\* whatever the threads do to the marks and however late the answers come.
THEOREM SizeIsValid == Spec => []ConfirmedSizeIsValid
  <1>1. ASSUME GuessInv, ValidInv PROVE ConfirmedSizeIsValid
    <2> SUFFICES ASSUME pieceSize # -1, ~Wrapped PROVE pieceSize <= TrueSize
      BY DEF ConfirmedSizeIsValid
    <2>1. pieceSize = swarmPieceSize /\ marked # {} /\ marked \subseteq Peers
      BY <1>1 DEF GuessInv, GuessTypeOK, ModeInv
    <2> QED BY <1>1, <2>1 DEF ValidInv
  <1> QED BY <1>1, ValidInit, ValidNext, GuessInvariant, PTL DEF Spec
=============================================================================
