----------------------------- MODULE HsmParser ------------------------------
(***************************************************************************)
(* examples/c/uart-hsm/hsm_parser.c on top of the engine's dispatch: the   *)
(* frame 0xAA LEN(2) CMD_CLASS CMD DATA CRC(2) 0x55 of uart_protocol.h.    *)
(* All states are at the top of the hierarchy and have no entry or exit    *)
(* actions, so that one dispatch is one change of a record p.              *)
(*                                                                         *)
(* A byte is 0 .. Byte - 1 (256 in the code), HSM_FRAME_DATA_MAX is        *)
(* DataMax.  The CRC is some function of the payload that depends on the   *)
(* order of its bytes.                                                     *)
(***************************************************************************)
EXTENDS Naturals, Sequences, SequencesExt

CONSTANTS Byte, DataMax, HEADER, TAIL

T(event, target, guard, action) ==
  [event |-> event, target |-> target, guard |-> guard, action |-> action]

\* The transition tables
Table ==
  [Idle     |-> <<T("byte",    "Length1",  "is_header",       "reset_context"),
                  T("byte",    "Idle",     "is_not_header",   "sync_error"),
                  T("reset",   "Idle",     "none",            "reset_context")>>,
   Length1  |-> <<T("byte",    "Length2",  "none",            "store_length1"),
                  T("timeout", "Idle",     "none",            "timeout_error")>>,
   Length2  |-> <<T("byte",    "CmdClass", "length_valid",    "store_length2"),
                  T("byte",    "Idle",     "length_invalid",  "length_error"),
                  T("timeout", "Idle",     "none",            "timeout_error")>>,
   CmdClass |-> <<T("byte",    "Cmd",      "none",            "store_cmd_class"),
                  T("timeout", "Idle",     "none",            "timeout_error")>>,
   Cmd      |-> <<T("byte",    "Data",     "has_data",        "store_cmd"),
                  T("byte",    "CRC1",     "no_data",         "store_cmd"),
                  T("timeout", "Idle",     "none",            "timeout_error")>>,
   Data     |-> <<T("byte",    "Data",     "data_incomplete", "store_data"),
                  T("byte",    "CRC1",     "data_complete",   "store_data"),
                  T("timeout", "Idle",     "none",            "timeout_error")>>,
   CRC1     |-> <<T("byte",    "CRC2",     "none",            "store_crc1"),
                  T("timeout", "Idle",     "none",            "timeout_error")>>,
   CRC2     |-> <<T("byte",    "Tail",     "none",            "store_crc2"),
                  T("timeout", "Idle",     "none",            "timeout_error")>>,
   Tail     |-> <<T("byte",    "Idle",     "is_tail",         "complete_frame"),
                  T("byte",    "Idle",     "none",            "tail_error")>>,
   \* not a state of the code: a byte was stored behind frame.data
   Overrun  |-> <<>>]

NoFrame == [cmd_class |-> 0, cmd |-> 0, data_len |-> 0, data |-> <<>>]

\* reset_parse_context
ResetContext(p) ==
  [p EXCEPT !.frame = NoFrame, !.expected_len = 0, !.data_index = 0,
            !.payload = <<>>, !.crc_buf = <<0, 0>>]

\* hsm_parser_init; out is what the last event did: a statistics counter that
\* was incremented, or "frame" for the callback.
InitParser ==
  [state |-> "Idle", frame |-> NoFrame, expected_len |-> 0, data_index |-> 0,
   payload |-> <<>>, crc_buf |-> <<0, 0>>, out |-> "none"]

\* uart_calc_crc16: a table-driven fold over the bytes
Crc16(bytes) ==
  FoldLeft(LAMBDA crc, b : (2 * crc + b + 1) % (Byte * Byte), 0, bytes)

-----------------------------------------------------------------------------
Guard(p, g, b) ==
  CASE g = "none"            -> TRUE
    [] g = "is_header"       -> b = HEADER
    [] g = "is_not_header"   -> b # HEADER
    [] g = "length_valid"    -> p.expected_len >= 2 /\ p.expected_len - 2 <= DataMax
    [] g = "length_invalid"  -> ~(p.expected_len >= 2 /\ p.expected_len - 2 <= DataMax)
    [] g = "has_data"        -> p.expected_len > 2
    [] g = "no_data"         -> p.expected_len = 2
    [] g = "data_incomplete" -> p.data_index + 1 < p.frame.data_len
    [] g = "data_complete"   -> p.data_index + 1 >= p.frame.data_len
    [] g = "is_tail"         -> b = TAIL

\* complete_frame: the callback is called only if the CRC is right.
CompleteFrame(p) ==
  [p EXCEPT !.out = IF Crc16(p.payload) = p.crc_buf[1] + Byte * p.crc_buf[2]
                      THEN "frame" ELSE "crc_error"]

StoreData(p, b) ==
  IF p.data_index >= p.frame.data_len THEN p
  ELSE [p EXCEPT !.frame.data = Append(@, b), !.payload = Append(@, b),
                 !.data_index = @ + 1]

StoreCmd(p, b) ==
  [p EXCEPT !.frame.cmd = b, !.payload = Append(@, b),
            !.frame.data_len = p.expected_len - 2, !.data_index = 0]

Action(p, a, b) ==
  CASE a = "reset_context"   -> ResetContext(p)
    [] a = "store_length1"   -> [p EXCEPT !.expected_len = b]
    [] a = "store_length2"   -> [p EXCEPT !.expected_len = @ + Byte * b]
    [] a = "store_cmd_class" -> [p EXCEPT !.frame.cmd_class = b, !.payload = Append(@, b)]
    [] a = "store_cmd"       -> StoreCmd(p, b)
    [] a = "store_data"      -> StoreData(p, b)
    [] a = "store_crc1"      -> [p EXCEPT !.crc_buf[1] = b]
    [] a = "store_crc2"      -> [p EXCEPT !.crc_buf[2] = b]
    [] a = "complete_frame"  -> CompleteFrame(p)
    [] OTHER                 -> [p EXCEPT !.out = a]

\* hsm_dispatch with current_byte b: the first transition whose guard passes;
\* its guards see the context as it is before its action.
Dispatch(p, event, b) ==
  LET q == [p EXCEPT !.out = "none"]
      found == SelectSeq(Table[p.state],
                         LAMBDA t : t.event = event /\ Guard(p, t.guard, b))
  IN  IF found = <<>> THEN q
      ELSE [Action(q, Head(found).action, b) EXCEPT !.state = Head(found).target]

\* hsm_parser_put_byte; a data byte behind the buffer overwrites what is there,
\* the context included, and is the end of the model.
PutByte(p, b) ==
  LET q == Dispatch(p, "byte", b)
  IN  IF Len(q.frame.data) > DataMax
        THEN [InitParser EXCEPT !.state = "Overrun"]
        ELSE q

\* hsm_parser_put_data
PutData(p, bytes) == FoldLeft(PutByte, p, bytes)

\* hsm_parser_reset
ParserReset(p) == Dispatch(ResetContext(p), "reset", 0)

\* uart_build_simple_frame
BuildFrame(cmd_class, cmd, data) ==
  LET payload == <<cmd_class, cmd>> \o data
      len == Len(payload)
      crc == Crc16(payload)
  IN  <<HEADER, len % Byte, len \div Byte>> \o payload
        \o <<crc % Byte, crc \div Byte, TAIL>>

Frame(cmd_class, cmd, data) ==
  [cmd_class |-> cmd_class, cmd |-> cmd, data_len |-> Len(data), data |-> data]

-----------------------------------------------------------------------------
VARIABLES
  parser,   \* hsm_parser_t
  line      \* ghost: the bytes since the header, <<>> if the context was reset

Init ==
  /\ parser = InitParser
  /\ line = <<>>

\* A byte arrives: of the payload's, HEADER and TAIL are the ones to confuse.
Receive(b) ==
  /\ parser.state \in {"CmdClass", "Cmd", "Data"} => b \in {HEADER, TAIL}
  /\ parser' = PutByte(parser, b)
  /\ line' = IF parser.state = "Idle" THEN (IF b = HEADER THEN <<b>> ELSE <<>>)
             ELSE IF line # <<>> /\ parser.state # "Overrun" THEN Append(line, b)
             ELSE line

\* The program dispatches HSM_EVENT_TIMEOUT.
Timeout ==
  /\ parser' = Dispatch(parser, "timeout", 0)
  /\ line' = IF parser'.state = "Idle" THEN <<>> ELSE line

Reset ==
  /\ parser' = ParserReset(parser)
  /\ line' = <<>>

Next == (\E b \in 0 .. Byte - 1 : Receive(b)) \/ Timeout \/ Reset

\* Frames with 0 .. DataMax bytes of data that the length check lets pass: it
\* sees the low byte of the length alone, which must be at least 2.
Passing ==
  {d \in UNION {[1 .. n -> {HEADER, TAIL}] : n \in 0 .. DataMax} :
     (Len(d) + 2) % Byte >= 2}

(***************************************************************************)
(* A frame that arrives while the parser is idle is delivered and leaves   *)
(* it idle, whatever came before: noise, broken frames, timeouts, resets   *)
(* and what they left in the context, unless a byte was stored behind      *)
(* frame.data.  Payload bytes may look like a header or a tail.            *)
(***************************************************************************)
FramesGetThrough ==
  parser.state = "Idle" =>
    \A data \in Passing :
      LET p == PutData(parser, BuildFrame(HEADER, TAIL, data))
      IN  /\ p.state = "Idle"
          /\ p.out = "frame"
          /\ p.frame = Frame(HEADER, TAIL, data)

(***************************************************************************)
(* The callback gets only what a sender built: the bytes from the header   *)
(* on are exactly uart_build_simple_frame of the delivered frame, unless   *)
(* the context was reset in between.                                       *)
(***************************************************************************)
OnlyWholeFrames ==
  parser.out = "frame" /\ line # <<>> =>
    line = BuildFrame(parser.frame.cmd_class, parser.frame.cmd, parser.frame.data)

(***************************************************************************)
(* A byte is stored behind frame.data exactly if a frame announces more    *)
(* data than that holds and sends it: the length guard passes such a frame *)
(* if the low byte of its length is at least 2, and nothing later stops    *)
(* it.  No other line, however broken, does.                               *)
(***************************************************************************)
OverrunsIfTooLong ==
  line # <<>> =>
    (parser.state = "Overrun" <=>
       Len(line) > 5 + DataMax /\ line[2] + Byte * line[3] > 2 + DataMax)

(***************************************************************************)
(* hsm_parser.h:102 names hsm_parser_reset "reset the parser": it is idle  *)
(* afterwards.                                                             *)
(***************************************************************************)
ResetParserIsIdle == [][Reset => parser'.state = "Idle"]_<<parser, line>>

=============================================================================
