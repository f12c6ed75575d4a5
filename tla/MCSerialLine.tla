---------------------------- MODULE MCSerialLine ----------------------------
(* SerialLine with payloads of at most two bytes for sricd: empty, plain, and *)
(* made of the bytes that must be escaped.  The noise is none, a stray byte,  *)
(* a lone framing byte, and a frame cut short: after its length, and within a *)
(* payload longer than any buffer.  Through trumpets go two frames; among     *)
(* those for ostric are one whose length it misses, and one that just fills   *)
(* the 11 bytes of pty_buf before one of 12.                                  *)
EXTENDS SerialLine

MCPayloads == {<<>>, <<7>>, <<Start, EscByte>>, <<GwStart, 94>>}
MCNoises   == {<<>>, <<3>>, <<Start>>, <<Start, 129, 2, 1>>,
               <<Start, 129, 2, 200, 1, 2, 3, 4, 5, 6, 7, 8>>}

Sent(type, payload) == [type |-> type, payload |-> payload]
MCRelayed ==
  [sricd  |-> {<<Sent(Start, <<7>>), Sent(GwStart, <<Start>>)>>},
   ostric |-> {<<Sent(Start, <<GwStart>>), Sent(GwStart, <<>>)>>,
               <<Sent(Start, <<1, 2, 3, 4>>), Sent(Start, <<>>)>>,
               <<Sent(Start, <<EscByte, 1, EscByte>>),
                 Sent(Start, <<EscByte, EscByte, EscByte>>)>>}]
=============================================================================
