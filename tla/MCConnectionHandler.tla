------------------------ MODULE MCConnectionHandler ------------------------
(* A size packet of up to 3 bytes, so a header read may reach 2 bytes beyond a
   size of one byte; a packet limit of 4, and a buffer with room beyond it for
   more headers than there are empty messages in a row. *)
EXTENDS ConnectionHandler

Msg(tag, varint, size, parses) ==
    [tag |-> tag, varint |-> varint, size |-> size, parses |-> parses]

Logins == {Msg("login", 1, 2, TRUE), Msg("login", 2, 5, TRUE)}

\* An empty message, one that the header read may take whole, one with a longer
\* size packet, one at the limit, one beyond it, and the kinds of a bad message.
GoodMessages == {Msg("data", 1, 0, TRUE), Msg("data", 1, 2, TRUE), Msg("data", 2, 3, TRUE),
                 Msg("data", 1, 4, TRUE), Msg("data", 2, 9, TRUE)}

BadMessages == {Msg("invalid", 1, 0, TRUE), Msg("invalid", 1, 2, TRUE),
                Msg("data", 4, 0, TRUE), Msg("data", 1, 2, FALSE), Msg("data", 2, 5, FALSE)}

Good(msgs) == [version |-> TRUE, msgs |-> msgs]

Large == Msg("data", 3, 9, TRUE)

MCStreams ==
    {[version |-> FALSE, msgs |-> <<l>>] : l \in Logins}
      \union {Good(<<l, a, b, Large>>) : l \in Logins, a \in GoodMessages, b \in GoodMessages}
      \union {Good(<<l, a>>) : l \in Logins, a \in BadMessages}

\* A body of one byte, followed at once by another message.
MCSmallStreams == 
    {Good(<<l, Msg("data", 1, 1, TRUE), Msg("data", 1, 2, TRUE)>>) : l \in Logins}

==============================================================================
