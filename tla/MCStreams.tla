----------------------------- MODULE MCStreams -----------------------------
(* One run for the three adapters: the first state chooses one whose         *)
(* responses are followed, or the requests that all of them build, and only  *)
(* that part takes steps.                                                    *)
EXTENDS ProviderStream, TLC

CONSTANTS s1, s2, s3, Overlap, Interleaved, Misfires, ChatBlocks,
          MaxExchanges, MaxItems

VARIABLES exchanges, live, made, instructions
VARIABLES adapter, shared, current, mheld, foreign, message, calls, heap, loop, wording, rheld

TwoStreams == {s1, s2}
ThreeStreams == {s1, s2, s3}
ByUser == Stream
StreamSymmetry == Permutations(Stream)

\* ChatBlocks: the bound on blocks for the Chat Completions adapter, which needs
\* a text and two calls for every loop to be entered twice.
M == INSTANCE V1Messages WITH held <- mheld
C == INSTANCE V1ChatCompletition WITH MaxBlocks <- ChatBlocks
R == INSTANCE V1Response WITH held <- rheld
Q == INSTANCE Requests

mvars == <<current, mheld, foreign>>
cvars == <<message, calls, heap, loop>>
rvars == <<wording, rheld>>
qvars == <<exchanges, live, made, instructions>>
vars == <<adapter, shared, base, mvars, cvars, rvars, qvars>>

Init ==
  /\ adapter \in {"messages", "chat", "response", "requests"}
  /\ M!Init /\ C!Init /\ R!Init /\ Q!Init
  /\ adapter # "requests" => ~instructions
  /\ shared = {}

\* The responses that are read side by side.
Together == IF \E s, t \in Active : s # t THEN Active ELSE {}

\* shared: the responses that were ever read while another one was.
Remember == shared' = shared \cup Together'

Next ==
  /\ UNCHANGED adapter
  /\ \/ adapter = "messages" /\ M!Next /\ Remember /\ UNCHANGED <<cvars, rvars, qvars>>
     \/ adapter = "chat" /\ C!Next /\ Remember /\ UNCHANGED <<mvars, rvars, qvars>>
     \/ adapter = "response" /\ R!Next /\ UNCHANGED <<shared, mvars, cvars, qvars>>
     \/ adapter = "requests" /\ Q!Next /\ UNCHANGED <<shared, base, mvars, cvars, rvars>>

Spec == Init /\ [][Next]_vars

\* The bound of the run that follows them all: two responses, not side by side but
\* for the Responses adapter; or two of no more than a block without a delta, side by
\* side, and such a third one when they are over.
Begun == {s \in Stream : pc[s] # "idle"}

Short(s) ==
  Len(said[s]) <= 1 /\ foreign[s] <= 1 /\ \A b \in DOMAIN said[s] : said[s][b].deltas = 0

TwoOrShort ==
  \/ Cardinality(Begun) <= 2 /\ shared = {}
  \/ Cardinality(Begun) <= 2 /\ \A s \in Stream : Short(s)
  \/ Cardinality(Active) <= 1 /\ \A s \in Stream : Short(s)

SpecBounded == Init /\ [][Next /\ TwoOrShort']_vars

\* The runs that follow one adapter.
SpecMessages == Spec /\ adapter = "messages"
SpecRequests == Spec /\ adapter = "requests"
SpecResponse == Spec /\ adapter = "response"

\* The Messages adapter keeps the contract with every response that it does not
\* read side by side with another: no delta of a block is lost or lands elsewhere,
\* a closed call is launched once and whole, and what earlier responses have left
\* on the provider object, cut or read side by side as they may be, does not reach
\* it, not even through a block of an unknown type (v1messages.py).
MessagesMirror ==
  [][adapter = "messages" => \A s \in Stream \ shared' : IS!Follows(s)]_vars

\* The same for the Chat Completions adapter, whose calls are launched from a
\* loop over a dict, at finish_reason or at [DONE] but never at both.
ChatMirrors == [][adapter = "chat" => \A s \in Stream \ shared' : IS!Follows(s)]_vars

\* The same for the Responses adapter, even for responses read side by side.
ResponseMirrors == [][adapter = "response" => [IS!Next]_(IS!vars)]_vars

\* Misfired text deltas are ignored (v1response.py), so the user's message
\* keeps the user's words.
UserWordsKept == R!UserWordsKept

\* A response is read from its own state only: whatever an adapter keeps while
\* it tracks content blocks belongs to that response.
NoCrossTalk ==
  \A s \in Stream : \A i \in DOMAIN items[s] : \A f \in DOMAIN items[s][i].content :
    items[s][i].content[f][1] = s

\* The three adapters tell the model the story of the conversation.
TellsTheStory == Q!TellsTheStory

\* A conversation at rest can be put into a request: it waits for the next
\* message of the user (datamodel.py) and can serve it.
NextMessageIsServed == Q!NextMessageIsServed

=============================================================================
