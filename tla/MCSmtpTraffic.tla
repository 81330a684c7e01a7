---------------------------- MODULE MCSmtpTraffic ----------------------------
\* Two connections of one client, the second on the port that the first has left.
EXTENDS SmtpTraffic

Step(do)         == [do |-> do, arg |-> "none", class |-> "none"]
Said(do, arg)    == [do |-> do, arg |-> arg, class |-> "none"]
Mail(id, class)  == [do |-> "queue", arg |-> id, class |-> class]
Serve            == <<Step("open"), Step("connect")>>
Upgrade          == <<Step("accept"), Step("hello")>>

\* A sender that upgrades, with and without Postfix logging it, one that does not,
\* one that does so between two messages, and one that the observer lost.
Secure    == Serve \o Upgrade \o <<Mail("q1", "ham")>>
Logged    == Serve \o Upgrade \o <<Step("handshake"), Mail("q1", "none")>>
Plain     == Serve \o <<Mail("q1", "spam")>>
Late      == Serve \o <<Mail("q2", "spam")>> \o Upgrade \o <<Mail("q1", "ham")>>
LateLog   == Serve \o <<Mail("q2", "spam")>> \o Upgrade \o <<Step("handshake"), Mail("q3", "none")>>
Lost      == <<Step("open"), Step("blind"), Step("connect")>> \o Upgrade \o <<Mail("q3", "ham")>>

\* Visitors of postscreen.
Support   == <<Step("open"), Step("screen"), Said("pregreet", "HELO"), Said("reject", "support")>>
User      == <<Step("open"), Step("screen"), Said("pregreet", "USER")>>
Other     == <<Step("open"), Step("screen"), Said("pregreet", "EHLO"), Said("reject", "bare")>>
Passed    == <<Step("open"), Step("screen"), Step("connect"), Said("reject", "support")>>

Pair(a, b) == [c \in {1, 2} |-> IF c = 1 THEN a ELSE b]
MCScripts ==
  {Pair(Plain, Secure), Pair(Secure, Logged), Pair(Late, Plain), Pair(Lost, LateLog),
   Pair(Support, Passed), Pair(User, Support), Pair(Other, User), Pair(Passed, Other)}
MCWindows == {<<0, 2>>, <<1, 2>>, <<0, 1>>}
=============================================================================
