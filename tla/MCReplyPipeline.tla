-------------------------- MODULE MCReplyPipeline --------------------------
(* A Page and a website with everything set up, messages of up to three      *)
(* traits that meet in one branch of the code, and replies of up to three    *)
(* phrases.                                                                  *)
EXTENDS ReplyPipeline

Page == {"inbox", "sells", "question", "notice", "deposits", "branches", "facts"}
Plain == {"inbox", "question", "image", "facts"}
Website == {"callback", "site", "sells", "deposits", "facts"}
MCTenants == {Page, Plain, Website, {"inbox"}, {"inbox", "stale"}}
PageOnly == {Page}
WebsiteOnly == {Website}

MCMessages ==
    {{}, {"old"}, {"asksPrice", "names"}, {"asksPrice", "asksDeposit"}, {"blocked", "asksPrice", "names"},
     {"refuses"}, {"suits", "names"}, {"suits"}, {"set"}, {"short"}, {"appends"}, {"phone"}, {"photo", "later"},
     {"crossed", "asksPrice"}, {"photo", "asksPrice"}, {"corrects"}, {"complains"}, {"branch"}}

\* Alone, and inside a longer reply.
Alone == {"plain", "price", "named", "guess", "hoursSaid", "leak", "label", "number", "near", "advice", "sorry",
          "site", "rows", "ask", "handoff", "callback", "unlisted", "booking", "follow", "question"}
Within == {"named", "leak", "site", "follow", "piece", "reworded", "number", "refusal"}
MCReplies == {{p} : p \in Alone} \union {{"plain", p} : p \in Within} \union
    {{"reworded", "price"}, {"reworded", "hoursSaid"}, {"sorry", "booking"}, {"ask", "named"}, {"label", "booking"},
     {"label", "rows"}, {"guess", "hours"}, {"site", "follow"}, {"leak", "price"}, {"handoff", "follow"}}
=============================================================================
