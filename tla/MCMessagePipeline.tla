--------------------------- MODULE MCMessagePipeline ---------------------------
EXTENDS MessagePipeline

I(kind, text, media) == [kind |-> kind, text |-> text, media |-> media]

Meta(items) == [from |-> "meta", items |-> items]

MetaBodies ==
    {Meta(<<I("message", "short", "none"), I("captioned", "none", "image")>>),
     Meta(<<I("message", "none", "audio"), I("status", "none", "none")>>),
     Meta(<<I("message", "none", "none")>>)}

GenesysBodies ==
    {[from |-> "genesys", items |-> <<item>>] :
        item \in {I("message", "short", "none"), I("message", "short", "image"),
                  I("message", "none", "exotic"), I("status", "none", "none"),
                  I("typing", "none", "none"), I("ignored", "none", "none")}}

\* All that can be put to the transformer.
RouteBodies ==
    {[from |-> "route", items |-> <<I("message", text, media)>>] :
        text \in Texts, media \in Media}
    \cup {[from |-> "route", items |-> <<I("incomplete", "short", "none")>>]}

Defaults == [mime |-> "reject", audio |-> "separate_message", trusted |-> TRUE,
             integrated |-> TRUE, development |-> TRUE]

Settings ==
    {Defaults,
     [mime |-> "convert_to_document", audio |-> "discard_text", trusted |-> FALSE,
      integrated |-> TRUE, development |-> TRUE],
     [mime |-> "text_fallback", audio |-> "text_only", trusted |-> FALSE,
      integrated |-> TRUE, development |-> TRUE]}

Reply == [from |-> "genesys", items |-> <<I("message", "short", "image")>>]

\* A call of Meta during one of Genesys, two of Meta, or two to the route.
AllSetups ==
    [bodies : MetaBodies \X {Reply},
      setting : {Defaults, [Defaults EXCEPT !.trusted = FALSE],
                 [Defaults EXCEPT !.integrated = FALSE],
                 [Defaults EXCEPT !.development = FALSE]}]
    \cup [bodies : {Meta(<<I("captioned", "none", "image")>>)} \X GenesysBodies,
          setting : {Defaults}]
    \cup [bodies : {<<b, b>> : b \in RouteBodies}, setting : Settings]
=============================================================================
