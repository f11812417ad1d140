SPECIFICATION Spec
CONSTANTS
    b1 = b1
    b2 = b2
    k1 = k1
    k2 = k2
    v1 = v1
    v2 = v2
    weather = weather
    music = music
    asked = asked
    NoBot = NoBot
    LastTts = LastTts
    NoValue = NoValue
    NoName = NoName
    Bot <- MCBot
    Key <- MCKey
    Value <- MCValue
    Policies <- OncePolicies
INVARIANTS
    TemplateReadsLastAnswer
