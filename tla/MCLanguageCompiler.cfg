\* The dialog by compiled policies follows the drawn chart.
SPECIFICATION Spec
CONSTANTS
    order_data = order_data
    yes = yes
    other = other
    confirm = confirm
    amount = amount
    cellular = cellular
    left = left
    NoState = NoState
    NoReply = NoReply
    Nowhere = Nowhere
    Fallback = Fallback
    SessionState = SessionState
    Spoken = Spoken
    LastTts = "dmkit_param_last_tts"
    ContextNames <- MCContextNames
    Template <- MCTemplate
    Source <- MCSource
    Text <- MCText
    State <- MCState
    Slot <- MCSlot
    Charts <- MCCharts
    Turns <- MCTurns
    Numbered <- MCNumbered
INVARIANT
    TypeOK
PROPERTY
    FollowsChart
